---------------------------- MODULE MCJobManager ----------------------------
(* Instances of JobManager for TLC: handles a, b, c, d and pages p, q.        *)
EXTENDS JobManager

CONSTANTS a, b, c, d, p, q

Pair(x, y)  == a :> x @@ c :> y
All(w, x, y, z) == a :> w @@ b :> x @@ c :> y @@ d :> z

HttpFile       == Pair("http", "file")
CacheFile      == Pair("cache", "file")
PostCustom     == Pair("post", "custom")
FilesRefusedData == All("file", "filtered", "file", "data")

SamePage    == Pair(p, p)
TwoPages    == Pair(p, q)
AllOnOne    == All(p, p, p, p)
=============================================================================
