--------------------------- MODULE MCCookieManager ---------------------------
(* Instances of CookieManager for TLC.                                       *)
EXTENDS CookieManager, TLC
CONSTANTS a, b, v1, v2, p1, p2

Sizes == v1 :> 1 @@ v2 :> 1
Lines == v1 :> 1 @@ v2 :> 2
Plain == [path |-> None, size |-> 3, count |-> 2, room |-> 2]
With(path, size, count, room) == [path |-> path, size |-> size, count |-> count, room |-> room]
Names == Permutations(Key)
Usages == {With(p1, 3, 2, 2), With(p2, 2, 1, 1), With(p1, 3, 0, 2)}
=============================================================================
