-------------------------- MODULE DiskCacheProofs --------------------------
(***************************************************************************)
(* Proofs about DiskCache, for any URLs, bodies, names, jobs and limits.   *)
(* What relates the map to the files holds for an application that names   *)
(* one cache directory (OneDirectory): naming another leaves the map of    *)
(* the old one (see the README).                                           *)
(***************************************************************************)
EXTENDS DiskCache, FiniteSetTheorems, SequenceLemmas

OneDirectory == \A d, e \in Dir : d = e

(* What a map, and an ini file that lists one, keep: an entry was made of a  *)
(* body given for its URL, and no two entries share a file.                  *)
OwnFiles(map) == \A i, k \in DOMAIN map : map[i].file = map[k].file => i = k
OwnBodies(map) == \A k \in DOMAIN map : map[k].body[1] = k
Listable(map) == DataMap(map) /\ OwnBodies(map) /\ (OneDirectory => OwnFiles(map))

Durable(disk) == Disk(disk) /\ \A d \in Dir : Listable(disk[d].ini)

(* What a map and the files of its directory are to each other.              *)
Backed(map, files) == \A k \in DOMAIN map : files[map[k].file] # None
Tidy(map, files) == \A n \in Name : files[n] \in Body => n \in FilesOf(map)

(* A handler state, in the middle of an operation or after it.               *)
Consistent(c) ==
  /\ OneDirectory /\ c.on => Backed(c.map, Files(c)) /\ Tidy(c.map, Files(c))
  /\ ~c.on => DOMAIN c.map = {}
Sound(c) ==
  /\ Cache(c)
  /\ Listable(c.map)
  /\ Durable(c.disk)
  /\ \A image \in c.images : Durable(image)
  /\ Consistent(c)

FileSet == [Name -> Content \cup {None}]

-----------------------------------------------------------------------------
(* Constants, maps and disks.                                                *)

LEMMA BodyFacts == None \notin Content /\ Torn \notin Body /\ Body \subseteq Content
BY NoneAssumption, TornAssumption DEF Content, Body

LEMMA MapFinite ==
  ASSUME NEW map, DataMap(map), NEW K, K \subseteq DOMAIN map
  PROVE  IsFiniteSet(K) /\ Cardinality(K) \in Nat
<1>1. K \subseteq Key
  BY DEF DataMap
<1>2. IsFiniteSet(K)
  BY <1>1, SetAssumption, FS_Subset
<1>3. QED
  BY <1>2, FS_CardinalityType

LEMMA EntryType ==
  ASSUME NEW map, DataMap(map), NEW k \in DOMAIN map
  PROVE  /\ k \in Key
         /\ map[k] \in Info
         /\ map[k].file \in Name
         /\ map[k].body \in Body
BY DEF DataMap, Info

LEMMA EmptyListable == Listable(Empty)
<1>1. DOMAIN Empty = {} /\ Empty \in [DOMAIN Empty -> Info]
  BY DEF Empty
<1>2. QED
  BY <1>1 DEF Listable, DataMap, OwnBodies, OwnFiles

LEMMA RestrictListable ==
  ASSUME NEW map, Listable(map), NEW K, K \subseteq DOMAIN map
  PROVE  /\ Listable(Restrict(map, K))
         /\ DOMAIN Restrict(map, K) = K
         /\ \A k \in K : Restrict(map, K)[k] = map[k]
<1>1. DOMAIN Restrict(map, K) = K /\ \A k \in K : Restrict(map, K)[k] = map[k]
  BY DEF Restrict
<1>2. Restrict(map, K) \in [K -> Info] /\ K \subseteq Key
  BY <1>1 DEF Restrict, Listable, DataMap
<1>3. QED
  BY <1>1, <1>2 DEF Listable, DataMap, OwnBodies, OwnFiles

LEMMA DiskAt ==
  ASSUME NEW disk, Durable(disk), NEW d \in Dir
  PROVE  disk[d].files \in FileSet /\ Listable(disk[d].ini)
BY DEF Durable, Disk, FileSet

(* The files of a directory change, or its ini file.                         *)
LEMMA FilesChange ==
  ASSUME NEW disk, Durable(disk), NEW d \in Dir, NEW files \in FileSet
  PROVE  /\ Durable([disk EXCEPT ![d].files = files])
         /\ [disk EXCEPT ![d].files = files][d].files = files
         /\ \A e \in Dir : [disk EXCEPT ![d].files = files][e].ini = disk[e].ini
<1> DEFINE new == [disk EXCEPT ![d].files = files]
<1>1. disk = [e \in Dir |-> [files |-> disk[e].files, ini |-> disk[e].ini]]
  BY DEF Durable, Disk
<1>2. \A e \in Dir : new[e] = IF e = d THEN [files |-> files, ini |-> disk[e].ini]
                                        ELSE [files |-> disk[e].files, ini |-> disk[e].ini]
  BY <1>1
<1>3. DOMAIN new = Dir /\ new = [e \in Dir |-> new[e]]
  BY <1>1
<1> HIDE DEF new
<1>4. ASSUME NEW e \in Dir
      PROVE  /\ new[e] = [files |-> new[e].files, ini |-> new[e].ini]
             /\ new[e].files = IF e = d THEN files ELSE disk[e].files
             /\ new[e].ini = disk[e].ini
  <2>1. CASE e = d
    <3>1. new[e] = [files |-> files, ini |-> disk[e].ini]
      BY <1>2, <2>1
    <3>2. QED
      BY <2>1, <3>1
  <2>2. CASE e # d
    <3>1. new[e] = [files |-> disk[e].files, ini |-> disk[e].ini]
      BY <1>2, <2>2
    <3>2. QED
      BY <2>2, <3>1
  <2>3. QED
    BY <2>1, <2>2
<1>5. new = [e \in Dir |-> [files |-> new[e].files, ini |-> new[e].ini]]
  BY <1>3, <1>4
<1>6. Durable(new)
  BY <1>4, <1>5 DEF Durable, Disk, FileSet, Listable
<1>7. QED
  BY <1>4, <1>6 DEF new

LEMMA IniChange ==
  ASSUME NEW disk, Durable(disk), NEW d \in Dir, NEW map, Listable(map)
  PROVE  /\ Durable([disk EXCEPT ![d].ini = map])
         /\ \A e \in Dir : [disk EXCEPT ![d].ini = map][e].files = disk[e].files
<1> DEFINE new == [disk EXCEPT ![d].ini = map]
<1>1. disk = [e \in Dir |-> [files |-> disk[e].files, ini |-> disk[e].ini]]
  BY DEF Durable, Disk
<1>2. \A e \in Dir : new[e] = IF e = d THEN [files |-> disk[e].files, ini |-> map]
                                        ELSE [files |-> disk[e].files, ini |-> disk[e].ini]
  BY <1>1
<1>3. DOMAIN new = Dir /\ new = [e \in Dir |-> new[e]]
  BY <1>1
<1> HIDE DEF new
<1>4. ASSUME NEW e \in Dir
      PROVE  /\ new[e] = [files |-> new[e].files, ini |-> new[e].ini]
             /\ new[e].files = disk[e].files
             /\ new[e].ini = IF e = d THEN map ELSE disk[e].ini
  <2>1. CASE e = d
    <3>1. new[e] = [files |-> disk[e].files, ini |-> map]
      BY <1>2, <2>1
    <3>2. QED
      BY <2>1, <3>1
  <2>2. CASE e # d
    <3>1. new[e] = [files |-> disk[e].files, ini |-> disk[e].ini]
      BY <1>2, <2>2
    <3>2. QED
      BY <2>2, <3>1
  <2>3. QED
    BY <2>1, <2>2
<1>5. new = [e \in Dir |-> [files |-> new[e].files, ini |-> new[e].ini]]
  BY <1>3, <1>4
<1>6. Durable(new)
  BY <1>4, <1>5 DEF Durable, Disk, Listable
<1>7. QED
  BY <1>4, <1>6 DEF new

-----------------------------------------------------------------------------
(* Removing files and entries.                                               *)

Record(c) == c = [on |-> c.on, dir |-> c.dir, limit |-> c.limit, map |-> c.map, count |-> c.count,
                  accesses |-> c.accesses, disk |-> c.disk, images |-> c.images]
SameHandler(c, d) == d.on = c.on /\ d.dir = c.dir
Erased(files, F) == [f \in Name |-> IF f \in F THEN None ELSE files[f]]
Without(c, F) == [c.disk EXCEPT ![c.dir].files = Erased(Files(c), F)]

LEMMA SetDisk ==
  ASSUME NEW c, Record(c), NEW count, NEW disk, NEW images,
         NEW d, d = [c EXCEPT !.count = count, !.disk = disk, !.images = images]
  PROVE  /\ Record(d) /\ SameHandler(c, d)
         /\ d.limit = c.limit /\ d.map = c.map /\ d.accesses = c.accesses
         /\ d.count = count /\ d.disk = disk /\ d.images = images
BY DEF Record, SameHandler

LEMMA SetMap ==
  ASSUME NEW c, Record(c), NEW map, NEW d, d = [c EXCEPT !.map = map]
  PROVE  /\ Record(d) /\ SameHandler(c, d)
         /\ d.limit = c.limit /\ d.count = c.count /\ d.accesses = c.accesses
         /\ d.map = map /\ d.disk = c.disk /\ d.images = c.images
BY DEF Record, SameHandler

LEMMA ErasedFiles ==
  ASSUME NEW files \in FileSet, NEW F
  PROVE  Erased(files, F) \in FileSet
BY DEF Erased, FileSet

LEMMA WithoutDurable ==
  ASSUME NEW c, Durable(c.disk), c.dir \in Dir, NEW F
  PROVE  /\ Durable(Without(c, F))
         /\ Without(c, F)[c.dir].files = Erased(Files(c), F)
         /\ \A e \in Dir : Without(c, F)[e].ini = c.disk[e].ini
<1>1. Files(c) \in FileSet
  BY DiskAt DEF Files
<1>2. Erased(Files(c), F) \in FileSet
  BY <1>1, ErasedFiles
<1>3. QED
  BY <1>2, FilesChange DEF Without

LEMMA RemoveFilesDoes ==
  ASSUME NEW c, Record(c), Durable(c.disk), c.dir \in Dir, \A image \in c.images : Durable(image),
         NEW F, NEW n, NEW d, d = RemoveFiles(c, F, n)
  PROVE  /\ Record(d) /\ SameHandler(c, d)
         /\ d.limit = c.limit /\ d.map = c.map /\ d.accesses = c.accesses
         /\ d.count = c.count - n
         /\ Durable(d.disk)
         /\ Files(d) = Erased(Files(c), F)
         /\ \A e \in Dir : d.disk[e].ini = c.disk[e].ini
         /\ \A image \in d.images : Durable(image)
<1> DEFINE images == c.images \cup {Without(c, G) : G \in SUBSET F}
           disk == Without(c, F)
           count == c.count - n
<1>1. d = [c EXCEPT !.count = count, !.disk = disk, !.images = images]
  BY DEF RemoveFiles, Without, Erased, Files
<1>2. \A image \in images : Durable(image)
  BY WithoutDurable
<1> HIDE DEF images, disk, count
<1>3. /\ Record(d) /\ SameHandler(c, d)
      /\ d.limit = c.limit /\ d.map = c.map /\ d.accesses = c.accesses
      /\ d.count = count /\ d.disk = disk /\ d.images = images
  BY ONLY Record(c), <1>1 DEF Record, SameHandler
<1>4. QED
  BY <1>2, <1>3, WithoutDurable DEF Files, SameHandler, disk, count

LEMMA CacheParts ==
  ASSUME NEW c, Sound(c)
  PROVE  /\ Record(c) /\ c.on \in BOOLEAN
         /\ c.dir \in Dir \cup {None} /\ (c.on => c.dir \in Dir)
         /\ c.limit \in [size : Nat, files : Nat]
         /\ c.count \in Int /\ c.accesses \in 0 .. MaintenanceAfter
         /\ Listable(c.map) /\ DataMap(c.map)
         /\ Durable(c.disk) /\ (\A image \in c.images : Durable(image))
BY DEF Sound, Cache, Record, Listable

LEMMA MakeSound ==
  ASSUME NEW c, Record(c), c.on \in BOOLEAN, c.dir \in Dir \cup {None}, c.on => c.dir \in Dir,
         c.limit \in [size : Nat, files : Nat], c.count \in Int, c.accesses \in 0 .. MaintenanceAfter,
         Listable(c.map), Durable(c.disk), \A image \in c.images : Durable(image), Consistent(c)
  PROVE  Sound(c)
<1>1. c.on => c.dir # None
  BY NoneAssumption
<1>2. QED
  BY <1>1 DEF Sound, Cache, Record, Listable, Durable

(* The files of the entries that stay stay.                                  *)
LEMMA RemovalKeeps ==
  ASSUME NEW map, Listable(map), OneDirectory, NEW files \in FileSet, Backed(map, files), Tidy(map, files),
         NEW K, K \subseteq DOMAIN map, NEW rest, rest = Restrict(map, DOMAIN map \ K)
  PROVE  /\ Backed(rest, Erased(files, {map[k].file : k \in K}))
         /\ Tidy(rest, Erased(files, {map[k].file : k \in K}))
<1> DEFINE gone == {map[k].file : k \in K}
<1>1. /\ DOMAIN rest = DOMAIN map \ K
      /\ \A k \in DOMAIN map \ K : rest[k] = map[k]
  BY RestrictListable
<1>2. \A n \in Name : Erased(files, gone)[n] = IF n \in gone THEN None ELSE files[n]
  BY DEF Erased
<1>3. \A k \in DOMAIN map : map[k].file \in Name
  BY EntryType DEF Listable
<1>4. \A k \in DOMAIN map \ K : map[k].file \notin gone
  BY DEF Listable, OwnFiles
<1> HIDE DEF gone
<1>5. Backed(rest, Erased(files, gone))
  BY <1>1, <1>2, <1>3, <1>4 DEF Backed
<1>6. ASSUME NEW n \in Name, Erased(files, gone)[n] \in Body
      PROVE  n \in FilesOf(rest)
  <2>1. n \notin gone /\ files[n] \in Body
    BY <1>2, <1>6, BodyFacts
  <2>2. PICK k \in DOMAIN map : n = map[k].file
    BY <2>1 DEF Tidy, FilesOf
  <2>3. k \notin K
    BY <2>1, <2>2 DEF gone
  <2>4. QED
    BY <1>1, <2>2, <2>3 DEF FilesOf
<1>7. Tidy(rest, Erased(files, gone))
  BY <1>6 DEF Tidy
<1>8. QED
  BY <1>5, <1>7 DEF gone

(* RemoveEntries before the count is set right by maintenance.               *)
LEMMA RemoveEntriesDoes ==
  ASSUME NEW c, Sound(c), c.dir \in Dir, NEW K, K \subseteq DOMAIN c.map,
         NEW d, d = RemoveEntries(c, K)
  PROVE  /\ Sound(d) /\ SameHandler(c, d) /\ d.limit = c.limit
         /\ DOMAIN d.map = DOMAIN c.map \ K
<1> DEFINE gone == {c.map[k].file : k \in K}
           r == RemoveFiles(c, gone, Cardinality(K))
<1>0. /\ Record(c) /\ c.on \in BOOLEAN
      /\ c.limit \in [size : Nat, files : Nat]
      /\ c.count \in Int /\ c.accesses \in 0 .. MaintenanceAfter
      /\ Listable(c.map) /\ DataMap(c.map)
      /\ Durable(c.disk) /\ (\A image \in c.images : Durable(image))
  BY CacheParts
<1>1. d = [r EXCEPT !.map = Restrict(r.map, DOMAIN r.map \ K)]
  BY DEF RemoveEntries
<1> HIDE DEF r
<1>2. /\ Record(r) /\ SameHandler(c, r)
      /\ r.limit = c.limit /\ r.map = c.map /\ r.accesses = c.accesses
      /\ r.count = c.count - Cardinality(K)
      /\ Durable(r.disk)
      /\ Files(r) = Erased(Files(c), gone)
      /\ \A image \in r.images : Durable(image)
  BY <1>0, RemoveFilesDoes DEF r
<1> DEFINE rest == Restrict(c.map, DOMAIN c.map \ K)
<1> HIDE DEF rest
<1>3. d = [r EXCEPT !.map = rest]
  BY <1>1, <1>2 DEF rest
<1>4. /\ Record(d) /\ SameHandler(r, d)
      /\ d.limit = r.limit /\ d.count = r.count /\ d.accesses = r.accesses
      /\ d.map = rest /\ d.disk = r.disk /\ d.images = r.images
  BY <1>2, <1>3, SetMap
<1>5. SameHandler(c, d) /\ d.limit = c.limit
  BY <1>2, <1>4 DEF SameHandler
<1>6. Listable(rest) /\ DOMAIN rest = DOMAIN c.map \ K
  BY <1>0, RestrictListable DEF rest
<1>7. d.count \in Int
  BY <1>0, <1>2, <1>4, MapFinite
<1>8. ASSUME OneDirectory, d.on
      PROVE  Backed(d.map, Files(d)) /\ Tidy(d.map, Files(d))
  <2>1. Backed(c.map, Files(c)) /\ Tidy(c.map, Files(c))
    BY <1>5, <1>8 DEF Sound, Consistent, SameHandler
  <2>2. Files(c) \in FileSet
    BY <1>0, DiskAt DEF Files
  <2>3. Backed(rest, Erased(Files(c), gone)) /\ Tidy(rest, Erased(Files(c), gone))
    BY <1>0, <1>8, <2>1, <2>2, RemovalKeeps DEF rest
  <2>4. Files(d) = Files(r)
    BY <1>4 DEF Files, SameHandler
  <2>5. QED
    BY <1>2, <1>4, <2>3, <2>4
<1>9. Consistent(d)
  BY <1>4, <1>5, <1>6, <1>8 DEF Consistent, Sound, SameHandler
<1>10. d.on \in BOOLEAN /\ d.dir \in Dir
  BY <1>0, <1>5 DEF SameHandler
<1>11. Sound(d)
  BY <1>0, <1>2, <1>4, <1>6, <1>7, <1>9, <1>10, MakeSound
<1>12. QED
  BY <1>4, <1>5, <1>6, <1>11

-----------------------------------------------------------------------------
(* The operations between two writes of the ini file.                        *)

LEMMA UpdateIniDoes ==
  ASSUME NEW c, Sound(c), NEW d \in UpdateCacheIniFile(c)
  PROVE  Sound(d) /\ SameHandler(c, d) /\ d.limit = c.limit /\ d.map = c.map
<1>1. CASE ~c.on
  BY <1>1 DEF UpdateCacheIniFile, SameHandler
<1>2. CASE c.on
  <2>0. /\ Record(c) /\ c.on \in BOOLEAN /\ c.dir \in Dir
        /\ c.limit \in [size : Nat, files : Nat]
        /\ c.count \in Int /\ c.accesses \in 0 .. MaintenanceAfter
        /\ Listable(c.map) /\ Durable(c.disk) /\ (\A image \in c.images : Durable(image))
    BY <1>2, CacheParts
  <2> DEFINE Lists(map) == [c.disk EXCEPT ![c.dir].ini = map]
             images(map) == c.images \cup {Lists(Empty), Lists(map)}
  <2>1. PICK map \in {c.map, Empty} : d = [c EXCEPT !.disk = Lists(map), !.images = images(map)]
    BY <1>2 DEF UpdateCacheIniFile
  <2>2. Listable(map) /\ Listable(Empty)
    BY <2>0, EmptyListable
  <2>3. /\ Durable(Lists(map)) /\ Durable(Lists(Empty))
        /\ \A e \in Dir : Lists(map)[e].files = c.disk[e].files
    BY <2>0, <2>2, IniChange
  <2>4. \A image \in images(map) : Durable(image)
    BY <2>0, <2>3
  <2> HIDE DEF Lists, images
  <2>5. /\ Record(d) /\ SameHandler(c, d)
        /\ d.limit = c.limit /\ d.map = c.map /\ d.accesses = c.accesses
        /\ d.count = c.count /\ d.disk = Lists(map) /\ d.images = images(map)
    BY ONLY <2>0, <2>1 DEF Record, SameHandler
  <2>6. Files(d) = Files(c)
    BY <2>0, <2>3, <2>5 DEF Files, SameHandler
  <2>7. Consistent(d)
    BY <2>5, <2>6 DEF Sound, Consistent, SameHandler
  <2>8. d.on \in BOOLEAN /\ d.dir \in Dir
    BY <2>0, <2>5 DEF SameHandler
  <2>9. Sound(d)
    BY <2>0, <2>3, <2>4, <2>5, <2>7, <2>8, MakeSound
  <2>10. QED
    BY <2>5, <2>9
<1>3. QED
  BY <1>1, <1>2

WithCounters(c, accesses, count) == [c EXCEPT !.accesses = accesses, !.count = count]

LEMMA SetCounters ==
  ASSUME NEW c, Sound(c), NEW count \in Int, NEW accesses \in 0 .. MaintenanceAfter,
         NEW d, d = WithCounters(c, accesses, count)
  PROVE  Sound(d) /\ SameHandler(c, d) /\ d.limit = c.limit /\ d.map = c.map
<1>0. /\ Record(c) /\ c.on \in BOOLEAN
      /\ c.dir \in Dir \cup {None} /\ (c.on => c.dir \in Dir)
      /\ c.limit \in [size : Nat, files : Nat]
      /\ Listable(c.map) /\ Durable(c.disk) /\ (\A image \in c.images : Durable(image))
  BY CacheParts
<1>1. /\ Record(d) /\ SameHandler(c, d)
      /\ d.limit = c.limit /\ d.map = c.map /\ d.accesses = accesses
      /\ d.count = count /\ d.disk = c.disk /\ d.images = c.images
  BY <1>0 DEF Record, SameHandler, WithCounters
<1>2. Consistent(d)
  BY <1>1 DEF Sound, Consistent, SameHandler, Files
<1>3. d.on \in BOOLEAN /\ d.dir \in Dir \cup {None} /\ (d.on => d.dir \in Dir)
  BY <1>0, <1>1 DEF SameHandler
<1>4. Sound(d)
  BY <1>0, <1>1, <1>2, <1>3, MakeSound
<1>5. QED
  BY <1>1, <1>4

LEMMA MaintenanceDoes ==
  ASSUME NEW c, Sound(c), NEW d \in DoPeriodicCacheMaintenance(c)
  PROVE  Sound(d) /\ SameHandler(c, d) /\ d.limit = c.limit /\ DOMAIN d.map \subseteq DOMAIN c.map
<1>1. CASE ~c.on
  BY <1>1 DEF DoPeriodicCacheMaintenance, SameHandler
<1>2. CASE c.on
  <2> DEFINE Purged(K) == [RemoveEntries(c, DOMAIN c.map \ K) EXCEPT !.accesses = 0, !.count = Cardinality(K)]
  <2>1. PICK K \in Kept(c) : d = Purged(K) \/ d \in UpdateCacheIniFile(Purged(K))
    BY <1>2 DEF DoPeriodicCacheMaintenance
  <2>2. K \subseteq DOMAIN c.map /\ DataMap(c.map) /\ c.dir \in Dir
    BY <1>2, CacheParts DEF Kept, Live
  <2> DEFINE r == RemoveEntries(c, DOMAIN c.map \ K)
  <2>3. Sound(r) /\ SameHandler(c, r) /\ r.limit = c.limit /\ DOMAIN r.map \subseteq DOMAIN c.map
    BY <2>2, RemoveEntriesDoes
  <2>4. Cardinality(K) \in Int /\ 0 \in 0 .. MaintenanceAfter
    BY <2>2, MapFinite, BoundAssumption
  <2> DEFINE p == Purged(K)
  <2>5. p = WithCounters(r, 0, Cardinality(K))
    BY DEF WithCounters
  <2> HIDE DEF r, p
  <2>6. Sound(p) /\ SameHandler(r, p) /\ p.limit = r.limit /\ p.map = r.map
    BY <2>3, <2>4, <2>5, SetCounters
  <2>7. d = p \/ d \in UpdateCacheIniFile(p)
    BY <2>1 DEF p
  <2>8. Sound(d) /\ SameHandler(p, d) /\ d.limit = p.limit /\ d.map = p.map
    BY <2>6, <2>7, UpdateIniDoes DEF SameHandler
  <2>9. QED
    BY <2>3, <2>6, <2>8 DEF SameHandler
<1>3. QED
  BY <1>1, <1>2

LEMMA AccessedDoes ==
  ASSUME NEW c, Sound(c), NEW d \in Accessed(c)
  PROVE  Sound(d) /\ SameHandler(c, d) /\ d.limit = c.limit /\ DOMAIN d.map \subseteq DOMAIN c.map
<1>1. CASE c.accesses >= MaintenanceAfter
  BY <1>1, MaintenanceDoes DEF Accessed
<1>2. CASE ~(c.accesses >= MaintenanceAfter)
  <2>1. d = [c EXCEPT !.accesses = c.accesses + 1]
    BY <1>2 DEF Accessed
  <2>2. c.accesses + 1 \in 0 .. MaintenanceAfter /\ c.count \in Int /\ Record(c)
    BY <1>2, CacheParts, BoundAssumption
  <2>3. d = WithCounters(c, c.accesses + 1, c.count)
    BY <2>1, <2>2 DEF Record, WithCounters
  <2>4. QED
    BY <2>2, <2>3, SetCounters
<1>3. QED
  BY <1>1, <1>2

LEMMA ClearDoes ==
  ASSUME NEW c, Sound(c), c.on, NEW d \in ClearCache(c)
  PROVE  Sound(d) /\ SameHandler(c, d) /\ d.limit = c.limit
<1> DEFINE r == RemoveEntries(c, DOMAIN c.map)
<1>1. c.dir \in Dir
  BY CacheParts
<1>2. Sound(r) /\ SameHandler(c, r) /\ r.limit = c.limit
  BY <1>1, RemoveEntriesDoes
<1>3. d \in UpdateCacheIniFile(r)
  BY DEF ClearCache
<1>4. QED
  BY <1>2, <1>3, UpdateIniDoes DEF SameHandler

LEMMA InvalidateDoes ==
  ASSUME NEW c, Sound(c), NEW k, NEW method, NEW d, d = Invalidate(c, k, method)
  PROVE  Sound(d) /\ SameHandler(c, d)
<1>1. CASE d = c
  BY <1>1 DEF SameHandler
<1>2. CASE d # c
  <2>1. c.on /\ k \in DOMAIN c.map /\ d = RemoveEntries(c, {k})
    BY <1>2 DEF Invalidate
  <2>2. QED
    BY <2>1, CacheParts, RemoveEntriesDoes
<1>3. QED
  BY <1>1, <1>2

LEMMA RemoveCachedDataDoes ==
  ASSUME NEW c, Sound(c), c.on, NEW k, NEW d \in RemoveCachedData(c, k)
  PROVE  Sound(d) /\ SameHandler(c, d) /\ k \notin DOMAIN d.map
<1>1. PICK e \in Accessed(c) : d = IF k \in DOMAIN e.map THEN RemoveEntries(e, {k}) ELSE e
  BY DEF RemoveCachedData
<1>2. Sound(e) /\ SameHandler(c, e)
  BY AccessedDoes
<1>3. CASE k \notin DOMAIN e.map
  BY <1>1, <1>2, <1>3
<1>4. CASE k \in DOMAIN e.map
  <2>1. e.dir \in Dir
    BY <1>2, CacheParts DEF SameHandler
  <2>2. d = RemoveEntries(e, {k}) /\ {k} \subseteq DOMAIN e.map
    BY <1>1, <1>4
  <2>3. Sound(d) /\ SameHandler(e, d) /\ DOMAIN d.map = DOMAIN e.map \ {k}
    BY <1>2, <2>1, <2>2, RemoveEntriesDoes
  <2>4. QED
    BY <1>2, <2>3 DEF SameHandler
<1>5. QED
  BY <1>3, <1>4

-----------------------------------------------------------------------------
(* Storing a body.                                                           *)

Stored(files, n, x) == [files EXCEPT ![n] = x]
Put(c, n, x) == [c.disk EXCEPT ![c.dir].files = Stored(Files(c), n, x)]
WithFile(c, disk, images) == [c EXCEPT !.disk = disk, !.images = images]
WithEntry(c, disk, images, map, count) ==
  [c EXCEPT !.disk = disk, !.images = images, !.map = map, !.count = count]
Plus(map, k, entry) == [i \in DOMAIN map \cup {k} |-> IF i = k THEN entry ELSE map[i]]

LEMMA PutDurable ==
  ASSUME NEW c, Durable(c.disk), c.dir \in Dir, NEW n \in Name, NEW x \in Content
  PROVE  /\ Durable(Put(c, n, x))
         /\ Put(c, n, x)[c.dir].files = Stored(Files(c), n, x)
         /\ Stored(Files(c), n, x) \in FileSet
         /\ \A m \in Name : Stored(Files(c), n, x)[m] = IF m = n THEN x ELSE Files(c)[m]
<1>1. Files(c) \in FileSet
  BY DiskAt DEF Files
<1>2. Stored(Files(c), n, x) \in FileSet
  BY <1>1 DEF Stored, FileSet
<1>3. \A m \in Name : Stored(Files(c), n, x)[m] = IF m = n THEN x ELSE Files(c)[m]
  BY <1>1 DEF Stored, FileSet
<1>4. QED
  BY <1>2, <1>3, FilesChange DEF Put

(* A write that failed.                                                      *)
LEMMA WriteFails ==
  ASSUME NEW c, Sound(c), c.on, NEW n \in FreeNames(c), NEW d,
         d = WithFile(c, Put(c, n, Torn), c.images \cup {Put(c, n, Torn)})
  PROVE  Sound(d) /\ SameHandler(c, d)
<1> DEFINE disk == Put(c, n, Torn)
           images == c.images \cup {disk}
<1>0. /\ Record(c) /\ c.on \in BOOLEAN /\ c.dir \in Dir
      /\ c.limit \in [size : Nat, files : Nat]
      /\ c.count \in Int /\ c.accesses \in 0 .. MaintenanceAfter
      /\ Listable(c.map) /\ DataMap(c.map)
      /\ Durable(c.disk) /\ (\A image \in c.images : Durable(image))
  BY CacheParts
<1>1. n \in Name /\ Files(c)[n] = None /\ Torn \in Content
  BY DEF FreeNames, Content
<1>2. /\ Durable(disk) /\ disk[c.dir].files = Stored(Files(c), n, Torn)
      /\ \A m \in Name : Stored(Files(c), n, Torn)[m] = IF m = n THEN Torn ELSE Files(c)[m]
  BY <1>0, <1>1, PutDurable
<1>3. \A image \in images : Durable(image)
  BY <1>0, <1>2
<1>4. d = WithFile(c, disk, images)
  OBVIOUS
<1> HIDE DEF disk, images
<1>5. /\ Record(d) /\ SameHandler(c, d)
      /\ d.limit = c.limit /\ d.map = c.map /\ d.accesses = c.accesses
      /\ d.count = c.count /\ d.disk = disk /\ d.images = images
  BY ONLY <1>0, <1>4 DEF Record, SameHandler, WithFile
<1>6. \A m \in Name : Files(d)[m] = IF m = n THEN Torn ELSE Files(c)[m]
  BY <1>2, <1>5 DEF Files, SameHandler
<1>7. ASSUME OneDirectory
      PROVE  Backed(d.map, Files(d)) /\ Tidy(d.map, Files(d))
  <2>1. Backed(c.map, Files(c)) /\ Tidy(c.map, Files(c))
    BY <1>7 DEF Sound, Consistent
  <2>2. Torn # None /\ \A k \in DOMAIN c.map : c.map[k].file \in Name
    BY <1>0, EntryType, TornAssumption
  <2>3. \A k \in DOMAIN c.map : Files(d)[c.map[k].file] # None
    BY <1>6, <2>1, <2>2 DEF Backed
  <2>4. Backed(d.map, Files(d))
    BY <1>5, <2>3 DEF Backed
  <2>5. Tidy(d.map, Files(d))
    BY <1>5, <1>6, <2>1, BodyFacts DEF Tidy
  <2>6. QED
    BY <2>4, <2>5
<1>8. Consistent(d)
  BY <1>5, <1>7 DEF Consistent, SameHandler
<1>9. d.on \in BOOLEAN /\ d.dir \in Dir
  BY <1>0, <1>5 DEF SameHandler
<1>10. Sound(d)
  BY <1>0, <1>2, <1>3, <1>5, <1>8, <1>9, MakeSound
<1>11. QED
  BY <1>5, <1>10

LEMMA PlusListable ==
  ASSUME NEW map, Listable(map), NEW k \in Key, k \notin DOMAIN map, NEW entry \in Info, entry.body[1] = k,
         OneDirectory => entry.file \notin FilesOf(map)
  PROVE  /\ Listable(Plus(map, k, entry))
         /\ FilesOf(Plus(map, k, entry)) = FilesOf(map) \cup {entry.file}
<1> DEFINE new == Plus(map, k, entry)
<1>1. /\ DOMAIN new = DOMAIN map \cup {k}
      /\ new[k] = entry
      /\ \A i \in DOMAIN map : new[i] = map[i]
  BY DEF Plus
<1>2. DOMAIN new \subseteq Key /\ new \in [DOMAIN new -> Info]
  BY <1>1 DEF Plus, Listable, DataMap
<1> HIDE DEF new
<1>3. OwnBodies(new)
  BY <1>1 DEF Listable, OwnBodies
<1>4. OneDirectory => OwnFiles(new)
  BY <1>1 DEF Listable, OwnFiles, FilesOf
<1>5. FilesOf(new) = FilesOf(map) \cup {entry.file}
  BY <1>1 DEF FilesOf
<1>6. QED
  BY <1>2, <1>3, <1>4, <1>5 DEF Listable, DataMap, new

LEMMA WriteSucceeds ==
  ASSUME NEW c, Sound(c), c.on, NEW k \in Key, k \notin DOMAIN c.map, NEW n \in FreeNames(c),
         NEW entry \in Info, entry.file = n, entry.body[1] = k, NEW d,
         d = WithEntry(c, Put(c, n, entry.body), c.images \cup {Put(c, n, Torn)} \cup {Put(c, n, entry.body)},
                       Plus(c.map, k, entry), c.count + 1)
  PROVE  Sound(d) /\ SameHandler(c, d)
<1> DEFINE disk == Put(c, n, entry.body)
           images == c.images \cup {Put(c, n, Torn)} \cup {disk}
           map == Plus(c.map, k, entry)
           count == c.count + 1
<1>0. /\ Record(c) /\ c.on \in BOOLEAN /\ c.dir \in Dir
      /\ c.limit \in [size : Nat, files : Nat]
      /\ c.count \in Int /\ c.accesses \in 0 .. MaintenanceAfter
      /\ Listable(c.map) /\ DataMap(c.map)
      /\ Durable(c.disk) /\ (\A image \in c.images : Durable(image))
  BY CacheParts
<1>1. /\ n \in Name /\ Files(c)[n] = None /\ Torn \in Content
      /\ entry.body \in Body /\ entry.body \in Content
  BY BodyFacts DEF FreeNames, Content, Info
<1>2. /\ Durable(disk) /\ disk[c.dir].files = Stored(Files(c), n, entry.body)
      /\ \A m \in Name : Stored(Files(c), n, entry.body)[m] = IF m = n THEN entry.body ELSE Files(c)[m]
  BY <1>0, <1>1, PutDurable
<1>3. \A image \in images : Durable(image)
  BY <1>0, <1>1, <1>2, PutDurable
<1>4. ASSUME OneDirectory
      PROVE  Backed(c.map, Files(c)) /\ Tidy(c.map, Files(c)) /\ n \notin FilesOf(c.map)
  <2>1. Backed(c.map, Files(c)) /\ Tidy(c.map, Files(c))
    BY <1>4 DEF Sound, Consistent
  <2>2. QED
    BY <1>1, <2>1 DEF Backed, FilesOf
<1>5. Listable(map) /\ FilesOf(map) = FilesOf(c.map) \cup {n}
  BY <1>0, <1>4, PlusListable
<1>6. d = WithEntry(c, disk, images, map, count)
  OBVIOUS
<1>7. count \in Int
  BY <1>0
<1> HIDE DEF disk, images, map, count
<1>8. /\ Record(d) /\ SameHandler(c, d)
      /\ d.limit = c.limit /\ d.map = map /\ d.accesses = c.accesses
      /\ d.count = count /\ d.disk = disk /\ d.images = images
  BY ONLY <1>0, <1>6 DEF Record, SameHandler, WithEntry
<1>9. \A m \in Name : Files(d)[m] = IF m = n THEN entry.body ELSE Files(c)[m]
  BY <1>2, <1>8 DEF Files, SameHandler
<1>10. ASSUME OneDirectory
       PROVE  Backed(d.map, Files(d)) /\ Tidy(d.map, Files(d))
  <2>1. \A m \in FilesOf(map) : m \in Name /\ Files(d)[m] # None
    <3>1. \A m \in FilesOf(c.map) : m \in Name /\ Files(c)[m] # None
      BY <1>0, <1>4, <1>10, EntryType DEF Backed, FilesOf
    <3>2. QED
      BY <1>1, <1>5, <1>9, <3>1, BodyFacts
  <2>2. Backed(d.map, Files(d))
    BY <1>8, <2>1 DEF Backed, FilesOf
  <2>3. Tidy(d.map, Files(d))
    BY <1>4, <1>5, <1>8, <1>9, <1>10 DEF Tidy
  <2>4. QED
    BY <2>2, <2>3
<1>11. Consistent(d)
  BY <1>8, <1>10 DEF Consistent, SameHandler
<1>12. d.on \in BOOLEAN /\ d.dir \in Dir
  BY <1>0, <1>8 DEF SameHandler
<1>13. Sound(d)
  BY <1>0, <1>2, <1>3, <1>5, <1>7, <1>8, <1>11, <1>12, MakeSound
<1>14. QED
  BY <1>8, <1>13

Entry(n, k, v, age) == [file |-> n, body |-> <<k, v>>, expires |-> now + age, used |-> now]
Written(c, n, k, v, age) ==
  WithEntry(c, Put(c, n, <<k, v>>), c.images \cup {Put(c, n, Torn)} \cup {Put(c, n, <<k, v>>)},
            Plus(c.map, k, Entry(n, k, v, age)), c.count + 1)

LEMMA WriteEnds ==
  ASSUME NEW c, Record(c), NEW k, NEW v, NEW age, NEW d \in Write(c, k, <<k, v>>, age)
  PROVE  \/ d = c
         \/ \E n \in FreeNames(c) : d = WithFile(c, Put(c, n, Torn), c.images \cup {Put(c, n, Torn)})
         \/ \E n \in FreeNames(c) : d = Written(c, n, k, v, age)
<1> DEFINE body == <<k, v>>
           P(n, x)   == [c.disk EXCEPT ![c.dir].files[n] = x]
           New(n)    == [file |-> n, body |-> body, expires |-> now + age, used |-> now]
           Failed(n) == [c EXCEPT !.disk = P(n, Torn), !.images = @ \cup {P(n, Torn)}]
           With(n)   == [i \in DOMAIN c.map \cup {k} |-> IF i = k THEN New(n) ELSE c.map[i]]
           Done(n)   == [Failed(n) EXCEPT !.disk = P(n, body), !.images = @ \cup {P(n, body)},
                                          !.map = With(n), !.count = @ + 1]
<1>1. d \in {c} \cup {Failed(n) : n \in FreeNames(c)} \cup {Done(n) : n \in FreeNames(c)}
  BY DEF Write
<1>2. \A n, x : P(n, x) = Put(c, n, x)
  BY DEF Put, Stored, Files
<1>3. ASSUME NEW n PROVE Failed(n) = WithFile(c, Put(c, n, Torn), c.images \cup {Put(c, n, Torn)})
  BY <1>2 DEF WithFile
<1>4. ASSUME NEW n PROVE Done(n) = Written(c, n, k, v, age)
  <2> DEFINE disk1 == Put(c, n, Torn)
             images1 == c.images \cup {disk1}
             f == WithFile(c, disk1, images1)
             disk2 == Put(c, n, body)
             map == With(n)
  <2>1. Failed(n) = f
    BY <1>3
  <2>2. map = Plus(c.map, k, Entry(n, k, v, age))
    BY DEF Plus, Entry
  <2> HIDE DEF disk1, images1, disk2, map, Failed
  <2>3. Done(n) = [f EXCEPT !.disk = disk2, !.images = f.images \cup {disk2}, !.map = map, !.count = f.count + 1]
    BY <1>2, <2>1 DEF disk2, map
  <2>4. f.images = images1 /\ f.count = c.count
    BY ONLY Record(c) DEF Record, WithFile
  <2> DEFINE images2 == images1 \cup {disk2}
             count == c.count + 1
  <2>5. Done(n) = [f EXCEPT !.disk = disk2, !.images = images2, !.map = map, !.count = count]
    BY <2>3, <2>4
  <2> HIDE DEF images2, count, Done
  <2>6. Done(n) = WithEntry(c, disk2, images2, map, count)
    BY ONLY Record(c), <2>5 DEF Record, WithFile, WithEntry
  <2>7. QED
    BY <2>2, <2>6 DEF Written, images2, images1, disk1, disk2, count
<1> HIDE DEF Failed, Done
<1>5. QED
  BY <1>1, <1>3, <1>4

LEMMA WriteDoes ==
  ASSUME NEW c, Sound(c), c.on, now \in Nat, NEW k \in Key, k \notin DOMAIN c.map,
         NEW v \in Version, NEW age \in Age, NEW d \in Write(c, k, <<k, v>>, age)
  PROVE  Sound(d) /\ SameHandler(c, d)
<1>1. CASE d = c
  BY <1>1 DEF SameHandler
<1>2. ASSUME NEW n \in FreeNames(c),
             d = WithFile(c, Put(c, n, Torn), c.images \cup {Put(c, n, Torn)})
      PROVE  Sound(d) /\ SameHandler(c, d)
  BY <1>2, WriteFails
<1>3. ASSUME NEW n \in FreeNames(c), d = Written(c, n, k, v, age)
      PROVE  Sound(d) /\ SameHandler(c, d)
  <2> DEFINE entry == Entry(n, k, v, age)
  <2>1. age \in Nat /\ n \in Name
    BY AgeAssumption DEF FreeNames
  <2>2. entry \in Info /\ entry.file = n /\ entry.body = <<k, v>> /\ entry.body[1] = k
    BY <2>1 DEF Info, Body, Entry
  <2>3. d = WithEntry(c, Put(c, n, entry.body), c.images \cup {Put(c, n, Torn)} \cup {Put(c, n, entry.body)},
                      Plus(c.map, k, entry), c.count + 1)
    BY <1>3, <2>2 DEF Written
  <2> HIDE DEF entry
  <2>4. QED
    BY <2>2, <2>3, WriteSucceeds
<1>4. \/ d = c
      \/ \E n \in FreeNames(c) : d = WithFile(c, Put(c, n, Torn), c.images \cup {Put(c, n, Torn)})
      \/ \E n \in FreeNames(c) : d = Written(c, n, k, v, age)
  <2>1. Record(c)
    BY CacheParts
  <2>2. QED
    BY <2>1, WriteEnds
<1>5. QED
  BY <1>1, <1>2, <1>3, <1>4

LEMMA CacheToDiskDoes ==
  ASSUME NEW c, Sound(c), now \in Nat, NEW k \in Key, NEW v \in Version, NEW age \in Age,
         NEW d \in CacheToDisk(c, k, <<k, v>>, age)
  PROVE  Sound(d) /\ SameHandler(c, d)
<1>1. CASE ~MayCache(c, <<k, v>>)
  BY <1>1 DEF CacheToDisk, SameHandler
<1>2. CASE MayCache(c, <<k, v>>)
  <2>1. c.on
    BY <1>2 DEF MayCache
  <2>2. PICK a \in RemoveCachedData(c, k) : \E b \in Write(a, k, <<k, v>>, age) : d \in Accessed(b)
    BY <1>2 DEF CacheToDisk
  <2>3. PICK b \in Write(a, k, <<k, v>>, age) : d \in Accessed(b)
    BY <2>2
  <2>4. Sound(a) /\ SameHandler(c, a) /\ k \notin DOMAIN a.map
    BY <2>1, RemoveCachedDataDoes
  <2>5. a.on
    BY <2>1, <2>4 DEF SameHandler
  <2>6. Sound(b) /\ SameHandler(a, b)
    BY <2>4, <2>5, WriteDoes
  <2>7. Sound(d) /\ SameHandler(b, d)
    BY <2>3, <2>6, AccessedDoes
  <2>8. QED
    BY <2>4, <2>6, <2>7 DEF SameHandler
<1>3. QED
  BY <1>1, <1>2

-----------------------------------------------------------------------------
(* Init and the parameters.                                                  *)

Swept(c) == {n \in Name : Files(c)[n] # None} = FilesOf(c.map)

(* What is left of the directory once expired and unused files are removed.  *)
LiveIn(ini, files) == {k \in DOMAIN ini : ini[k].expires > now /\ files[ini[k].file] # None}
GoneIn(ini) == {ini[k].file : k \in {l \in DOMAIN ini : ini[l].expires <= now}}
UnusedIn(files, map) == {n \in Name : files[n] # None} \ FilesOf(map)

LEMMA SweepLeaves ==
  ASSUME NEW ini, Listable(ini), OneDirectory, NEW files \in FileSet, now \in Nat,
         NEW map, map = Restrict(ini, LiveIn(ini, files)),
         NEW rest, rest = Erased(files, GoneIn(ini))
  PROVE  \A n \in Name : Erased(rest, UnusedIn(rest, map))[n] # None <=> n \in FilesOf(map)
<1> DEFINE live == LiveIn(ini, files)
           gone == GoneIn(ini)
           unused == UnusedIn(rest, map)
<1>1. /\ live \subseteq DOMAIN ini /\ DOMAIN map = live
      /\ \A k \in live : map[k] = ini[k]
  BY RestrictListable DEF LiveIn
<1>2. \A k \in DOMAIN ini : ini[k].file \in Name /\ ini[k].expires \in Nat
  <2>1. DataMap(ini)
    BY DEF Listable
  <2>2. QED
    BY <2>1 DEF DataMap, Info
<1>3. \A n \in Name : /\ rest[n] = IF n \in gone THEN None ELSE files[n]
                      /\ Erased(rest, unused)[n] = IF n \in unused THEN None ELSE rest[n]
  BY DEF Erased
<1>4. ASSUME NEW k \in live
      PROVE  ini[k].file \notin gone /\ files[ini[k].file] # None
  <2>1. SUFFICES ASSUME NEW l \in DOMAIN ini, ini[l].expires <= now, ini[k].file = ini[l].file
                 PROVE  FALSE
    BY <1>1 DEF GoneIn, LiveIn
  <2>2. k = l
    BY <1>1, <2>1 DEF Listable, OwnFiles
  <2>3. ini[k].expires > now /\ ini[k].expires <= now
    BY <2>1, <2>2 DEF LiveIn
  <2>4. QED
    BY <1>1, <1>2, <2>3
<1>5. \A n \in FilesOf(map) : n \in Name /\ n \notin gone /\ files[n] # None
  BY <1>1, <1>2, <1>4 DEF FilesOf
<1>6. QED
  BY <1>3, <1>5 DEF UnusedIn

LEMMA NamesFinite ==
  ASSUME NEW F, F \subseteq Name
  PROVE  Cardinality(F) \in Nat
BY SetAssumption, FS_Subset, FS_CardinalityType

LEMMA InitializeDoes ==
  ASSUME NEW c, Sound(c), c.dir \in Dir, now \in Nat, NEW d, d = Initialize(c)
  PROVE  Sound(d) /\ d.on /\ d.dir = c.dir /\ (~c.on /\ OneDirectory => Swept(d))
<1>1. CASE c.on
  BY <1>1 DEF Initialize
<1>2. CASE ~c.on
  <2>0. /\ Record(c) /\ c.limit \in [size : Nat, files : Nat]
        /\ c.count \in Int /\ c.accesses \in 0 .. MaintenanceAfter
        /\ Durable(c.disk) /\ (\A image \in c.images : Durable(image))
    BY CacheParts
  <2>1. Files(c) \in FileSet /\ Listable(Ini(c))
    BY <2>0, DiskAt DEF Files, Ini
  <2> DEFINE live == IniLive(c)
             gone == {Ini(c)[k].file : k \in IniDead(c)}
             n1 == Cardinality(IniDead(c)) - Cardinality(IniLive(c))
             r == RemoveFiles(c, gone, n1)
             map == Restrict(Ini(c), live)
             m == [r EXCEPT !.map = map]
             unused == {n \in Name : Files(m)[n] # None} \ FilesOf(m.map)
             n2 == Cardinality(unused)
             u == RemoveFiles(m, unused, n2)
  <2>2. d = [u EXCEPT !.on = TRUE]
    BY <1>2 DEF Initialize, RemoveUnusedCachedFiles, ReadCacheIniFile
  <2>3. live \subseteq DOMAIN Ini(c) /\ IniDead(c) \subseteq DOMAIN Ini(c)
    BY DEF IniLive, IniDead
  <2>4. n1 \in Int
    BY <2>1, <2>3, MapFinite DEF Listable
  <2>5. n2 \in Int
    <3>1. unused \subseteq Name
      OBVIOUS
    <3> HIDE DEF unused
    <3>2. QED
      BY <3>1, NamesFinite
  <2>6. Listable(map)
    BY <2>1, <2>3, RestrictListable
  <2> HIDE DEF n1, n2, r, m, u, map
  <2>7. /\ Record(r) /\ SameHandler(c, r)
        /\ r.limit = c.limit /\ r.accesses = c.accesses
        /\ r.count = c.count - n1
        /\ Durable(r.disk)
        /\ Files(r) = Erased(Files(c), gone)
        /\ \A image \in r.images : Durable(image)
    BY <2>0, RemoveFilesDoes DEF r
  <2>8. /\ Record(m) /\ SameHandler(r, m)
        /\ m.limit = r.limit /\ m.count = r.count /\ m.accesses = r.accesses
        /\ m.map = map /\ m.disk = r.disk /\ m.images = r.images
    BY <2>7, SetMap DEF m
  <2>9. m.dir \in Dir /\ Files(m) = Files(r)
    BY <2>7, <2>8 DEF SameHandler, Files
  <2>10. /\ Record(u) /\ SameHandler(m, u)
         /\ u.limit = m.limit /\ u.map = m.map /\ u.accesses = m.accesses
         /\ u.count = m.count - n2
         /\ Durable(u.disk)
         /\ Files(u) = Erased(Files(m), unused)
         /\ \A image \in u.images : Durable(image)
    BY <2>7, <2>8, <2>9, RemoveFilesDoes DEF u
  <2>11. /\ Record(d) /\ d.on = TRUE /\ d.dir = u.dir /\ d.limit = u.limit /\ d.map = u.map
         /\ d.count = u.count /\ d.accesses = u.accesses /\ d.disk = u.disk /\ d.images = u.images
    BY ONLY <2>2, <2>10 DEF Record
  <2>12. d.dir = c.dir /\ d.map = map /\ Files(d) = Erased(Erased(Files(c), gone), unused)
    BY <2>7, <2>8, <2>9, <2>10, <2>11 DEF SameHandler, Files
  <2>13. OneDirectory => \A n \in Name : Files(d)[n] # None <=> n \in FilesOf(map)
    <3>1. map = Restrict(Ini(c), LiveIn(Ini(c), Files(c))) /\ gone = GoneIn(Ini(c))
      BY DEF IniLive, IniDead, LiveIn, GoneIn, map
    <3>2. unused = UnusedIn(Files(r), map)
      BY <2>8, <2>9 DEF UnusedIn
    <3> HIDE DEF gone, unused
    <3>3. Files(r) = Erased(Files(c), GoneIn(Ini(c)))
      BY <2>7, <3>1
    <3>4. Files(d) = Erased(Files(r), UnusedIn(Files(r), map))
      BY <2>7, <2>12, <3>2
    <3>5. QED
      BY <2>1, <3>1, <3>3, <3>4, SweepLeaves
  <2>14. \A n \in FilesOf(map) : n \in Name
    BY <2>6, EntryType DEF Listable, FilesOf
  <2>15. OneDirectory => Swept(d)
    BY <2>12, <2>13, <2>14 DEF Swept
  <2>16. Consistent(d)
    <3>1. SUFFICES ASSUME OneDirectory PROVE Backed(map, Files(d)) /\ Tidy(map, Files(d))
      BY <2>11, <2>12 DEF Consistent
    <3>2. Backed(map, Files(d))
      BY <2>13, <2>14, <3>1 DEF Backed, FilesOf
    <3>3. Tidy(map, Files(d))
      BY <2>13, <3>1, BodyFacts DEF Tidy, Content
    <3>4. QED
      BY <3>2, <3>3
  <2>17. d.count \in Int /\ d.accesses = c.accesses /\ d.limit = c.limit
    BY <2>0, <2>4, <2>5, <2>7, <2>8, <2>10, <2>11
  <2>18. Sound(d)
    BY <2>0, <2>6, <2>10, <2>11, <2>12, <2>16, <2>17, MakeSound
  <2>19. QED
    BY <2>11, <2>12, <2>15, <2>18
<1>3. QED
  BY <1>1, <1>2

WithLimit(c, limit) == [c EXCEPT !.limit = limit]

LEMMA SetLimit ==
  ASSUME NEW c, Sound(c), NEW limit \in [size : Nat, files : Nat], NEW d, d = WithLimit(c, limit)
  PROVE  Sound(d) /\ SameHandler(c, d) /\ d.limit = limit
<1>0. /\ Record(c) /\ c.on \in BOOLEAN
      /\ c.dir \in Dir \cup {None} /\ (c.on => c.dir \in Dir)
      /\ c.count \in Int /\ c.accesses \in 0 .. MaintenanceAfter
      /\ Listable(c.map) /\ Durable(c.disk) /\ (\A image \in c.images : Durable(image))
  BY CacheParts
<1>1. /\ Record(d) /\ SameHandler(c, d)
      /\ d.limit = limit /\ d.map = c.map /\ d.accesses = c.accesses
      /\ d.count = c.count /\ d.disk = c.disk /\ d.images = c.images
  BY <1>0 DEF Record, SameHandler, WithLimit
<1>2. Consistent(d)
  BY <1>1 DEF Sound, Consistent, SameHandler, Files
<1>3. d.on \in BOOLEAN /\ d.dir \in Dir \cup {None} /\ (d.on => d.dir \in Dir)
  BY <1>0, <1>1 DEF SameHandler
<1>4. Sound(d)
  BY <1>0, <1>1, <1>2, <1>3, MakeSound
<1>5. QED
  BY <1>1, <1>4

LEMMA SetMaxCacheSizeDoes ==
  ASSUME NEW c, Sound(c), NEW size \in Nat, NEW d \in SetMaxCacheSize(c, size)
  PROVE  Sound(d) /\ SameHandler(c, d)
<1> DEFINE limit == [size |-> size, files |-> c.limit.files]
           e == WithLimit(c, limit)
<1>1. Record(c) /\ c.limit \in [size : Nat, files : Nat]
  BY CacheParts
<1>2. limit \in [size : Nat, files : Nat] /\ limit = [c.limit EXCEPT !.size = size]
  BY <1>1
<1> HIDE DEF limit
<1>3. Sound(e) /\ SameHandler(c, e)
  BY <1>2, SetLimit
<1>4. d = e \/ d \in DoPeriodicCacheMaintenance(e)
  BY <1>2 DEF SetMaxCacheSize, WithLimit
<1> HIDE DEF e
<1>5. QED
  BY <1>3, <1>4, MaintenanceDoes DEF SameHandler

LEMMA SetMaxFileCountDoes ==
  ASSUME NEW c, Sound(c), NEW files \in Nat, NEW d \in SetMaxFileCount(c, files)
  PROVE  Sound(d) /\ SameHandler(c, d)
<1> DEFINE limit == [size |-> c.limit.size, files |-> files]
           e == WithLimit(c, limit)
<1>1. Record(c) /\ c.limit \in [size : Nat, files : Nat]
  BY CacheParts
<1>2. limit \in [size : Nat, files : Nat] /\ limit = [c.limit EXCEPT !.files = files]
  BY <1>1
<1> HIDE DEF limit
<1>3. Sound(e) /\ SameHandler(c, e)
  BY <1>2, SetLimit
<1>4. d = e \/ d \in DoPeriodicCacheMaintenance(e)
  BY <1>2 DEF SetMaxFileCount, WithLimit
<1> HIDE DEF e
<1>5. QED
  BY <1>3, <1>4, MaintenanceDoes DEF SameHandler

LEMMA SetCacheDirectoryDoes ==
  ASSUME NEW c, Sound(c), NEW dir \in Dir, NEW separator, NEW d \in SetCacheDirectory(c, dir, separator)
  PROVE  Sound(d) /\ d.on = c.on /\ d.dir = dir
<1>1. PICK e \in IF separator /\ c.dir = dir THEN ClearCache(c) ELSE {c} : d = [e EXCEPT !.dir = dir]
  BY DEF SetCacheDirectory
<1>2. Sound(e) /\ SameHandler(c, e)
  <2>1. CASE c.on /\ separator /\ c.dir = dir
    BY <1>1, <2>1, ClearDoes
  <2>2. CASE ~(separator /\ c.dir = dir)
    BY <1>1, <2>2 DEF SameHandler
  <2>3. CASE ~c.on /\ separator /\ c.dir = dir
    <3> DEFINE r == RemoveEntries(c, DOMAIN c.map)
    <3>1. Sound(r) /\ SameHandler(c, r)
      BY <2>3, RemoveEntriesDoes
    <3>2. e \in UpdateCacheIniFile(r)
      BY <1>1, <2>3 DEF ClearCache
    <3>3. QED
      BY <3>1, <3>2, UpdateIniDoes DEF SameHandler
  <2>4. QED
    BY <2>1, <2>2, <2>3, CacheParts
<1>3. /\ Record(e) /\ e.on \in BOOLEAN /\ (e.on => e.dir \in Dir)
      /\ e.limit \in [size : Nat, files : Nat]
      /\ e.count \in Int /\ e.accesses \in 0 .. MaintenanceAfter
      /\ Listable(e.map) /\ Durable(e.disk) /\ (\A image \in e.images : Durable(image))
  BY <1>2, CacheParts
<1>4. /\ Record(d) /\ d.on = e.on /\ d.dir = dir /\ d.limit = e.limit /\ d.map = e.map
      /\ d.accesses = e.accesses /\ d.count = e.count /\ d.disk = e.disk /\ d.images = e.images
  BY <1>1, <1>3 DEF Record
<1>5. OneDirectory /\ d.on => Files(d) = Files(e)
  BY <1>3, <1>4 DEF OneDirectory, Files
<1>6. Consistent(d)
  BY <1>2, <1>4, <1>5 DEF Sound, Consistent
<1>7. Sound(d)
  BY <1>3, <1>4, <1>6, MakeSound
<1>8. QED
  BY <1>2, <1>4, <1>7 DEF SameHandler

-----------------------------------------------------------------------------
(* Steps of the handler.                                                     *)

HandlerInv == now \in 0 .. MaxTime /\ Sound(cache) /\ cache.images = {}
HandlerStep == /\ HandlerInv'
               /\ OneDirectory /\ ~cache.on /\ cache'.on => Swept(cache')

LEMMA StartedSound ==
  ASSUME NEW disk, Durable(disk), NEW limit \in [size : Nat, files : Nat]
  PROVE  Sound(Started(disk, limit)) /\ Started(disk, limit).images = {} /\ ~Started(disk, limit).on
<1> DEFINE c == Started(disk, limit)
<1>1. /\ Record(c) /\ c.on = FALSE /\ c.dir = None /\ c.limit = limit /\ c.map = Empty /\ c.count = 0
      /\ c.accesses = 0 /\ c.disk = disk /\ c.images = {}
  BY DEF Started, Record
<1> HIDE DEF c
<1>2. Consistent(c)
  BY <1>1 DEF Consistent, Empty
<1>3. 0 \in Int /\ 0 \in 0 .. MaintenanceAfter
  BY BoundAssumption
<1>4. /\ Listable(c.map) /\ c.on \in BOOLEAN /\ c.dir \in Dir \cup {None} /\ (c.on => c.dir \in Dir)
      /\ \A image \in c.images : Durable(image)
  BY <1>1, EmptyListable
<1>5. Sound(c)
  BY <1>1, <1>2, <1>3, <1>4, MakeSound
<1>6. QED
  BY <1>1, <1>5 DEF c

LEMMA ForgetImages ==
  ASSUME NEW c, Sound(c), NEW d, d = [c EXCEPT !.images = {}]
  PROVE  Sound(d) /\ d.images = {} /\ SameHandler(c, d) /\ (Swept(c) => Swept(d))
<1>0. /\ Record(c) /\ c.on \in BOOLEAN
      /\ c.dir \in Dir \cup {None} /\ (c.on => c.dir \in Dir)
      /\ c.limit \in [size : Nat, files : Nat]
      /\ c.count \in Int /\ c.accesses \in 0 .. MaintenanceAfter
      /\ Listable(c.map) /\ Durable(c.disk)
  BY CacheParts
<1>1. /\ Record(d) /\ SameHandler(c, d)
      /\ d.limit = c.limit /\ d.map = c.map /\ d.accesses = c.accesses
      /\ d.count = c.count /\ d.disk = c.disk /\ d.images = {}
  BY <1>0 DEF Record, SameHandler
<1>2. Files(d) = Files(c)
  BY <1>1 DEF SameHandler, Files
<1>3. Consistent(d)
  BY <1>1, <1>2 DEF Sound, Consistent, SameHandler
<1>4. d.on \in BOOLEAN /\ d.dir \in Dir \cup {None} /\ (d.on => d.dir \in Dir)
  BY <1>0, <1>1 DEF SameHandler
<1>5. Sound(d)
  BY <1>0, <1>1, <1>3, <1>4, MakeSound
<1>6. QED
  BY <1>1, <1>2, <1>5 DEF Swept

LEMMA RestartKeeps ==
  ASSUME HandlerInv, NEW disk, Durable(disk), Restart(disk)
  PROVE  HandlerStep
<1>1. cache.limit \in [size : Nat, files : Nat]
  BY CacheParts DEF HandlerInv
<1>2. Sound(cache') /\ cache'.images = {} /\ ~cache'.on
  BY <1>1, StartedSound DEF Restart
<1>3. QED
  BY <1>2 DEF Restart, HandlerInv, HandlerStep

LEMMA DoesKeeps ==
  ASSUME HandlerInv, NEW C, Does(C),
         \A c \in C : Sound(c) /\ (OneDirectory /\ ~cache.on /\ c.on => Swept(c))
  PROVE  HandlerStep
<1>1. PICK c \in C : \/ cache' = [c EXCEPT !.images = {}] /\ now' = now
                     \/ \E image \in c.images : Restart(image)
  BY DEF Does
<1>2. Sound(c) /\ (OneDirectory /\ ~cache.on /\ c.on => Swept(c))
  OBVIOUS
<1>3. CASE cache' = [c EXCEPT !.images = {}] /\ now' = now
  <2>1. Sound(cache') /\ cache'.images = {} /\ SameHandler(c, cache') /\ (Swept(c) => Swept(cache'))
    BY <1>2, <1>3, ForgetImages
  <2>2. QED
    BY <1>2, <1>3, <2>1 DEF HandlerInv, HandlerStep, SameHandler
<1>4. CASE \E image \in c.images : Restart(image)
  BY <1>2, <1>4, CacheParts, RestartKeeps
<1>5. QED
  BY <1>1, <1>3, <1>4

LEMMA CrashKeeps ==
  ASSUME HandlerInv, Crash
  PROVE  HandlerStep
BY CacheParts, RestartKeeps DEF HandlerInv, Crash

LEMMA SetDiskCacheParamsKeeps ==
  ASSUME HandlerInv, NEW dir \in Dir, NEW separator \in BOOLEAN, NEW limit \in Limits,
         SetDiskCacheParams(dir, separator, limit)
  PROVE  HandlerStep
<1> DEFINE S == UNION {UNION {SetMaxFileCount(e, limit.files) : e \in SetMaxCacheSize(b, limit.size)} :
                       b \in SetCacheDirectory(cache, dir, separator)}
<1>1. Does({Initialize(c) : c \in S})
  BY DEF SetDiskCacheParams
<1>2. limit.size \in Nat /\ limit.files \in Nat /\ now \in Nat /\ Sound(cache)
  BY LimitAssumption DEF HandlerInv
<1>3. ASSUME NEW c \in S
      PROVE  Sound(c) /\ c.on = cache.on /\ c.dir = dir
  <2>1. PICK b \in SetCacheDirectory(cache, dir, separator) :
          \E e \in SetMaxCacheSize(b, limit.size) : c \in SetMaxFileCount(e, limit.files)
    OBVIOUS
  <2>2. PICK e \in SetMaxCacheSize(b, limit.size) : c \in SetMaxFileCount(e, limit.files)
    BY <2>1
  <2>3. Sound(b) /\ b.on = cache.on /\ b.dir = dir
    BY <1>2, SetCacheDirectoryDoes
  <2>4. Sound(e) /\ SameHandler(b, e)
    BY <1>2, <2>3, SetMaxCacheSizeDoes
  <2>5. Sound(c) /\ SameHandler(e, c)
    BY <1>2, <2>2, <2>4, SetMaxFileCountDoes
  <2>6. QED
    BY <2>3, <2>4, <2>5 DEF SameHandler
<1> HIDE DEF S
<1>4. ASSUME NEW d \in {Initialize(c) : c \in S}
      PROVE  Sound(d) /\ (OneDirectory /\ ~cache.on /\ d.on => Swept(d))
  <2>1. PICK c \in S : d = Initialize(c)
    OBVIOUS
  <2>2. QED
    BY <1>2, <1>3, <2>1, InitializeDoes
<1>5. QED
  BY <1>1, <1>4, DoesKeeps

LEMMA ClearAllKeeps ==
  ASSUME HandlerInv, ClearAll
  PROVE  HandlerStep
<1>1. Sound(cache) /\ cache.on
  BY DEF HandlerInv, ClearAll
<1>2. \A d \in ClearCache(cache) : Sound(d)
  BY <1>1, ClearDoes
<1>3. QED
  BY <1>1, <1>2, DoesKeeps DEF ClearAll

Ended(c) == [Started(c.disk, c.limit) EXCEPT !.count = c.count, !.images = c.images]

LEMMA EndedIs ==
  ASSUME NEW c, NEW e, e = Ended(c)
  PROVE  /\ Record(e) /\ e.on = FALSE /\ e.dir = None /\ e.limit = c.limit /\ e.map = Empty /\ e.count = c.count
         /\ e.accesses = 0 /\ e.disk = c.disk /\ e.images = c.images
<1> DEFINE disk == c.disk
           limit == c.limit
           count == c.count
           images == c.images
           s == Started(disk, limit)
<1>1. e = [s EXCEPT !.count = count, !.images = images]
  BY DEF Ended
<1>2. s = [on |-> FALSE, dir |-> None, limit |-> limit, map |-> Empty, count |-> 0,
           accesses |-> 0, disk |-> disk, images |-> {}]
  BY DEF Started
<1> HIDE DEF disk, limit, count, images, s
<1>3. e = [on |-> FALSE, dir |-> None, limit |-> limit, map |-> Empty, count |-> count,
           accesses |-> 0, disk |-> disk, images |-> images]
  BY ONLY <1>1, <1>2
<1>4. QED
  BY ONLY <1>3 DEF Record, disk, limit, count, images

LEMMA ShutdownKeeps ==
  ASSUME HandlerInv, Shutdown
  PROVE  HandlerStep
<1> DEFINE S == UNION {UpdateCacheIniFile(d) : d \in DoPeriodicCacheMaintenance(cache)}
<1>1. Does({Ended(c) : c \in S}) /\ cache.on
  BY DEF Shutdown, Ended
<1>2. ASSUME NEW c \in S PROVE Sound(c)
  <2>1. PICK d \in DoPeriodicCacheMaintenance(cache) : c \in UpdateCacheIniFile(d)
    OBVIOUS
  <2>2. QED
    BY <2>1, MaintenanceDoes, UpdateIniDoes DEF HandlerInv
<1> HIDE DEF S
<1>3. ASSUME NEW c \in S PROVE Sound(Ended(c))
  <2>1. /\ c.limit \in [size : Nat, files : Nat] /\ c.count \in Int
        /\ Durable(c.disk) /\ (\A image \in c.images : Durable(image))
    BY <1>2, CacheParts
  <2> DEFINE e == Ended(c)
  <2>2. /\ Record(e) /\ e.on = FALSE /\ e.dir = None /\ e.limit = c.limit /\ e.map = Empty /\ e.count = c.count
        /\ e.accesses = 0 /\ e.disk = c.disk /\ e.images = c.images
    BY EndedIs
  <2> HIDE DEF e
  <2>3. Consistent(e)
    BY <2>2 DEF Consistent, Empty
  <2>4. 0 \in 0 .. MaintenanceAfter
    BY BoundAssumption
  <2>5. /\ Listable(e.map) /\ e.on \in BOOLEAN /\ e.dir \in Dir \cup {None} /\ (e.on => e.dir \in Dir)
        /\ e.accesses \in 0 .. MaintenanceAfter
    BY <2>2, <2>4, EmptyListable
  <2>6. Sound(e)
    BY <2>1, <2>2, <2>3, <2>5, MakeSound
  <2>7. QED
    BY <2>6 DEF e
<1>4. QED
  BY <1>1, <1>3, DoesKeeps

LEMMA NetworkLoadDoneKeeps ==
  ASSUME HandlerInv, NEW k \in Key, NEW v \in Version, NEW age \in Age, NetworkLoadDone(k, <<k, v>>, age)
  PROVE  HandlerStep
<1>1. Sound(cache) /\ now \in Nat
  BY DEF HandlerInv
<1>2. \A d \in CacheToDisk(cache, k, <<k, v>>, age) : Sound(d) /\ (d.on => cache.on)
  BY <1>1, CacheToDiskDoes DEF SameHandler
<1>3. QED
  BY <1>2, DoesKeeps DEF NetworkLoadDone

LEMMA PostKeeps ==
  ASSUME HandlerInv, NEW k \in Key, Post(k)
  PROVE  HandlerStep
<1>1. \A d \in {Invalidate(cache, k, "POST")} : Sound(d) /\ (d.on => cache.on)
  BY InvalidateDoes DEF HandlerInv, SameHandler
<1>2. QED
  BY <1>1, DoesKeeps DEF Post

LEMMA CacheStaysKeeps ==
  ASSUME HandlerInv, UNCHANGED <<now, cache>>
  PROVE  HandlerStep
BY DEF HandlerInv, HandlerStep

LEMMA EndKeeps ==
  ASSUME HandlerInv, NEW j \in Job, End(j)
  PROVE  HandlerStep
<1>1. CASE cache' = cache
  BY <1>1, CacheStaysKeeps DEF End
<1>2. CASE cache' # cache
  <2> DEFINE c == Invalidate(cache, jobs[j].key, "GET")
  <2>1. cache' = [c EXCEPT !.images = {}]
    BY <1>2 DEF End
  <2>2. Sound(c) /\ SameHandler(cache, c)
    BY InvalidateDoes DEF HandlerInv
  <2> HIDE DEF c
  <2>3. Sound(cache') /\ cache'.images = {} /\ SameHandler(c, cache')
    BY <2>1, <2>2, ForgetImages
  <2>4. QED
    BY <2>2, <2>3 DEF HandlerInv, HandlerStep, End, SameHandler
<1>3. QED
  BY <1>1, <1>2

LEMMA NextHandler ==
  ASSUME HandlerInv, [Next]_vars
  PROVE  HandlerStep
<1>1. CASE UNCHANGED vars
  BY <1>1, CacheStaysKeeps DEF vars
<1>2. CASE Tick
  BY <1>2, BoundAssumption DEF Tick, HandlerInv, HandlerStep
<1>3. CASE Received
  BY <1>3, CacheStaysKeeps DEF Received
<1>4. CASE NetworkStep
  BY <1>4, NetworkLoadDoneKeeps DEF NetworkStep
<1>5. ASSUME NEW j \in Job, JobStep(j)
      PROVE  HandlerStep
  <2>1. End(j) \/ UNCHANGED <<now, cache>>
    BY <1>5 DEF JobStep, BeginLoad, InitJob, Connect, Read, ReadFails, Disconnect, ShutdownJob, CancelJob
  <2>2. QED
    BY <2>1, EndKeeps, CacheStaysKeeps
<1>6. QED
  BY <1>1, <1>2, <1>3, <1>4, <1>5, CrashKeeps, ClearAllKeeps, ShutdownKeeps, SetDiskCacheParamsKeeps, PostKeeps
     DEF Next

LEMMA InitHandler ==
  ASSUME Init
  PROVE  HandlerInv
<1> DEFINE disk == [d \in Dir |-> [files |-> [n \in Name |-> None], ini |-> Empty]]
<1>1. PICK limit \in Limits : cache = Started(disk, limit)
  BY DEF Init
<1>2. limit \in [size : Nat, files : Nat]
  BY LimitAssumption
<1>3. Durable(disk)
  <2>1. \A d \in Dir : disk[d].files = [n \in Name |-> None] /\ disk[d].ini = Empty
    OBVIOUS
  <2>2. disk = [d \in Dir |-> [files |-> disk[d].files, ini |-> disk[d].ini]]
    OBVIOUS
  <2>3. [n \in Name |-> None] \in FileSet
    BY DEF FileSet
  <2> HIDE DEF disk
  <2>4. QED
    BY <2>1, <2>2, <2>3, EmptyListable DEF Durable, Disk, Listable, FileSet
<1> HIDE DEF disk
<1>4. now \in 0 .. MaxTime
  BY BoundAssumption DEF Init
<1>5. QED
  BY <1>1, <1>2, <1>3, <1>4, StartedSound DEF HandlerInv

LEMMA HandlerStays == Spec => []HandlerInv
<1>1. HandlerInv /\ [Next]_vars => HandlerInv'
  BY NextHandler DEF HandlerStep
<1>2. QED
  BY <1>1, InitHandler, PTL DEF Spec

(* Every entry of the map has a file of its own, whatever crashes, failed    *)
(* writes and evictions came before and whatever ini file was read.          *)
THEOREM EntriesAreBacked ==
  ASSUME OneDirectory
  PROVE  Spec => []EntriesBacked
<1>1. HandlerInv => EntriesBacked
  BY DEF HandlerInv, Sound, Consistent, Listable, OwnFiles, Backed, EntriesBacked
<1>2. QED
  BY <1>1, HandlerStays, PTL

(* No complete file is left that no entry names.                             *)
THEOREM NothingIsLeaked ==
  ASSUME OneDirectory
  PROVE  Spec => []NothingLeaks
<1>1. HandlerInv => NothingLeaks
  BY DEF HandlerInv, Sound, Consistent, Tidy, NothingLeaks
<1>2. QED
  BY <1>1, HandlerStays, PTL

(* Init leaves the files of the entries it read and no other.                *)
THEOREM InitLeavesNoOther ==
  ASSUME OneDirectory
  PROVE  Spec => InitSweeps
<1>1. HandlerInv /\ [Next]_vars
        => [~cache.on /\ cache'.on => {n \in Name : Files(cache')[n] # None} = FilesOf(cache'.map)]_vars
  BY NextHandler DEF HandlerStep, Swept
<1>2. QED
  BY <1>1, HandlerStays, PTL DEF Spec, InitSweeps

-----------------------------------------------------------------------------
(* The jobs and the counters.                                                *)

InStep(job) ==
  /\ job.at \in {"idle", "InitJob"} => ~job.inited
  /\ job.at \in {"Connect", "Read", "Receiving", "End", "Disconnect", "ShutdownJob"} => job.inited
  /\ job.at \in {"idle", "InitJob", "Connect"} => ~job.open
  /\ job.at \in {"InitJob", "Connect", "Read", "Receiving", "End"} => job.result = None

JobsInv == /\ jobs \in [Job -> FileInfo]
           /\ openJobs \in Nat /\ openFiles \in Nat
           /\ buffer \in Content \cup {None}
           /\ calls \in Seq(Job)
           /\ OpenCounts
           /\ \A j \in Job : InStep(jobs[j])

Flag(b) == IF b THEN 1 ELSE 0

LEMMA OneJobCounts ==
  ASSUME NEW S, S \subseteq Job, NEW T, T \subseteq Job, NEW j \in Job,
         \A i \in Job : i # j => (i \in S <=> i \in T)
  PROVE  /\ Cardinality(S) \in Nat /\ Cardinality(T) \in Nat
         /\ Cardinality(T) = Cardinality(S) + Flag(j \in T) - Flag(j \in S)
<1> DEFINE R == S \ {j}
<1>1. IsFiniteSet(S) /\ IsFiniteSet(T) /\ IsFiniteSet(R)
  BY SetAssumption, FS_Subset
<1>2. Cardinality(S) \in Nat /\ Cardinality(T) \in Nat /\ Cardinality(R) \in Nat
  BY <1>1, FS_CardinalityType
<1>3. j \notin R /\ Cardinality(R \cup {j}) = Cardinality(R) + 1
  BY <1>1, FS_AddElement
<1>4. S = IF j \in S THEN R \cup {j} ELSE R
  OBVIOUS
<1>5. T = IF j \in T THEN R \cup {j} ELSE R
  OBVIOUS
<1> HIDE DEF R
<1>6. Cardinality(S) = Cardinality(R) + Flag(j \in S)
  BY <1>2, <1>3, <1>4 DEF Flag
<1>7. Cardinality(T) = Cardinality(R) + Flag(j \in T)
  <2>1. CASE j \in T
    BY <1>2, <1>3, <1>5, <2>1 DEF Flag
  <2>2. CASE j \notin T
    BY <1>2, <1>5, <2>2 DEF Flag
  <2>3. QED
    BY <2>1, <2>2
<1>8. QED
  BY <1>2, <1>6, <1>7 DEF Flag

(* One job moves, and the counters with it.                                  *)
LEMMA JobMoves ==
  ASSUME JobsInv, NEW j \in Job, NEW job \in FileInfo, InStep(job),
         jobs' = [jobs EXCEPT ![j] = job],
         openJobs' = openJobs + Flag(job.inited) - Flag(jobs[j].inited),
         openFiles' = openFiles + Flag(job.open) - Flag(jobs[j].open),
         buffer' \in Content \cup {None}, calls' \in Seq(Job)
  PROVE  JobsInv'
<1>1. /\ jobs' \in [Job -> FileInfo]
      /\ jobs'[j] = job /\ \A i \in Job : i # j => jobs'[i] = jobs[i]
  BY DEF JobsInv
<1>2. \A i \in Job : InStep(jobs[i])'
  BY <1>1 DEF JobsInv, InStep
<1> DEFINE S == {i \in Job : jobs[i].inited}
           T == {i \in Job : jobs'[i].inited}
           P == {i \in Job : jobs[i].open}
           Q == {i \in Job : jobs'[i].open}
<1>3. /\ S \subseteq Job /\ T \subseteq Job /\ (j \in S <=> jobs[j].inited) /\ (j \in T <=> job.inited)
      /\ \A i \in Job : i # j => (i \in S <=> i \in T)
  BY <1>1
<1>4. /\ P \subseteq Job /\ Q \subseteq Job /\ (j \in P <=> jobs[j].open) /\ (j \in Q <=> job.open)
      /\ \A i \in Job : i # j => (i \in P <=> i \in Q)
  BY <1>1
<1>5. openJobs = Cardinality(S) /\ openFiles = Cardinality(P)
  BY DEF JobsInv, OpenCounts
<1> HIDE DEF S, T, P, Q
<1>6. openJobs' = Cardinality(T) /\ openJobs' \in Nat
  <2>1. /\ Cardinality(S) \in Nat /\ Cardinality(T) \in Nat
        /\ Cardinality(T) = Cardinality(S) + Flag(j \in T) - Flag(j \in S)
    BY <1>3, OneJobCounts
  <2>2. Flag(j \in T) = Flag(job.inited) /\ Flag(j \in S) = Flag(jobs[j].inited)
    BY <1>3 DEF Flag
  <2>3. QED
    BY <1>5, <2>1, <2>2
<1>7. openFiles' = Cardinality(Q) /\ openFiles' \in Nat
  <2>1. /\ Cardinality(P) \in Nat /\ Cardinality(Q) \in Nat
        /\ Cardinality(Q) = Cardinality(P) + Flag(j \in Q) - Flag(j \in P)
    BY <1>4, OneJobCounts
  <2>2. Flag(j \in Q) = Flag(job.open) /\ Flag(j \in P) = Flag(jobs[j].open)
    BY <1>4 DEF Flag
  <2>3. QED
    BY <1>5, <2>1, <2>2
<1>8. OpenCounts'
  BY <1>6, <1>7 DEF OpenCounts, T, Q
<1>9. QED
  BY <1>1, <1>2, <1>6, <1>7, <1>8 DEF JobsInv

LEMMA JobsStay ==
  ASSUME JobsInv, UNCHANGED <<jobs, openJobs, openFiles, buffer, calls>>
  PROVE  JobsInv'
BY DEF JobsInv, OpenCounts, InStep

LEMMA NoJobFacts == NoJob \in FileInfo /\ InStep(NoJob) /\ ~NoJob.inited /\ ~NoJob.open /\ NoJob.result = None
BY DEF NoJob, FileInfo, JobAt, InStep

LEMMA NoJobs ==
  ASSUME jobs = [j \in Job |-> NoJob], openJobs = 0, openFiles = 0, buffer = None, calls = <<>>
  PROVE  JobsInv
<1>1. {j \in Job : jobs[j].inited} = {} /\ {j \in Job : jobs[j].open} = {}
  BY NoJobFacts
<1>2. Cardinality({}) = 0
  BY FS_EmptySet
<1>3. OpenCounts
  BY <1>1, <1>2 DEF OpenCounts
<1>4. QED
  BY <1>3, NoJobFacts DEF JobsInv

LEMMA NoJobsLater ==
  ASSUME jobs' = [j \in Job |-> NoJob], openJobs' = 0, openFiles' = 0, buffer' = None, calls' = <<>>
  PROVE  JobsInv'
<1>1. {j \in Job : jobs'[j].inited} = {} /\ {j \in Job : jobs'[j].open} = {}
  BY NoJobFacts
<1>2. Cardinality({}) = 0
  BY FS_EmptySet
<1>3. OpenCounts'
  BY <1>1, <1>2 DEF OpenCounts
<1>4. \A j \in Job : jobs'[j] = NoJob
  OBVIOUS
<1>5. QED
  BY <1>3, <1>4, NoJobFacts DEF JobsInv, InStep

LEMMA DoesJobs ==
  ASSUME JobsInv, NEW C, Does(C)
  PROVE  JobsInv'
<1>1. UNCHANGED <<jobs, openJobs, openFiles, buffer, calls>> \/ \E image : Restart(image)
  BY DEF Does
<1>2. QED
  BY <1>1, JobsStay, NoJobsLater DEF Restart

LEMMA JobType ==
  ASSUME JobsInv, NEW j \in Job
  PROVE  /\ jobs[j] \in FileInfo
         /\ jobs[j] = [at |-> jobs[j].at, key |-> jobs[j].key, inited |-> jobs[j].inited, open |-> jobs[j].open,
                       path |-> jobs[j].path, data |-> jobs[j].data, sum |-> jobs[j].sum, got |-> jobs[j].got,
                       result |-> jobs[j].result]
         /\ InStep(jobs[j])
BY DEF JobsInv, FileInfo

LEMMA BeginLoadJobs ==
  ASSUME JobsInv, NEW j \in Job, NEW k \in Key, BeginLoad(j, k)
  PROVE  JobsInv'
<1> DEFINE job == [NoJob EXCEPT !.at = "InitJob", !.key = k]
<1>1. jobs' = [jobs EXCEPT ![j] = job] /\ jobs[j].at = "idle"
  BY DEF BeginLoad, At
<1>2. job \in FileInfo /\ InStep(job) /\ job.inited = FALSE /\ job.open = FALSE
  BY DEF NoJob, FileInfo, JobAt, InStep
<1>3. jobs[j].inited = FALSE /\ jobs[j].open = FALSE
  BY <1>1, JobType DEF InStep, FileInfo
<1> HIDE DEF job
<1>4. /\ openJobs' = openJobs + Flag(job.inited) - Flag(jobs[j].inited)
      /\ openFiles' = openFiles + Flag(job.open) - Flag(jobs[j].open)
  BY <1>2, <1>3 DEF BeginLoad, JobsInv, Flag
<1>5. buffer' \in Content \cup {None} /\ calls' \in Seq(Job)
  BY DEF JobsInv, BeginLoad
<1>6. QED
  BY <1>1, <1>2, <1>4, <1>5, JobMoves

LEMMA InitJobJobs ==
  ASSUME JobsInv, HandlerInv, NEW j \in Job, InitJob(j)
  PROVE  JobsInv'
<1> DEFINE k == jobs[j].key
           path == IF k \in DOMAIN cache.map THEN <<cache.dir, cache.map[k].file>> ELSE None
           job == [jobs[j] EXCEPT !.at = "Connect", !.inited = TRUE, !.path = path]
<1>1. jobs' = [jobs EXCEPT ![j] = job] /\ jobs[j].at = "InitJob" /\ openJobs' = openJobs + 1
  BY DEF InitJob, At
<1>2. path \in (Dir \X Name) \cup {None}
  <2>1. CASE k \in DOMAIN cache.map
    <3>1. cache.on
      BY <2>1, CacheParts DEF HandlerInv, Sound, Consistent
    <3>2. cache.dir \in Dir /\ cache.map[k].file \in Name
      BY <2>1, <3>1, CacheParts, EntryType DEF HandlerInv
    <3>3. QED
      BY <2>1, <3>2
  <2>2. CASE k \notin DOMAIN cache.map
    BY <2>2
  <2>3. QED
    BY <2>1, <2>2
<1> HIDE DEF path
<1>3. job \in FileInfo /\ InStep(job) /\ job.inited = TRUE /\ job.open = jobs[j].open /\ ~jobs[j].inited
  BY <1>1, <1>2, JobType DEF FileInfo, JobAt, InStep
<1> HIDE DEF job
<1>4. /\ openJobs' = openJobs + Flag(job.inited) - Flag(jobs[j].inited)
      /\ openFiles' = openFiles + Flag(job.open) - Flag(jobs[j].open)
  BY <1>1, <1>3 DEF InitJob, JobsInv, Flag
<1>5. buffer' \in Content \cup {None} /\ calls' \in Seq(Job)
  BY DEF JobsInv, InitJob
<1>6. QED
  BY <1>1, <1>3, <1>4, <1>5, JobMoves

LEMMA ConnectJobs ==
  ASSUME JobsInv, HandlerInv, NEW j \in Job, Connect(j)
  PROVE  JobsInv'
<1> DEFINE file == FileAt(jobs[j].path)
           opened == [jobs[j] EXCEPT !.at = "Read", !.open = TRUE, !.data = file]
           failed == [jobs[j] EXCEPT !.at = "Remove", !.result = "failed"]
<1>1. /\ jobs[j].at = "Connect" /\ openJobs' = openJobs
      /\ IF file # None THEN jobs' = [jobs EXCEPT ![j] = opened] /\ openFiles' = openFiles + 1
                        ELSE jobs' = [jobs EXCEPT ![j] = failed] /\ openFiles' = openFiles
  BY DEF Connect, At
<1>2. file \in Content \cup {None}
  <2>1. jobs[j].path \in (Dir \X Name) \cup {None}
    BY JobType DEF FileInfo
  <2>2. CASE jobs[j].path = None
    BY <2>2 DEF FileAt
  <2>3. CASE jobs[j].path # None
    <3>1. PICK d \in Dir, n \in Name : jobs[j].path = <<d, n>>
      BY <2>1, <2>3
    <3>2. file = cache.disk[d].files[n]
      BY <2>3, <3>1 DEF FileAt
    <3>3. cache.disk[d].files \in FileSet
      BY CacheParts, DiskAt DEF HandlerInv
    <3>4. QED
      BY <3>2, <3>3 DEF FileSet
  <2>4. QED
    BY <2>2, <2>3
<1> HIDE DEF file
<1>3. /\ opened \in FileInfo /\ InStep(opened) /\ opened.inited = jobs[j].inited /\ opened.open = TRUE
      /\ failed \in FileInfo /\ InStep(failed) /\ failed.inited = jobs[j].inited /\ failed.open = jobs[j].open
      /\ ~jobs[j].open
  BY <1>1, <1>2, JobType DEF FileInfo, JobAt, InStep
<1> HIDE DEF opened, failed
<1>4. PICK job \in {opened, failed} : /\ jobs' = [jobs EXCEPT ![j] = job]
                                      /\ openFiles' = IF job = opened THEN openFiles + 1 ELSE openFiles
  BY <1>1, <1>3
<1>5. /\ openJobs' = openJobs + Flag(job.inited) - Flag(jobs[j].inited)
      /\ openFiles' = openFiles + Flag(job.open) - Flag(jobs[j].open)
  BY <1>1, <1>3, <1>4 DEF JobsInv, Flag
<1>6. buffer' \in Content \cup {None} /\ calls' \in Seq(Job)
  BY DEF JobsInv, Connect
<1>7. QED
  BY <1>3, <1>4, <1>5, <1>6, JobMoves

LEMMA ReadJobs ==
  ASSUME JobsInv, NEW j \in Job, Read(j)
  PROVE  JobsInv'
<1> DEFINE job == [jobs[j] EXCEPT !.at = "Receiving", !.got = jobs[j].data]
<1>1. jobs' = [jobs EXCEPT ![j] = job] /\ jobs[j].at = "Read"
  BY DEF Read, At
<1>2. job \in FileInfo /\ InStep(job) /\ job.inited = jobs[j].inited /\ job.open = jobs[j].open
  BY <1>1, JobType DEF FileInfo, JobAt, InStep
<1> HIDE DEF job
<1>3. /\ openJobs' = openJobs + Flag(job.inited) - Flag(jobs[j].inited)
      /\ openFiles' = openFiles + Flag(job.open) - Flag(jobs[j].open)
  BY <1>2 DEF Read, JobsInv, Flag
<1>4. buffer' \in Content \cup {None} /\ calls' \in Seq(Job)
  BY JobType DEF JobsInv, Read, FileInfo
<1>5. QED
  BY <1>1, <1>2, <1>3, <1>4, JobMoves

LEMMA ReadFailsJobs ==
  ASSUME JobsInv, NEW j \in Job, ReadFails(j)
  PROVE  JobsInv'
<1> DEFINE job == [jobs[j] EXCEPT !.at = "Disconnect", !.result = "failed"]
<1>1. jobs' = [jobs EXCEPT ![j] = job] /\ jobs[j].at = "Read"
  BY DEF ReadFails, At
<1>2. job \in FileInfo /\ InStep(job) /\ job.inited = jobs[j].inited /\ job.open = jobs[j].open
  BY <1>1, JobType DEF FileInfo, JobAt, InStep
<1> HIDE DEF job
<1>3. /\ openJobs' = openJobs + Flag(job.inited) - Flag(jobs[j].inited)
      /\ openFiles' = openFiles + Flag(job.open) - Flag(jobs[j].open)
  BY <1>2 DEF ReadFails, JobsInv, Flag
<1>4. buffer' \in Content \cup {None} /\ calls' \in Seq(Job)
  BY DEF JobsInv, ReadFails
<1>5. QED
  BY <1>1, <1>2, <1>3, <1>4, JobMoves

(* The job that receives: it is inside DataReceived and has been there since *)
(* it read.                                                                  *)
Inside == \A i \in DOMAIN calls : jobs[calls[i]].at = "Receiving"

LEMMA ReceivedJobs ==
  ASSUME JobsInv, Inside, Received
  PROVE  JobsInv'
<1> DEFINE j == Last(calls)
           job == [jobs[j] EXCEPT !.at = "End", !.sum = buffer]
<1>1. /\ j \in Job /\ jobs[j].at = "Receiving"
      /\ Front(calls) \in Seq(Job)
  BY LastFacts, FrontFacts DEF JobsInv, Received, Inside
<1>2. jobs' = [jobs EXCEPT ![j] = job]
  BY DEF Received
<1> HIDE DEF j
<1>3. job \in FileInfo /\ InStep(job) /\ job.inited = jobs[j].inited /\ job.open = jobs[j].open
  <2>1. buffer \in Content \cup {None}
    BY DEF JobsInv
  <2>2. QED
    BY <1>1, <2>1, JobType DEF FileInfo, JobAt, InStep
<1> HIDE DEF job
<1>4. /\ openJobs' = openJobs + Flag(job.inited) - Flag(jobs[j].inited)
      /\ openFiles' = openFiles + Flag(job.open) - Flag(jobs[j].open)
  BY <1>3 DEF Received, JobsInv, Flag
<1>5. buffer' \in Content \cup {None} /\ calls' \in Seq(Job)
  BY <1>1 DEF JobsInv, Received
<1>6. QED
  BY <1>1, <1>2, <1>3, <1>4, <1>5, JobMoves

LEMMA EndJobs ==
  ASSUME JobsInv, NEW j \in Job, End(j)
  PROVE  JobsInv'
<1>1. PICK result \in {"ok", "failed"} :
        jobs' = [jobs EXCEPT ![j] = [jobs[j] EXCEPT !.at = "Disconnect", !.result = result]]
  BY DEF End
<1> DEFINE job == [jobs[j] EXCEPT !.at = "Disconnect", !.result = result]
<1>2. jobs[j].at = "End"
  BY DEF End, At
<1>3. job \in FileInfo /\ InStep(job) /\ job.inited = jobs[j].inited /\ job.open = jobs[j].open
  BY <1>2, JobType DEF FileInfo, JobAt, InStep
<1>4. jobs' = [jobs EXCEPT ![j] = job]
  BY <1>1
<1> HIDE DEF job
<1>5. /\ openJobs' = openJobs + Flag(job.inited) - Flag(jobs[j].inited)
      /\ openFiles' = openFiles + Flag(job.open) - Flag(jobs[j].open)
  BY <1>3 DEF End, JobsInv, Flag
<1>6. buffer' \in Content \cup {None} /\ calls' \in Seq(Job)
  BY DEF JobsInv, End
<1>7. QED
  BY <1>3, <1>4, <1>5, <1>6, JobMoves

LEMMA FilesLeftIs ==
  ASSUME JobsInv, NEW j \in Job
  PROVE  FilesLeft(j) = openFiles - Flag(jobs[j].open)
BY DEF FilesLeft, Flag, JobsInv

LEMMA DisconnectJobs ==
  ASSUME JobsInv, NEW j \in Job, Disconnect(j)
  PROVE  JobsInv'
<1> DEFINE job == [jobs[j] EXCEPT !.open = FALSE, !.data = None, !.at = "ShutdownJob"]
<1>1. jobs' = [jobs EXCEPT ![j] = job] /\ jobs[j].at = "Disconnect"
  BY DEF Disconnect, At, Closed
<1>2. job \in FileInfo /\ InStep(job) /\ job.inited = jobs[j].inited /\ job.open = FALSE
  BY <1>1, JobType DEF FileInfo, JobAt, InStep
<1> HIDE DEF job
<1>3. /\ openJobs' = openJobs + Flag(job.inited) - Flag(jobs[j].inited)
      /\ openFiles' = openFiles + Flag(job.open) - Flag(jobs[j].open)
  BY <1>2, FilesLeftIs DEF Disconnect, JobsInv, Flag
<1>4. buffer' \in Content \cup {None} /\ calls' \in Seq(Job)
  BY DEF JobsInv, Disconnect
<1>5. QED
  BY <1>1, <1>2, <1>3, <1>4, JobMoves

LEMMA ShutdownJobJobs ==
  ASSUME JobsInv, NEW j \in Job, ShutdownJob(j)
  PROVE  JobsInv'
<1>1. jobs' = [jobs EXCEPT ![j] = NoJob]
  BY DEF ShutdownJob
<1>2. /\ openJobs' = openJobs + Flag(NoJob.inited) - Flag(jobs[j].inited)
      /\ openFiles' = openFiles + Flag(NoJob.open) - Flag(jobs[j].open)
  BY FilesLeftIs, NoJobFacts DEF ShutdownJob, JobsInv, Flag
<1>3. buffer' \in Content \cup {None} /\ calls' \in Seq(Job)
  BY DEF JobsInv, ShutdownJob
<1>4. QED
  BY <1>1, <1>2, <1>3, NoJobFacts, JobMoves

LEMMA CancelJobJobs ==
  ASSUME JobsInv, NEW j \in Job, CancelJob(j)
  PROVE  JobsInv'
<1> DEFINE job == [jobs[j] EXCEPT !.at = "Remove"]
<1>1. jobs' = [jobs EXCEPT ![j] = job]
  BY DEF CancelJob
<1>2. job \in FileInfo /\ InStep(job) /\ job.inited = jobs[j].inited /\ job.open = jobs[j].open
  BY <1>1, JobType DEF FileInfo, JobAt, InStep
<1> HIDE DEF job
<1>3. /\ openJobs' = openJobs + Flag(job.inited) - Flag(jobs[j].inited)
      /\ openFiles' = openFiles + Flag(job.open) - Flag(jobs[j].open)
  BY <1>2 DEF CancelJob, JobsInv, Flag
<1>4. buffer' \in Content \cup {None} /\ calls' \in Seq(Job)
  BY DEF JobsInv, CancelJob
<1>5. QED
  BY <1>1, <1>2, <1>3, <1>4, JobMoves

(* Where the jobs inside DataReceived stand.                                 *)
Receivers == Inside /\ Distinct(calls)

LEMMA OutsideKeeps ==
  ASSUME JobsInv, Receivers, NEW j \in Job, Outside(j), UNCHANGED calls,
         \A i \in Job : i # j => jobs'[i] = jobs[i]
  PROVE  Receivers'
<1>1. \A i \in DOMAIN calls : calls[i] \in Job /\ calls[i] # j
  BY DEF JobsInv, Outside
<1>2. QED
  BY <1>1 DEF Receivers, Inside, Distinct

LEMMA ReadReceives ==
  ASSUME JobsInv, Receivers, NEW j \in Job, Read(j)
  PROVE  Receivers'
<1>1. /\ calls' = Append(calls, j) /\ calls \in Seq(Job)
      /\ \A i \in DOMAIN calls : calls[i] # j
      /\ jobs' = [jobs EXCEPT ![j].at = "Receiving", ![j].got = jobs[j].data]
  BY DEF Read, At, Outside, JobsInv
<1>2. /\ DOMAIN calls' = DOMAIN calls \cup {Len(calls) + 1} /\ Len(calls) + 1 \notin DOMAIN calls
      /\ calls'[Len(calls) + 1] = j
      /\ \A i \in DOMAIN calls : calls'[i] = calls[i] /\ calls[i] \in Job
  BY <1>1
<1>3. jobs'[j].at = "Receiving" /\ \A i \in Job : i # j => jobs'[i] = jobs[i]
  BY <1>1, JobType DEF JobsInv
<1>4. Inside'
  BY <1>1, <1>2, <1>3 DEF Receivers, Inside
<1>5. Distinct(calls)'
  BY <1>1, <1>2 DEF Receivers, Distinct
<1>6. QED
  BY <1>4, <1>5 DEF Receivers

LEMMA ReceivedReceives ==
  ASSUME JobsInv, Receivers, Received
  PROVE  Receivers'
<1> DEFINE j == Last(calls)
<1>1. /\ calls \in Seq(Job) /\ calls # <<>> /\ calls' = Front(calls)
      /\ jobs' = [jobs EXCEPT ![j].at = "End", ![j].sum = buffer]
  BY DEF Received, JobsInv
<1>2. /\ Len(calls) \in 1 .. Len(calls) /\ j = calls[Len(calls)] /\ j \in Job
      /\ DOMAIN calls' = 1 .. (Len(calls) - 1)
      /\ \A i \in DOMAIN calls' : i \in DOMAIN calls /\ i # Len(calls) /\ calls'[i] = calls[i] /\ calls[i] \in Job
  <2>1. Len(calls) \in Nat /\ Len(calls) # 0
    BY <1>1, EmptySeq
  <2>2. /\ Front(calls) \in Seq(Job) /\ Len(Front(calls)) = Len(calls) - 1
        /\ \A i \in 1 .. (Len(calls) - 1) : Front(calls)[i] = calls[i]
    BY <1>1, FrontFacts
  <2>3. j = calls[Len(calls)] /\ j \in Job
    BY <1>1, LastFacts
  <2>4. QED
    BY <1>1, <2>1, <2>2, <2>3
<1> HIDE DEF j
<1>3. \A i \in DOMAIN calls' : calls[i] # j
  BY <1>1, <1>2 DEF Receivers, Distinct
<1>4. \A i \in Job : i # j => jobs'[i] = jobs[i]
  BY <1>1 DEF JobsInv
<1>5. Inside'
  BY <1>2, <1>3, <1>4 DEF Receivers, Inside
<1>6. Distinct(calls)'
  BY <1>2 DEF Receivers, Distinct
<1>7. QED
  BY <1>5, <1>6 DEF Receivers

LEMMA DoesReceives ==
  ASSUME JobsInv, Receivers, NEW C, Does(C)
  PROVE  Receivers'
<1>1. UNCHANGED <<jobs, calls>> \/ calls' = <<>>
  BY DEF Does, Restart
<1>2. QED
  BY <1>1 DEF Receivers, Inside, Distinct

CacheInv == HandlerInv /\ JobsInv /\ Receivers

LEMMA Operations ==
  ASSUME Next
  PROVE  \/ \E C : Does(C)
         \/ \E disk : Restart(disk)
         \/ Tick \/ Received
         \/ \E j \in Job : JobStep(j)
BY DEF Next, Crash, ClearAll, Shutdown, SetDiskCacheParams, NetworkStep, NetworkLoadDone, Post

LEMMA JobStepKeeps ==
  ASSUME CacheInv, NEW j \in Job, JobStep(j)
  PROVE  JobsInv' /\ Receivers'
<1>1. JobsInv'
  BY BeginLoadJobs, InitJobJobs, ConnectJobs, ReadJobs, ReadFailsJobs, EndJobs, DisconnectJobs, ShutdownJobJobs,
     CancelJobJobs DEF JobStep, CacheInv
<1>2. Receivers'
  <2>1. CASE Read(j)
    BY <2>1, ReadReceives DEF CacheInv
  <2>2. CASE ~Read(j)
    <3>1. Outside(j) /\ UNCHANGED calls
      BY <2>2 DEF JobStep, BeginLoad, InitJob, Connect, ReadFails, End, Disconnect, ShutdownJob, CancelJob, At
    <3>2. \E job : jobs' = [jobs EXCEPT ![j] = job]
      BY <2>2 DEF JobStep, BeginLoad, InitJob, Connect, ReadFails, End, Disconnect, ShutdownJob, CancelJob
    <3>3. \A i \in Job : i # j => jobs'[i] = jobs[i]
      BY <3>2 DEF CacheInv, JobsInv
    <3>4. QED
      BY <3>1, <3>3, OutsideKeeps DEF CacheInv
  <2>3. QED
    BY <2>1, <2>2
<1>3. QED
  BY <1>1, <1>2

LEMMA NextJobs ==
  ASSUME CacheInv, [Next]_vars
  PROVE  JobsInv' /\ Receivers'
<1>1. CASE UNCHANGED vars \/ Tick
  <2>1. UNCHANGED <<jobs, openJobs, openFiles, buffer, calls>>
    BY <1>1 DEF vars, Tick
  <2>2. QED
    BY <2>1, JobsStay DEF CacheInv, Receivers, Inside, Distinct
<1>2. ASSUME NEW C, Does(C)
      PROVE  JobsInv' /\ Receivers'
  BY <1>2, DoesJobs, DoesReceives DEF CacheInv
<1>3. ASSUME NEW disk, Restart(disk)
      PROVE  JobsInv' /\ Receivers'
  BY <1>3, NoJobsLater DEF Restart, Receivers, Inside, Distinct
<1>4. CASE Received
  BY <1>4, ReceivedJobs, ReceivedReceives DEF CacheInv, Receivers
<1>5. QED
  BY <1>1, <1>2, <1>3, <1>4, JobStepKeeps, Operations

LEMMA InitCache ==
  ASSUME Init
  PROVE  CacheInv
BY InitHandler, NoJobs DEF Init, CacheInv, Receivers, Inside, Distinct

LEMMA CacheStays == Spec => []CacheInv
<1>1. CacheInv /\ [Next]_vars => CacheInv'
  BY NextJobs, NextHandler DEF CacheInv, HandlerStep
<1>2. QED
  BY <1>1, InitCache, PTL DEF Spec

(* The types of all the variables.                                           *)
THEOREM TypeCorrect == Spec => []TypeOK
<1>1. CacheInv => TypeOK
  BY DEF CacheInv, HandlerInv, JobsInv, Sound, TypeOK
<1>2. QED
  BY <1>1, CacheStays, PTL

(* sOpenJobCount and sOpenFileCount are the numbers of jobs that hold a      *)
(* FileInfo and an open file, whatever fails, is cancelled or nests.         *)
THEOREM CountersRight == Spec => []OpenCounts
<1>1. CacheInv => OpenCounts
  BY DEF CacheInv, JobsInv
<1>2. QED
  BY <1>1, CacheStays, PTL

-----------------------------------------------------------------------------
(* What is served.  While one job at a time is inside DataReceived the       *)
(* shared buffer is the one its job filled.                                  *)

Serving == /\ Len(calls) <= 1
           /\ \A i \in DOMAIN calls : buffer = jobs[calls[i]].got
           /\ \A j \in Job : jobs[j].at = "End" => jobs[j].sum = jobs[j].got
           /\ ServesOwnBody

Served(job) == job.result = "ok" => job.got \in Body /\ job.got[1] = job.key
Summed(job) == job.at = "End" => job.sum = job.got

LEMMA ServingParts == Serving <=> /\ Len(calls) <= 1
                                  /\ \A i \in DOMAIN calls : buffer = jobs[calls[i]].got
                                  /\ \A j \in Job : Served(jobs[j]) /\ Summed(jobs[j])
BY DEF Serving, ServesOwnBody, Served, Summed

LEMMA NoJobServes == Served(NoJob) /\ Summed(NoJob)
BY StateAssumption DEF NoJob, Served, Summed

LEMMA ServingStays ==
  ASSUME Serving, UNCHANGED <<jobs, buffer, calls>>
  PROVE  Serving'
BY DEF Serving, ServesOwnBody

LEMMA ServingAnew ==
  ASSUME jobs' = [j \in Job |-> NoJob], calls' = <<>>
  PROVE  Serving'
<1>1. \A j \in Job : jobs'[j] = NoJob
  OBVIOUS
<1>2. Len(calls') <= 1 /\ DOMAIN calls' = {}
  OBVIOUS
<1>3. QED
  BY <1>1, <1>2, NoJobServes DEF Serving, ServesOwnBody, Served, Summed

(* A job outside DataReceived moves, and leaves the buffer to the one inside. *)
LEMMA OutsideServes ==
  ASSUME CacheInv, Serving, NEW j \in Job, Outside(j), NEW job, jobs' = [jobs EXCEPT ![j] = job],
         UNCHANGED calls, calls = <<>> \/ buffer' = buffer, Served(job), Summed(job)
  PROVE  Serving'
<1>1. /\ jobs'[j] = job /\ \A i \in Job : i # j => jobs'[i] = jobs[i]
      /\ \A i \in DOMAIN calls : calls[i] \in Job /\ calls[i] # j
  BY DEF CacheInv, JobsInv, Outside
<1>2. \A i \in Job : Served(jobs'[i]) /\ Summed(jobs'[i])
  BY <1>1, ServingParts
<1>3. \A i \in DOMAIN calls : buffer' = jobs'[calls[i]].got
  BY <1>1 DEF Serving
<1>4. QED
  BY <1>2, <1>3 DEF Serving, ServesOwnBody, Served, Summed

LEMMA ReadServes ==
  ASSUME CacheInv, Serving, MaxCalls <= 1, NEW j \in Job, Read(j)
  PROVE  Serving'
<1> DEFINE job == [jobs[j] EXCEPT !.at = "Receiving", !.got = jobs[j].data]
<1>1. /\ jobs' = [jobs EXCEPT ![j] = job] /\ jobs[j].at = "Read" /\ calls' = Append(calls, j)
      /\ buffer' = jobs[j].data /\ calls \in Seq(Job) /\ Len(calls) < MaxCalls
  BY DEF Read, At, CacheInv, JobsInv
<1>2. Len(calls') = 1 /\ calls'[1] = j /\ DOMAIN calls' = {1}
  BY <1>1, BoundAssumption
<1>3. job.at = "Receiving" /\ job.got = jobs[j].data /\ job.result = None
  <2>1. jobs[j].result = None
    BY <1>1, JobType DEF CacheInv, InStep
  <2>2. QED
    BY <2>1, JobType DEF CacheInv
<1> HIDE DEF job
<1>4. jobs'[j] = job /\ \A i \in Job : i # j => jobs'[i] = jobs[i]
  BY <1>1 DEF CacheInv, JobsInv
<1>5. Served(job) /\ Summed(job)
  BY <1>3, StateAssumption DEF Served, Summed
<1>6. \A i \in Job : Served(jobs'[i]) /\ Summed(jobs'[i])
  BY <1>4, <1>5, ServingParts
<1>7. \A i \in DOMAIN calls' : buffer' = jobs'[calls'[i]].got
  BY <1>1, <1>2, <1>3, <1>4
<1>8. QED
  BY <1>2, <1>6, <1>7 DEF Serving, ServesOwnBody, Served, Summed

LEMMA ReceivedServes ==
  ASSUME CacheInv, Serving, Received
  PROVE  Serving'
<1> DEFINE j == Last(calls)
           job == [jobs[j] EXCEPT !.at = "End", !.sum = buffer]
<1>1. /\ calls \in Seq(Job) /\ calls # <<>> /\ calls' = Front(calls)
      /\ jobs' = [jobs EXCEPT ![j] = job]
  BY DEF Received, CacheInv, JobsInv
<1>2. j \in Job /\ j = calls[Len(calls)] /\ Len(calls) \in DOMAIN calls
  BY <1>1, LastFacts
<1>3. Len(calls') = Len(calls) - 1 /\ calls' \in Seq(Job)
  BY <1>1, FrontFacts
<1>4. Len(calls) \in Nat /\ Len(calls) <= 1 /\ Len(calls) # 0
  BY <1>1, EmptySeq DEF Serving
<1>5. DOMAIN calls' = {} /\ Len(calls') <= 1
  BY <1>3, <1>4
<1>6. jobs[j].at = "Receiving" /\ buffer = jobs[j].got
  BY <1>2 DEF CacheInv, Receivers, Inside, Serving
<1> HIDE DEF j
<1>7. job.at = "End" /\ job.sum = buffer /\ job.got = jobs[j].got /\ job.result = None
  <2>1. jobs[j].result = None
    BY <1>2, <1>6, JobType DEF CacheInv, InStep
  <2>2. QED
    BY <1>2, <2>1, JobType DEF CacheInv
<1> HIDE DEF job
<1>8. jobs'[j] = job /\ \A i \in Job : i # j => jobs'[i] = jobs[i]
  BY <1>1, <1>2 DEF CacheInv, JobsInv
<1>9. Served(job) /\ Summed(job)
  BY <1>6, <1>7, StateAssumption DEF Served, Summed
<1>10. \A i \in Job : Served(jobs'[i]) /\ Summed(jobs'[i])
  BY <1>8, <1>9, ServingParts
<1>11. QED
  BY <1>5, <1>10 DEF Serving, ServesOwnBody, Served, Summed

LEMMA EndServes ==
  ASSUME CacheInv, Serving, NEW j \in Job, End(j)
  PROVE  Serving'
<1> DEFINE k == jobs[j].key
<1>1. PICK result \in {"ok", "failed"} :
        /\ jobs' = [jobs EXCEPT ![j] = [jobs[j] EXCEPT !.at = "Disconnect", !.result = result]]
        /\ result = "ok" => k \in DOMAIN cache.map /\ cache.map[k].body = jobs[j].sum
  BY DEF End
<1> DEFINE job == [jobs[j] EXCEPT !.at = "Disconnect", !.result = result]
<1>2. jobs[j].at = "End" /\ Outside(j) /\ UNCHANGED <<calls, buffer>>
  BY DEF End, At
<1>3. jobs[j].sum = jobs[j].got
  BY <1>2 DEF Serving
<1>4. job.at = "Disconnect" /\ job.result = result /\ job.got = jobs[j].got /\ job.key = k
  BY JobType DEF CacheInv
<1>5. Listable(cache.map)
  BY CacheParts DEF CacheInv, HandlerInv
<1>6. k \in DOMAIN cache.map => cache.map[k].body \in Body /\ cache.map[k].body[1] = k
  BY <1>5, EntryType DEF Listable, OwnBodies
<1>7. Served(job) /\ Summed(job)
  BY <1>1, <1>3, <1>4, <1>6 DEF Served, Summed
<1>8. jobs' = [jobs EXCEPT ![j] = job]
  BY <1>1
<1> HIDE DEF job
<1>9. QED
  BY <1>2, <1>7, <1>8, OutsideServes

(* The job inside DataReceived keeps the count above zero and the buffer.    *)
LEMMA ShutdownJobServes ==
  ASSUME CacheInv, Serving, NEW j \in Job, ShutdownJob(j)
  PROVE  Serving'
<1>1. Outside(j) /\ jobs' = [jobs EXCEPT ![j] = NoJob] /\ UNCHANGED calls
  BY DEF ShutdownJob, At
<1>2. JobsInv'
  BY ShutdownJobJobs DEF CacheInv
<1>3. ASSUME calls # <<>>
      PROVE  buffer' = buffer
  <2> DEFINE i == Last(calls)
  <2>1. i \in Job /\ i = calls[Len(calls)] /\ Len(calls) \in DOMAIN calls
    BY <1>3, LastFacts DEF CacheInv, JobsInv
  <2>2. i # j /\ jobs[i].at = "Receiving"
    BY <1>1, <2>1 DEF Outside, CacheInv, Receivers, Inside
  <2> HIDE DEF i
  <2>3. jobs'[i].inited
    BY <1>1, <2>1, <2>2, JobType DEF CacheInv, JobsInv, InStep
  <2> DEFINE T == {l \in Job : jobs'[l].inited}
  <2>4. i \in T /\ IsFiniteSet(T)
    BY <2>1, <2>3, SetAssumption, FS_Subset
  <2>5. openJobs' = Cardinality(T)
    BY <1>2 DEF JobsInv, OpenCounts
  <2> HIDE DEF T
  <2>6. Cardinality(T) \in Nat /\ Cardinality(T) # 0
    BY <2>4, FS_EmptySet, FS_CardinalityType
  <2>7. QED
    BY <2>5, <2>6 DEF ShutdownJob
<1>4. QED
  BY <1>1, <1>3, NoJobServes, OutsideServes

LEMMA JobStepServes ==
  ASSUME CacheInv, Serving, MaxCalls <= 1, NEW j \in Job, JobStep(j)
  PROVE  Serving'
<1>1. CASE Read(j) \/ End(j) \/ ShutdownJob(j)
  BY <1>1, ReadServes, EndServes, ShutdownJobServes
<1>2. CASE (\E k \in Key : BeginLoad(j, k)) \/ InitJob(j) \/ Connect(j) \/ ReadFails(j) \/ Disconnect(j) \/ CancelJob(j)
  <2>1. Outside(j) /\ UNCHANGED <<calls, buffer>>
    BY <1>2 DEF BeginLoad, InitJob, Connect, ReadFails, Disconnect, CancelJob, At
  <2>2. Served(jobs[j])
    BY ServingParts
  <2>3. \E job : jobs' = [jobs EXCEPT ![j] = job] /\ Served(job) /\ Summed(job)
    <3>1. ASSUME NEW k \in Key, BeginLoad(j, k)
          PROVE  \E job : jobs' = [jobs EXCEPT ![j] = job] /\ Served(job) /\ Summed(job)
      <4> DEFINE job == [NoJob EXCEPT !.at = "InitJob", !.key = k]
      <4>1. job.at = "InitJob" /\ job.result = None
        BY DEF NoJob
      <4>2. Served(job) /\ Summed(job)
        BY <4>1, StateAssumption DEF Served, Summed
      <4>3. QED
        BY <3>1, <4>2 DEF BeginLoad
    <3>2. CASE InitJob(j)
      <4>1. PICK path : jobs' = [jobs EXCEPT ![j] = [jobs[j] EXCEPT !.at = "Connect", !.inited = TRUE, !.path = path]]
        BY <3>2 DEF InitJob
      <4> DEFINE job == [jobs[j] EXCEPT !.at = "Connect", !.inited = TRUE, !.path = path]
      <4>2. job.at = "Connect" /\ job.result = jobs[j].result /\ job.got = jobs[j].got /\ job.key = jobs[j].key
        BY JobType DEF CacheInv
      <4>3. Served(job) /\ Summed(job)
        BY <2>2, <4>2 DEF Served, Summed
      <4>4. QED
        BY <4>1, <4>3
    <3>3. CASE Connect(j)
      <4> DEFINE opened == [jobs[j] EXCEPT !.at = "Read", !.open = TRUE, !.data = FileAt(jobs[j].path)]
                 failed == [jobs[j] EXCEPT !.at = "Remove", !.result = "failed"]
      <4>1. jobs' = [jobs EXCEPT ![j] = opened] \/ jobs' = [jobs EXCEPT ![j] = failed]
        BY <3>3 DEF Connect
      <4>2. /\ opened.at = "Read" /\ opened.result = jobs[j].result /\ opened.got = jobs[j].got /\ opened.key = jobs[j].key
            /\ failed.at = "Remove" /\ failed.result = "failed"
        BY JobType DEF CacheInv
      <4>3. Served(opened) /\ Summed(opened) /\ Served(failed) /\ Summed(failed)
        BY <2>2, <4>2 DEF Served, Summed
      <4>4. QED
        BY <4>1, <4>3
    <3>4. CASE ReadFails(j)
      <4> DEFINE job == [jobs[j] EXCEPT !.at = "Disconnect", !.result = "failed"]
      <4>1. jobs' = [jobs EXCEPT ![j] = job]
        BY <3>4 DEF ReadFails
      <4>2. job.at = "Disconnect" /\ job.result = "failed"
        BY JobType DEF CacheInv
      <4>3. QED
        BY <4>1, <4>2 DEF Served, Summed
    <3>5. CASE Disconnect(j)
      <4> DEFINE job == [jobs[j] EXCEPT !.open = FALSE, !.data = None, !.at = "ShutdownJob"]
      <4>1. jobs' = [jobs EXCEPT ![j] = job]
        BY <3>5 DEF Disconnect, Closed
      <4>2. job.at = "ShutdownJob" /\ job.result = jobs[j].result /\ job.got = jobs[j].got /\ job.key = jobs[j].key
        BY JobType DEF CacheInv
      <4>3. Served(job) /\ Summed(job)
        BY <2>2, <4>2 DEF Served, Summed
      <4>4. QED
        BY <4>1, <4>3
    <3>6. CASE CancelJob(j)
      <4> DEFINE job == [jobs[j] EXCEPT !.at = "Remove"]
      <4>1. jobs' = [jobs EXCEPT ![j] = job]
        BY <3>6 DEF CancelJob
      <4>2. job.at = "Remove" /\ job.result = jobs[j].result /\ job.got = jobs[j].got /\ job.key = jobs[j].key
        BY JobType DEF CacheInv
      <4>3. Served(job) /\ Summed(job)
        BY <2>2, <4>2 DEF Served, Summed
      <4>4. QED
        BY <4>1, <4>3
    <3>7. QED
      BY <1>2, <3>1, <3>2, <3>3, <3>4, <3>5, <3>6
  <2>4. QED
    BY <2>1, <2>3, OutsideServes
<1>3. QED
  BY <1>1, <1>2 DEF JobStep

LEMMA NextServes ==
  ASSUME CacheInv, Serving, MaxCalls <= 1, [Next]_vars
  PROVE  Serving'
<1>1. CASE UNCHANGED vars \/ Tick
  BY <1>1, ServingStays DEF vars, Tick
<1>2. ASSUME NEW C, Does(C)
      PROVE  Serving'
  BY <1>2, ServingStays, ServingAnew DEF Does, Restart
<1>3. ASSUME NEW disk, Restart(disk)
      PROVE  Serving'
  BY <1>3, ServingAnew DEF Restart
<1>4. QED
  BY <1>1, <1>2, <1>3, ReceivedServes, JobStepServes, Operations

(* As long as no job is served from within the DataReceived of another, a    *)
(* load that ends well has handed its client a body that a server gave for   *)
(* that URL, whatever changed in the cache while it was served.  One that    *)
(* fails may have handed it another: an ini file older than the files names  *)
(* the body of another URL, and the checksum tells only at the end.          *)
THEOREM OwnBodyServed ==
  ASSUME MaxCalls <= 1
  PROVE  Spec => []ServesOwnBody
<1>1. Init => Serving
  <2> SUFFICES ASSUME Init PROVE Serving
    OBVIOUS
  <2>1. \A j \in Job : jobs[j] = NoJob
    BY DEF Init
  <2>2. Len(calls) <= 1 /\ DOMAIN calls = {}
    BY DEF Init
  <2>3. QED
    BY <2>1, <2>2, NoJobServes, ServingParts
<1>2. CacheInv /\ Serving /\ [Next]_vars => Serving'
  BY NextServes
<1>3. Serving => ServesOwnBody
  BY DEF Serving
<1>4. QED
  BY <1>1, <1>2, <1>3, CacheStays, PTL DEF Spec

=============================================================================
