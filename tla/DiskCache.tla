------------------------------ MODULE DiskCache ------------------------------
(***************************************************************************)
(* EA::WebKit::TransportHandlerDiskCache: the map of cached URLs, the      *)
(* files in the cache directory, the ini file that carries the map over a  *)
(* restart, and the jobs the handler serves from it.                       *)
(*                                                                         *)
(* An operation is written as the set of states it can leave behind, each  *)
(* with the images of the disk it passed through: a program that dies in   *)
(* the middle of the operation leaves one of those images.  Between two    *)
(* operations other jobs run, and while a job is inside DataReceived the   *)
(* client may run them too (a synchronous load, a tick at a breakpoint).   *)
(***************************************************************************)
EXTENDS Integers, FiniteSets, SequencesExt

CONSTANTS
  Key,              \* URLs
  Version,          \* what a server may answer for a URL, one after another
  Name,             \* names MakeTempPathName can come up with
  Dir,              \* directories the application may name
  Job,              \* jobs served by this handler at the same time
  None,             \* no file, no directory, no key
  Torn,             \* a file whose writing failed or was cut short
  SizeOf,           \* the size of a body, by its Version
  Age,              \* max-age values the servers send
  Limits,           \* the [size, files] pairs the application may set
  MinFileSize,      \* sMinFileSize
  MaxJobCount,      \* sMaxJobCount
  MaintenanceAfter, \* kDefaultAccessCountBeforeMaintenance
  MaxTime,          \* bound: the clock stops here
  MaxCalls          \* bound: jobs inside DataReceived at the same time

ASSUME NoneAssumption  == None \notin Name \cup Dir \cup Key \cup Job \cup (Key \X Version)
ASSUME TornAssumption  == Torn \notin (Key \X Version) \cup {None}
ASSUME StateAssumption == None \notin {"ok", "failed"}
ASSUME SizeAssumption  == SizeOf \in [Version -> Nat] /\ IsFiniteSet(Version)
ASSUME AgeAssumption   == Age \subseteq Nat \ {0}
ASSUME LimitAssumption == Limits \subseteq [size : Nat \ {0}, files : Nat] /\ Limits # {}
ASSUME BoundAssumption == /\ {MinFileSize, MaintenanceAfter, MaxTime, MaxCalls} \subseteq Nat
                          /\ MaxJobCount \in Nat \ {0}
ASSUME SetAssumption   == IsFiniteSet(Key) /\ IsFiniteSet(Name) /\ IsFiniteSet(Job)

VARIABLES
  now,       \* GetHTTPTime()
  cache,     \* the handler, its statics and the disk (see Cache)
  jobs,      \* the jobs the manager has given to this handler
  openJobs,  \* sOpenJobCount
  openFiles, \* sOpenFileCount
  buffer,    \* what spCacheDownloadBuffer holds
  calls      \* jobs inside DataReceived, innermost last

vars == <<now, cache, jobs, openJobs, openFiles, buffer, calls>>

(* A body names the URL the server gave it for, so that serving it for      *)
(* another one shows.  Equal bodies stand for equal size and checksum.      *)
Body == Key \X Version
Content == Body \cup {Torn}

(* Info: the file's name, the body its size and checksum were taken of,     *)
(* mnTimeTimeout and mnTimeLastUsed.                                        *)
Info == [file : Name, body : Body, expires : Nat, used : Nat]
DataMap(map) == DOMAIN map \subseteq Key /\ map \in [DOMAIN map -> Info]
Empty == [k \in {} |-> None]

(* A directory: its *.cache files, and what its ini file lists.  A missing  *)
(* ini file, or one whose checksum is wrong, lists nothing.                 *)
Disk(disk) == /\ disk = [d \in Dir |-> [files |-> disk[d].files, ini |-> disk[d].ini]]
              /\ \A d \in Dir : /\ disk[d].files \in [Name -> Content \cup {None}]
                               /\ DataMap(disk[d].ini)

(* The handler: `on' is mbInitialized and mbEnabled (equal except inside a  *)
(* call), count is sCurFileCount, accesses is                               *)
(* mnCacheAccessCountSinceLastMaintenance, images the states of the disk    *)
(* during the operation being written down, empty between operations.       *)
Cache(c) ==
  /\ c = [on |-> c.on, dir |-> c.dir, limit |-> c.limit, map |-> c.map, count |-> c.count,
          accesses |-> c.accesses, disk |-> c.disk, images |-> c.images]
  /\ c.on \in BOOLEAN
  /\ c.dir \in Dir \cup {None}
  /\ c.on => c.dir # None
  /\ c.limit \in [size : Nat, files : Nat]
  /\ DataMap(c.map)
  /\ c.count \in Int
  /\ c.accesses \in 0 .. MaintenanceAfter
  /\ Disk(c.disk)
  /\ \A image \in c.images : Disk(image)

(* FileInfo and the job state: at names the handler function the manager    *)
(* calls next; path is mPath; data is what the open file holds, sum the     *)
(* checksum so far, got what the client received.                           *)
JobAt == {"idle", "InitJob", "Connect", "Read", "Receiving", "End",
          "Disconnect", "ShutdownJob", "Remove"}
FileInfo == [at : JobAt, key : Key \cup {None}, inited : BOOLEAN, open : BOOLEAN,
             path : (Dir \X Name) \cup {None}, data : Content \cup {None},
             sum : Content \cup {None}, got : Content \cup {None},
             result : {None, "ok", "failed"}]
NoJob == [at |-> "idle", key |-> None, inited |-> FALSE, open |-> FALSE, path |-> None,
          data |-> None, sum |-> None, got |-> None, result |-> None]

(* The process as it starts: a handler without a directory, statics zero.   *)
Started(disk, limit) ==
  [on |-> FALSE, dir |-> None, limit |-> limit, map |-> Empty, count |-> 0,
   accesses |-> 0, disk |-> disk, images |-> {}]

Init == /\ now = 0
        /\ \E limit \in Limits :
             cache = Started([d \in Dir |-> [files |-> [n \in Name |-> None], ini |-> Empty]], limit)
        /\ jobs = [j \in Job |-> NoJob]
        /\ openJobs = 0 /\ openFiles = 0
        /\ buffer = None
        /\ calls = <<>>

-----------------------------------------------------------------------------
(* Steps of the operations, on a handler state c.                           *)

Files(c) == c.disk[c.dir].files
FilesOf(map) == {map[k].file : k \in DOMAIN map}

(* RemoveCachedFile for the files F of n entries: the count goes down by    *)
(* one per call, whether or not the file was there or was ever counted.     *)
RemoveFiles(c, F, n) ==
  LET Without(G) == [c.disk EXCEPT ![c.dir].files = [f \in Name |-> IF f \in G THEN None ELSE @[f]]]
  IN  [c EXCEPT !.count = @ - n, !.disk = Without(F), !.images = @ \cup {Without(G) : G \in SUBSET F}]

(* Entries K leave the map and their files the directory.                   *)
RemoveEntries(c, K) ==
  [RemoveFiles(c, {c.map[k].file : k \in K}, Cardinality(K))
     EXCEPT !.map = Restrict(@, DOMAIN @ \ K)]

(* UpdateCacheIniFile: the old ini file goes first, and nobody looks at     *)
(* what WriteFile returned.                                                 *)
UpdateCacheIniFile(c) ==
  LET Listing(map) == [c.disk EXCEPT ![c.dir].ini = map]
      Wrote(map)   == [c EXCEPT !.disk = Listing(map), !.images = @ \cup {Listing(Empty), Listing(map)}]
  IN  IF c.on THEN {Wrote(c.map), Wrote(Empty)} ELSE {c}

(* Entries that have not expired, and the sets of them that the eviction    *)
(* loop can end with: least recently used first, as long as both limits     *)
(* are exceeded.                                                            *)
Live(c) == {k \in DOMAIN c.map : c.map[k].expires > now}
Over(c, K) == /\ MapThenSumSet(LAMBDA k : SizeOf[c.map[k].body[2]], K) > c.limit.size
              /\ Cardinality(K) > c.limit.files
Kept(c) == {K \in SUBSET Live(c) :
              /\ ~Over(c, K)
              /\ \A v \in Live(c) \ K, k \in K : c.map[v].used <= c.map[k].used
              /\ K # Live(c) => \E v \in Live(c) \ K :
                   /\ \A w \in Live(c) \ K : c.map[w].used <= c.map[v].used
                   /\ Over(c, K \cup {v})}

DoPeriodicCacheMaintenance(c) ==
  LET Purged(K) == [RemoveEntries(c, DOMAIN c.map \ K) EXCEPT !.accesses = 0, !.count = Cardinality(K)]
  IN  IF c.on THEN UNION {IF K = DOMAIN c.map THEN {Purged(K)} ELSE UpdateCacheIniFile(Purged(K)) : K \in Kept(c)}
              ELSE {c}

(* Mutant: maintenance one access late.                                     *)
WrongAccessedLate(c)  == IF c.accesses > MaintenanceAfter THEN DoPeriodicCacheMaintenance(c)
                                                          ELSE {[c EXCEPT !.accesses = @ + 1]}

(* ++mnCacheAccessCountSinceLastMaintenance, and what it may lead to.       *)
Accessed(c) == IF c.accesses >= MaintenanceAfter THEN DoPeriodicCacheMaintenance(c)
                                                 ELSE {[c EXCEPT !.accesses = @ + 1]}

ClearCache(c) == UpdateCacheIniFile(RemoveEntries(c, DOMAIN c.map))

(* InvalidateCachedDataIfRequired                                           *)
Invalidate(c, k, method) ==
  IF c.on /\ method \in {"POST", "PUT", "DELETE"} /\ k \in DOMAIN c.map
  THEN RemoveEntries(c, {k}) ELSE c

(* MakeTempPathName counts down from the clock to a name no file has; the   *)
(* clock is not the one of the entries, so any free name may come up.       *)
FreeNames(c) == {n \in Name : Files(c)[n] = None}

(* The middle of CacheToDisk: a file under a name nothing has, and the      *)
(* entry once the write has succeeded; a failed write may leave its file.   *)
Write(c, k, body, age) ==
  LET Put(n, x) == [c.disk EXCEPT ![c.dir].files[n] = x]
      New(n)    == [file |-> n, body |-> body, expires |-> now + age, used |-> now]
      Failed(n) == [c EXCEPT !.disk = Put(n, Torn), !.images = @ \cup {Put(n, Torn)}]
      With(n)   == [i \in DOMAIN c.map \cup {k} |-> IF i = k THEN New(n) ELSE c.map[i]]
      Done(n)   == [Failed(n) EXCEPT !.disk = Put(n, body), !.images = @ \cup {Put(n, body)},
                                     !.map = With(n), !.count = @ + 1]
  IN  {c} \cup {Failed(n) : n \in FreeNames(c)} \cup {Done(n) : n \in FreeNames(c)}

(* Mutant: the entry is erased, its file stays.                             *)
WrongRemoveKeepsFile(c, k) ==
  {IF k \in DOMAIN d.map THEN [d EXCEPT !.map = Restrict(@, DOMAIN @ \ {k})] ELSE d : d \in Accessed(c)}

RemoveCachedData(c, k) ==
  {IF k \in DOMAIN d.map THEN RemoveEntries(d, {k}) ELSE d : d \in Accessed(c)}

(* SetDirectivesFromHeader's first test and CacheToDisk's own; the answers  *)
(* that may not be cached at all are left out.                              *)
MayCache(c, body) == /\ openJobs < MaxJobCount
                     /\ c.on
                     /\ c.count < c.limit.files
                     /\ SizeOf[body[2]] >= MinFileSize

CacheToDisk(c, k, body, age) ==
  IF MayCache(c, body)
  THEN UNION {UNION {Accessed(e) : e \in Write(d, k, body, age)} : d \in RemoveCachedData(c, k)}
  ELSE {c}

(* IniFileCallbackFunction: lines of the ini file that become entries again, *)
(* and lines that have expired and lose their file.                         *)
Ini(c)     == c.disk[c.dir].ini
IniLive(c) == {k \in DOMAIN Ini(c) : Ini(c)[k].expires > now /\ Files(c)[Ini(c)[k].file] # None}
IniDead(c) == {k \in DOMAIN Ini(c) : Ini(c)[k].expires <= now}

(* Mutants: FileExists is not asked; the sweep is left out.                 *)
WrongReadUnchecked(c) ==
  [c EXCEPT !.map = RestrictDomain(Ini(c), LAMBDA k : Ini(c)[k].expires > now)]
WrongNoSweep(c) == c

(* Init: ReadCacheIniFile, then RemoveUnusedCachedFiles.                    *)
ReadCacheIniFile(c) ==
  [RemoveFiles(c, {Ini(c)[k].file : k \in IniDead(c)}, Cardinality(IniDead(c)) - Cardinality(IniLive(c)))
     EXCEPT !.map = Restrict(Ini(c), IniLive(c))]
RemoveUnusedCachedFiles(c) ==
  LET unused == {n \in Name : Files(c)[n] # None} \ FilesOf(c.map)
  IN  RemoveFiles(c, unused, Cardinality(unused))
Initialize(c) ==
  IF c.on THEN c ELSE [RemoveUnusedCachedFiles(ReadCacheIniFile(c)) EXCEPT !.on = TRUE]

SetCacheDirectory(c, d, separator) ==
  {[e EXCEPT !.dir = d] : e \in IF separator /\ c.dir = d THEN ClearCache(c) ELSE {c}}
SetMaxCacheSize(c, size) ==
  IF size < c.limit.size THEN DoPeriodicCacheMaintenance([c EXCEPT !.limit.size = size])
                         ELSE {[c EXCEPT !.limit.size = size]}
SetMaxFileCount(c, files) ==
  IF c.count > files THEN DoPeriodicCacheMaintenance([c EXCEPT !.limit.files = files])
                     ELSE {[c EXCEPT !.limit.files = files]}

-----------------------------------------------------------------------------
(* The program dies and starts again: the disk is all that is left.         *)
Restart(disk) == /\ cache' = Started(disk, cache.limit)
                 /\ jobs' = [j \in Job |-> NoJob]
                 /\ openJobs' = 0 /\ openFiles' = 0
                 /\ buffer' = None
                 /\ calls' = <<>>
                 /\ UNCHANGED now

(* An operation comes to its end, or dies on the way.                       *)
Does(C) == \E c \in C : \/ /\ cache' = [c EXCEPT !.images = {}]
                           /\ UNCHANGED <<now, jobs, openJobs, openFiles, buffer, calls>>
                        \/ \E image \in c.images : Restart(image)

Crash == Restart(cache.disk)

Tick == /\ now < MaxTime
        /\ now' = now + 1
        /\ UNCHANGED <<cache, jobs, openJobs, openFiles, buffer, calls>>

(* SetDiskCacheUsage: from the application's own code, not from a callback. *)
SetDiskCacheParams(d, separator, limit) ==
  /\ calls = <<>>
  /\ Does({Initialize(c) : c \in
       UNION {UNION {SetMaxFileCount(e, limit.files) : e \in SetMaxCacheSize(b, limit.size)} :
              b \in SetCacheDirectory(cache, d, separator)}})

(* SetDiskCacheUsage with size 0.                                           *)
ClearAll == /\ calls = <<>>
            /\ cache.on
            /\ Does(ClearCache(cache))

(* ~ResourceHandleManager, with no job left: Shutdown, and the handler is   *)
(* gone.  The statics stay for the next one.                                *)
Shutdown == /\ cache.on
            /\ \A j \in Job : jobs[j] = NoJob
            /\ Does({[Started(c.disk, c.limit) EXCEPT !.count = c.count, !.images = c.images] :
                     c \in UNION {UpdateCacheIniFile(d) : d \in DoPeriodicCacheMaintenance(cache)}})

(* DataDone of a network load: the answer is cached if it may be.           *)
NetworkLoadDone(k, body, age) == Does(CacheToDisk(cache, k, body, age))

(* initializeJob of a POST, PUT or DELETE.                                  *)
Post(k) == Does({Invalidate(cache, k, "POST")})

-----------------------------------------------------------------------------
(* Jobs.  j may step unless it is inside DataReceived itself.               *)
Outside(j) == \A i \in DOMAIN calls : calls[i] # j
At(j, where) == jobs[j].at = where /\ Outside(j)

IsCachedDataValid(k) == cache.on /\ k \in Live(cache)

(* initializeJob of a GET finds the URL in the cache.                       *)
BeginLoad(j, k) ==
  /\ At(j, "idle")
  /\ IsCachedDataValid(k)
  /\ jobs' = [jobs EXCEPT ![j] = [NoJob EXCEPT !.at = "InitJob", !.key = k]]
  /\ UNCHANGED <<now, cache, openJobs, openFiles, buffer, calls>>

InitJob(j) ==
  LET k == jobs[j].key
      path == IF k \in DOMAIN cache.map THEN <<cache.dir, cache.map[k].file>> ELSE None
  IN  /\ At(j, "InitJob")
      /\ jobs' = [jobs EXCEPT ![j].at = "Connect", ![j].inited = TRUE, ![j].path = path]
      /\ openJobs' = openJobs + 1
      /\ UNCHANGED <<now, cache, openFiles, buffer, calls>>

FileAt(path) == IF path = None THEN None ELSE cache.disk[path[1]].files[path[2]]

(* A file stays readable through the open handle when its name goes.        *)
Connect(j) ==
  LET file == FileAt(jobs[j].path)
  IN  /\ At(j, "Connect")
      /\ IF file # None
         THEN /\ jobs' = [jobs EXCEPT ![j].at = "Read", ![j].open = TRUE, ![j].data = file]
              /\ openFiles' = openFiles + 1
         ELSE /\ jobs' = [jobs EXCEPT ![j].at = "Remove", ![j].result = "failed"]
              /\ UNCHANGED openFiles
      /\ UNCHANGED <<now, cache, openJobs, buffer, calls>>

(* Transfer, one read: the data go through the shared buffer to the client. *)
Read(j) ==
  /\ At(j, "Read")
  /\ Len(calls) < MaxCalls
  /\ buffer' = jobs[j].data
  /\ jobs' = [jobs EXCEPT ![j].at = "Receiving", ![j].got = jobs[j].data]
  /\ calls' = Append(calls, j)
  /\ UNCHANGED <<now, cache, openJobs, openFiles>>

ReadFails(j) ==
  /\ At(j, "Read")
  /\ jobs' = [jobs EXCEPT ![j].at = "Disconnect", ![j].result = "failed"]
  /\ UNCHANGED <<now, cache, openJobs, openFiles, buffer, calls>>

(* DataReceived returns and the buffer is summed.                           *)
Received ==
  /\ calls # <<>>
  /\ jobs' = [jobs EXCEPT ![Last(calls)].at = "End", ![Last(calls)].sum = buffer]
  /\ calls' = Front(calls)
  /\ UNCHANGED <<now, cache, openJobs, openFiles, buffer>>

(* Mutant: the checksum is not compared.                                    *)
WrongEndUnsummed(j) ==
  /\ At(j, "End")
  /\ jobs' = [jobs EXCEPT ![j].at = "Disconnect",
                          ![j].result = IF jobs[j].key \in DOMAIN cache.map THEN "ok" ELSE "failed"]
  /\ UNCHANGED <<now, cache, openJobs, openFiles, buffer, calls>>

(* Transfer at the end of the file: the sum against the checksum of the      *)
(* entry, which may be another one by now, or gone.                          *)
End(j) ==
  LET k       == jobs[j].key
      known   == k \in DOMAIN cache.map
      suspect == known /\ cache.map[k].body # jobs[j].sum
  IN  /\ At(j, "End")
      /\ jobs' = [jobs EXCEPT ![j].at = "Disconnect",
                              ![j].result = IF known /\ ~suspect THEN "ok" ELSE "failed"]
      /\ cache' = IF suspect THEN [Invalidate(cache, k, "GET") EXCEPT !.images = {}] ELSE cache
      /\ UNCHANGED <<now, openJobs, openFiles, buffer, calls>>

(* Disconnect: the file is closed if it is open.                            *)
Closed(job) == [job EXCEPT !.open = FALSE, !.data = None]
(* Mutant: every Disconnect counts a file closed.                           *)
WrongFilesLeft(j) == openFiles - 1
FilesLeft(j) == IF jobs[j].open THEN openFiles - 1 ELSE openFiles

Disconnect(j) ==
  /\ At(j, "Disconnect")
  /\ jobs' = [jobs EXCEPT ![j] = [Closed(@) EXCEPT !.at = "ShutdownJob"]]
  /\ openFiles' = FilesLeft(j)
  /\ UNCHANGED <<now, cache, openJobs, buffer, calls>>

(* ShutdownJob, which disconnects again; a job removed before InitJob has   *)
(* nothing to shut down.  The last job takes the shared buffer with it.     *)
ShutdownJob(j) ==
  /\ At(j, "ShutdownJob") \/ At(j, "Remove")
  /\ jobs' = [jobs EXCEPT ![j] = NoJob]
  /\ openFiles' = FilesLeft(j)
  /\ openJobs' = IF jobs[j].inited THEN openJobs - 1 ELSE openJobs
  /\ buffer' = IF openJobs' <= 0 THEN None ELSE buffer
  /\ UNCHANGED <<now, cache, calls>>

(* CondemnJob of a job whose load was cancelled.                            *)
CancelJob(j) ==
  /\ Outside(j)
  /\ jobs[j].at \notin {"idle", "Remove"}
  /\ jobs' = [jobs EXCEPT ![j].at = "Remove"]
  /\ UNCHANGED <<now, cache, openJobs, openFiles, buffer, calls>>

NetworkStep == \E k \in Key, v \in Version, age \in Age : NetworkLoadDone(k, <<k, v>>, age)

JobStep(j) == \/ \E k \in Key : BeginLoad(j, k)
              \/ InitJob(j) \/ Connect(j) \/ Read(j) \/ ReadFails(j) \/ End(j)
              \/ Disconnect(j) \/ ShutdownJob(j) \/ CancelJob(j)

Next == \/ Crash \/ Tick \/ ClearAll \/ Shutdown \/ Received
        \/ \E d \in Dir, separator \in BOOLEAN, limit \in Limits : SetDiskCacheParams(d, separator, limit)
        \/ NetworkStep
        \/ \E k \in Key : Post(k)
        \/ \E j \in Job : JobStep(j)

Spec == Init /\ [][Next]_vars

-----------------------------------------------------------------------------
(* Types of all the variables, every operation's images forgotten.          *)
TypeOK == /\ now \in 0 .. MaxTime
          /\ Cache(cache)
          /\ cache.images = {}
          /\ jobs \in [Job -> FileInfo]
          /\ openJobs \in Nat /\ openFiles \in Nat
          /\ buffer \in Content \cup {None}
          /\ calls \in Seq(Job)

(* Every entry of the map has its file on the disk and shares it with no    *)
(* other: RemoveCachedFile of one entry never takes another one's file, and *)
(* ReadCacheIniFile brings no entry back without its file, whatever the     *)
(* crash that came before left.  (For one directory: naming another leaves   *)
(* the map of the old one.)                                                  *)
EntriesBacked ==
  cache.on => \A k \in DOMAIN cache.map :
    /\ Files(cache)[cache.map[k].file] # None
    /\ \A i \in DOMAIN cache.map : cache.map[i].file = cache.map[k].file => i = k

(* While the cache is on, a complete file in the directory belongs to an    *)
(* entry: no order of stores, evictions, POSTs and crashes leaves a body on *)
(* the disk that nothing will ever remove.                                  *)
NothingLeaks ==
  cache.on => \A n \in Name : Files(cache)[n] \in Body => n \in FilesOf(cache.map)

(* A load served from the cache that ends well has handed its client a body *)
(* the server gave for that very URL, even when the ini file read after a   *)
(* crash was older than the files and a name had been used again.           *)
ServesOwnBody ==
  \A j \in Job : jobs[j].result = "ok" => jobs[j].got \in Body /\ jobs[j].got[1] = jobs[j].key

(* sOpenJobCount and sOpenFileCount, which decide whether answers are       *)
(* cached and when the shared buffer is freed, are the numbers of jobs that *)
(* hold a FileInfo and an open file, through failures, cancellation and the *)
(* second Disconnect of ShutdownJob.                                        *)
OpenCounts == /\ openJobs = Cardinality({j \in Job : jobs[j].inited})
              /\ openFiles = Cardinality({j \in Job : jobs[j].open})

(* Init leaves in the directory the files of the entries it read and no     *)
(* other, those of failed writes and of older runs included.                *)
InitSweeps ==
  [][~cache.on /\ cache'.on => {n \in Name : Files(cache')[n] # None} = FilesOf(cache'.map)]_vars
=============================================================================
