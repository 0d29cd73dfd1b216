------------------------- MODULE HttpTransportProofs -------------------------
(***************************************************************************)
(* Proofs about HttpTransport: DirtySDK never calls back with a load that  *)
(* is gone, whatever the limit and the pool are; and as long as no more    *)
(* loads run at once than there are connections, every form is sent once   *)
(* and as it is, and what a load is told of its body is right.  The        *)
(* invariant counts, per connection, the loads that it was given to; the   *)
(* pigeonhole principle then finds a free one, and a load that has its     *)
(* connection alone reads its own body, piece after piece.                 *)
(***************************************************************************)
EXTENDS HttpTransport, FiniteSetTheorems, SequenceLemmas, TLAPS

-----------------------------------------------------------------------------
(* The inductive invariant.                                                  *)

LoadFields == {"at", "method", "form", "cmd", "ref", "decoder", "coding", "sized",
               "got", "uploads", "late", "cancelled"}
RefFields  == {"state", "transactions", "user", "proto", "hops", "coming", "data"}

Shaped ==
  /\ DOMAIN jobs = Job /\ DOMAIN refs = Ref
  /\ \A j \in Job : /\ DOMAIN jobs[j] = LoadFields
                    /\ jobs[j].ref \in Ref \cup {None}
                    /\ jobs[j].form \in Seq({"data", "unreadable"})
  /\ \A r \in Ref : DOMAIN refs[r] = RefFields

Users(r) == {j \in Job : jobs[j].ref = r}

Counted == \A r \in Ref : refs[r].transactions = Cardinality(Users(r))

(* Only a load that runs and has been through Connect has a connection.      *)
Placed ==
  \A j \in Job :
    /\ jobs[j].ref # None => j \in Running /\ jobs[j].at # "connect"
    /\ jobs[j].ref = None => jobs[j].uploads = <<>>

Alone ==
  overcommitted \/
  /\ Cardinality(Running) <= Cardinality(Ref)
  /\ \A j, k \in Job : jobs[j].ref = jobs[k].ref /\ jobs[j].ref # None => j = k
  /\ \A j \in Job : jobs[j].ref # None =>
       /\ refs[jobs[j].ref].state = "busy"
       /\ jobs[j].uploads = << Upload(jobs[j]) >>
       /\ jobs[j].cancelled \/ Readable(jobs[j].form) = jobs[j].form

IInv == Shaped /\ Counted /\ Placed /\ CallbackAlive /\ Alone

-----------------------------------------------------------------------------
(* Lemmas.                                                                   *)

(* A form that can be read in full and fits into the buffer is sent whole.   *)
LEMMA WholeUpload ==
  ASSUME NEW job, job.form \in Seq({"data", "unreadable"}),
         Readable(job.form) = job.form, Len(job.form) <= Room
  PROVE  Upload(job) = job.form
<1>1. Room \in Nat
  BY InputAssumption
<1>2. Len(job.form) \in Nat /\ SubSeq(job.form, 1, Len(job.form)) = job.form
  OBVIOUS
<1>3. CASE Len(job.form) < Room
  BY <1>2, <1>3 DEF Upload
<1>4. CASE Len(job.form) = Room
  BY <1>2, <1>4 DEF Upload
<1>q. QED
  BY <1>1, <1>2, <1>3, <1>4

(* The loads of a connection are finitely many.                              *)
LEMMA UsersFinite ==
  ASSUME NEW r
  PROVE  IsFiniteSet(Users(r)) /\ IsFiniteSet(Running)
<1>1. Users(r) \subseteq Job /\ Running \subseteq Job
  BY DEF Users, Running
<1>q. QED
  BY <1>1, FS_Subset, PoolAssumption

(* As long as no more loads run than there are connections, one that has     *)
(* none yet finds a connection that nobody uses.                             *)
LEMMA FreeConnection ==
  ASSUME IInv, ~overcommitted, NEW j \in Running, jobs[j].ref = None
  PROVE  \E r \in Ref : Users(r) = {}
<1>1. SUFFICES ASSUME \A r \in Ref : Users(r) # {}
               PROVE  FALSE
  OBVIOUS
<1> DEFINE Others == Running \ {j}
           f == [r \in Ref |-> CHOOSE k \in Job : jobs[k].ref = r]
<1>2. \A r \in Ref : f[r] \in Job /\ jobs[f[r]].ref = r
  BY <1>1 DEF Users
<1>3. f \in [Ref -> Others]
  BY <1>2, PoolAssumption DEF IInv, Placed
<1>4. IsFiniteSet(Running) /\ IsFiniteSet(Others) /\ Cardinality(Others) = Cardinality(Running) - 1
  BY UsersFinite, FS_RemoveElement
<1>5. Cardinality(Running) \in Nat /\ Cardinality(Ref) \in Nat
  BY <1>4, FS_CardinalityType, PoolAssumption
<1>6. Cardinality(Others) < Cardinality(Ref)
  BY <1>4, <1>5 DEF IInv, Alone
<1> HIDE DEF f, Others
<1>7. \E x, y \in Ref : x # y /\ f[x] = f[y]
  BY <1>3, <1>4, <1>6, PoolAssumption, FS_PigeonHole
<1>q. QED
  BY <1>2, <1>7

(* So the least used connection has no load.                                 *)
LEMMA LeastUsedIsFree ==
  ASSUME IInv, ~overcommitted, NEW j \in Running, jobs[j].ref = None, NEW r \in LeastUsed
  PROVE  refs[r].transactions = 0 /\ Users(r) = {}
<1>1. PICK s \in Ref : Users(s) = {}
  BY FreeConnection
<1>2. refs[s].transactions = 0
  BY <1>1, FS_EmptySet DEF IInv, Counted
<1>3. refs[r].transactions = Cardinality(Users(r)) /\ Cardinality(Users(r)) \in Nat
  BY UsersFinite, FS_CardinalityType DEF LeastUsed, IInv, Counted
<1>4. refs[r].transactions = 0
  BY <1>2, <1>3 DEF LeastUsed
<1>q. QED
  BY <1>3, <1>4, UsersFinite, FS_EmptySet

(* A step that leaves alone who has which connection, and what was sent.     *)
LEMMA QuietStep ==
  ASSUME IInv, Shaped', overcommitted' = overcommitted,
         \A j \in Job : /\ j \in Running' <=> j \in Running
                        /\ jobs'[j].at = "connect" => jobs[j].at = "connect"
                        /\ jobs'[j].ref = jobs[j].ref /\ jobs'[j].cmd = jobs[j].cmd
                        /\ jobs'[j].form = jobs[j].form /\ jobs'[j].uploads = jobs[j].uploads
                        /\ jobs[j].cancelled => jobs'[j].cancelled,
         \A r \in Ref : /\ refs'[r].state = refs[r].state /\ refs'[r].user = refs[r].user
                        /\ refs'[r].transactions = refs[r].transactions
  PROVE  IInv'
<1>1. \A r : Users(r)' = Users(r)
  BY DEF Users
<1>2. Running' = Running
  BY DEF Running
<1>3. Counted'
  BY <1>1 DEF IInv, Counted
<1>4. Placed'
  BY <1>2 DEF IInv, Placed
<1>5. CallbackAlive'
  BY <1>2 DEF IInv, CallbackAlive, Running
<1>6. \A j \in Job : Upload(jobs[j])' = Upload(jobs[j])
  BY DEF Upload
<1>7. Alone'
  BY <1>2, <1>6, PoolAssumption DEF IInv, Alone, Shaped
<1>q. QED
  BY <1>3, <1>4, <1>5, <1>7 DEF IInv

-----------------------------------------------------------------------------
(* The initial states, and the steps that only look after their own load or  *)
(* connection.                                                               *)

LEMMA InitEstablishes == Init => IInv
<1> SUFFICES ASSUME Init PROVE IInv
  OBVIOUS
<1>1. \A j \in Job : jobs[j] = NoJob("none")
  BY DEF Init
<1>2. \A j \in Job : /\ DOMAIN jobs[j] = LoadFields /\ jobs[j].ref = None /\ jobs[j].form = <<>>
                     /\ jobs[j].at = "none" /\ jobs[j].uploads = <<>>
  BY <1>1 DEF NoJob, NewJob, LoadFields
<1>3. \A r \in Ref : DOMAIN refs[r] = RefFields /\ refs[r].state = "idle" /\ refs[r].transactions = 0
  BY DEF Init, NewRef, RefFields
<1>4. Shaped
  <2>1. <<>> \in Seq({"data", "unreadable"})
    OBVIOUS
  <2>q. QED
    BY <1>2, <1>3, <2>1 DEF Init, Shaped
<1>5. \A r \in Ref : Users(r) = {}
  BY <1>2, PoolAssumption DEF Users
<1>6. Counted
  BY <1>3, <1>5, FS_EmptySet DEF Counted
<1>7. Placed /\ CallbackAlive
  BY <1>2, <1>3 DEF Placed, CallbackAlive
<1>8. Running = {}
  BY <1>2 DEF Running
<1>9. Cardinality(Running) <= Cardinality(Ref)
  BY <1>8, FS_EmptySet, FS_CardinalityType, PoolAssumption
<1>q. QED
  BY <1>2, <1>4, <1>6, <1>7, <1>9 DEF IInv, Alone

LEMMA CancelKeeps ==
  ASSUME IInv, NEW j \in Job, Cancel(j)
  PROVE  IInv'
<1>1. Shaped'
  BY DEF IInv, Shaped, Cancel, LoadFields
<1>q. QED
  BY <1>1, QuietStep DEF IInv, Shaped, Cancel, LoadFields, Running

LEMMA DeadlineKeeps ==
  ASSUME IInv, NEW j \in Job, DeadlinePasses(j)
  PROVE  IInv'
<1>1. Shaped'
  BY DEF IInv, Shaped, DeadlinePasses, LoadFields
<1>q. QED
  BY <1>1, QuietStep DEF IInv, Shaped, DeadlinePasses, LoadFields, Running

LEMMA ParametersKeep ==
  ASSUME IInv, SetParameters
  PROVE  IInv'
<1>1. Shaped'
  BY DEF IInv, Shaped, SetParameters
<1>q. QED
  BY <1>1, QuietStep DEF SetParameters, Running

LEMMA DisconnectKeeps ==
  ASSUME IInv, NEW j \in Job, Disconnect(j)
  PROVE  IInv'
<1>1. Shaped'
  BY DEF IInv, Shaped, Disconnect, LoadFields
<1>q. QED
  BY <1>1, QuietStep DEF IInv, Shaped, Disconnect, LoadFields, Running

(* What the network does to a connection that is busy.                       *)
LEMMA UpdateKeeps ==
  ASSUME IInv, NEW r \in Ref, Update(r)
  PROVE  IInv'
<1>1. refs[r].state = "busy" /\ refs[r].user \in Job
  BY DEF IInv, CallbackAlive, Running, Update, Updating, Respond, Redirect, Arrive, ServerCloses,
         ConnectionFails
<1>2. ASSUME NEW coding, NEW sized, RecvHeader(r, coding, sized)
      PROVE  /\ DOMAIN jobs' = Job
             /\ \A j \in Job : /\ DOMAIN jobs'[j] = LoadFields
                               /\ jobs'[j].at = jobs[j].at /\ jobs'[j].ref = jobs[j].ref
                               /\ jobs'[j].cmd = jobs[j].cmd /\ jobs'[j].form = jobs[j].form
                               /\ jobs'[j].uploads = jobs[j].uploads
                               /\ jobs'[j].cancelled = jobs[j].cancelled
  BY <1>1, <1>2 DEF RecvHeader, IInv, Shaped, LoadFields
<1>3. ASSUME NEW e, DOMAIN e = RefFields, e.state = refs[r].state, e.user = refs[r].user,
             e.transactions = refs[r].transactions, refs' = [refs EXCEPT ![r] = e]
      PROVE  /\ DOMAIN refs' = Ref
             /\ \A x \in Ref : /\ DOMAIN refs'[x] = RefFields
                               /\ refs'[x].state = refs[x].state /\ refs'[x].user = refs[x].user
                               /\ refs'[x].transactions = refs[x].transactions
  BY <1>3 DEF IInv, Shaped
<1>4. CASE Respond(r)
  <2>1. PICK coding \in Codings[refs[r].user], sized \in BOOLEAN :
          /\ RecvHeader(r, coding, sized)
          /\ refs' = [refs EXCEPT ![r] =
               IF jobs[refs[r].user].method = "HEAD" THEN [refs[r] EXCEPT !.proto = "done"]
               ELSE [refs[r] EXCEPT !.proto = "body", !.coming = Stream(coding, refs[r].user)]]
    BY <1>4 DEF Respond, IInv, Shaped
  <2>2. PICK e : /\ refs' = [refs EXCEPT ![r] = e]
                 /\ e \in { [refs[r] EXCEPT !.proto = "done"],
                            [refs[r] EXCEPT !.proto = "body", !.coming = Stream(coding, refs[r].user)] }
    BY <2>1
  <2>3. /\ DOMAIN e = RefFields /\ e.state = refs[r].state /\ e.user = refs[r].user
        /\ e.transactions = refs[r].transactions
    BY <2>2 DEF IInv, Shaped, RefFields
  <2>q. QED
    BY <1>2, <1>3, <1>4, <2>1, <2>2, <2>3, QuietStep DEF IInv, Shaped, Running, Respond
<1>5. CASE Redirect(r)
  <2>1. PICK coding : RecvHeader(r, coding, TRUE)
    BY <1>5 DEF Redirect
  <2>0. DOMAIN refs = Ref /\ DOMAIN refs[r] = RefFields
    BY DEF IInv, Shaped
  <2>2. PICK e : /\ refs' = [refs EXCEPT ![r] = e]
                 /\ e \in { [refs[r] EXCEPT !.hops = refs[r].hops + 1], [refs[r] EXCEPT !.proto = "fail"] }
    BY <1>5, <2>0 DEF Redirect
  <2>3. /\ DOMAIN e = RefFields /\ e.state = refs[r].state /\ e.user = refs[r].user
        /\ e.transactions = refs[r].transactions
    BY <2>2, <2>0 DEF RefFields
  <2>4. overcommitted' = overcommitted
    BY <1>5 DEF Redirect
  <2>5. \A x \in Ref : DOMAIN refs'[x] = RefFields
    BY <1>3, <2>2, <2>3
  <2>q. QED
    BY <1>2, <1>3, <2>4, <2>5, <2>1, <2>2, <2>3, QuietStep DEF IInv, Shaped, Running
<1>6. CASE Arrive(r) \/ ServerCloses(r) \/ ConnectionFails(r)
  <2>0. DOMAIN refs = Ref /\ DOMAIN refs[r] = RefFields
    BY DEF IInv, Shaped
  <2>1. PICK e : /\ refs' = [refs EXCEPT ![r] = e]
                 /\ DOMAIN e = RefFields /\ e.state = refs[r].state /\ e.user = refs[r].user
                 /\ e.transactions = refs[r].transactions
    <3>1. CASE Arrive(r)
      <4>1. PICK n : refs' = [refs EXCEPT
              ![r].data = refs[r].data \o SubSeq(refs[r].coming, 1, n),
              ![r].coming = SubSeq(refs[r].coming, n + 1, Len(refs[r].coming)),
              ![r].proto = IF n = Len(refs[r].coming) THEN "done" ELSE "body"]
        BY <3>1 DEF Arrive
      <4>2. refs' = [refs EXCEPT ![r] = refs'[r]]
        BY <4>1, <2>0
      <4>3. /\ DOMAIN refs'[r] = RefFields /\ refs'[r].state = refs[r].state
            /\ refs'[r].user = refs[r].user /\ refs'[r].transactions = refs[r].transactions
        BY <4>1, <2>0 DEF RefFields
      <4>q. QED
        BY <4>2, <4>3
    <3>2. CASE ServerCloses(r)
      <4>1. PICK v : refs' = [refs EXCEPT ![r].coming = <<>>, ![r].proto = v]
        BY <3>2 DEF ServerCloses
      <4>2. refs' = [refs EXCEPT ![r] = refs'[r]]
        BY <4>1, <2>0
      <4>3. /\ DOMAIN refs'[r] = RefFields /\ refs'[r].state = refs[r].state
            /\ refs'[r].user = refs[r].user /\ refs'[r].transactions = refs[r].transactions
        BY <4>1, <2>0 DEF RefFields
      <4>q. QED
        BY <4>2, <4>3
    <3>3. CASE ConnectionFails(r)
      <4>1. refs' = [refs EXCEPT ![r].proto = "fail"]
        BY <3>3 DEF ConnectionFails
      <4>2. refs' = [refs EXCEPT ![r] = refs'[r]]
        BY <4>1, <2>0
      <4>3. /\ DOMAIN refs'[r] = RefFields /\ refs'[r].state = refs[r].state
            /\ refs'[r].user = refs[r].user /\ refs'[r].transactions = refs[r].transactions
        BY <4>1, <2>0 DEF RefFields
      <4>q. QED
        BY <4>2, <4>3
    <3>q. QED
      BY <1>6, <3>1, <3>2, <3>3
  <2>2. jobs' = jobs /\ overcommitted' = overcommitted
    BY <1>6 DEF Arrive, ServerCloses, ConnectionFails
  <2>q. QED
    BY <1>3, <2>1, <2>2, QuietStep DEF IInv, Shaped, Running
<1>q. QED
  BY <1>4, <1>5, <1>6 DEF Update

(* What Transfer makes of it.                                                *)
LEMMA TransferKeeps ==
  ASSUME IInv, NEW j \in Job, Transfer(j)
  PROVE  IInv'
<1>0. DOMAIN jobs = Job /\ DOMAIN refs = Ref /\ DOMAIN jobs[j] = LoadFields
  BY DEF IInv, Shaped
<1> DEFINE Touched(at) ==
             /\ jobs' = [jobs EXCEPT ![j] = jobs'[j]]
             /\ DOMAIN jobs'[j] = LoadFields /\ jobs'[j].at = at
             /\ jobs'[j].ref = jobs[j].ref /\ jobs'[j].cmd = jobs[j].cmd
             /\ jobs'[j].form = jobs[j].form /\ jobs'[j].uploads = jobs[j].uploads
             /\ jobs'[j].cancelled = jobs[j].cancelled
<1>1. ASSUME Fail(j)
      PROVE  Touched("failed")
  <2>1. jobs' = [jobs EXCEPT ![j].at = "failed"]
    BY <1>1 DEF Fail
  <2>q. QED
    BY <2>1, <1>0 DEF LoadFields
<1>2. ASSUME NEW got, NEW decoder, NEW at,
             jobs' = [jobs EXCEPT ![j].got = got, ![j].decoder = decoder, ![j].at = at]
      PROVE  Touched(at)
  BY <1>2, <1>0 DEF LoadFields
<1>3. \E at \in {"failed", "disconnect", "transfer"} : Touched(at)
  <2>1. CASE TransferWaits(j) \/ TransferFails(j)
    BY <2>1, <1>1 DEF TransferWaits, TransferFails
  <2>2. CASE TransferData(j)
    <3> DEFINE s       == refs[jobs[j].ref].data
               ended   == refs[jobs[j].ref].proto = "done"
               got     == jobs[j].got \o Decoded(jobs[j].decoder, s)
               decoder == IF s # <<>> /\ jobs[j].decoder = "gzip" THEN "inflate" ELSE jobs[j].decoder
               at      == CASE ended -> "disconnect"
                            [] ~ended /\ jobs[j].late -> "failed"
                            [] OTHER -> "transfer"
    <3>1. Fail(j) \/ jobs' = [jobs EXCEPT ![j].got = got, ![j].decoder = decoder, ![j].at = at]
      BY <2>2 DEF TransferData
    <3>2. at \in {"failed", "disconnect", "transfer"}
      OBVIOUS
    <3> HIDE DEF got, decoder, at
    <3>q. QED
      BY <3>1, <3>2, <1>1, <1>2
  <2>q. QED
    BY <2>1, <2>2 DEF Transfer
<1>4. /\ DOMAIN refs' = Ref
      /\ \A x \in Ref : /\ DOMAIN refs'[x] = RefFields
                        /\ refs'[x].state = refs[x].state /\ refs'[x].user = refs[x].user
                        /\ refs'[x].transactions = refs[x].transactions
  <2>1. CASE refs' = refs
    BY <2>1 DEF IInv, Shaped
  <2>2. CASE refs' = [refs EXCEPT ![jobs[j].ref].data = <<>>]
    BY <2>2, <1>0 DEF IInv, Shaped, RefFields
  <2>q. QED
    BY <2>1, <2>2 DEF Transfer, TransferWaits, TransferFails, TransferData
<1>5. jobs[j].at = "transfer" /\ overcommitted' = overcommitted
  BY DEF Transfer
<1>q. QED
  BY <1>3, <1>4, <1>5, QuietStep DEF IInv, Shaped, Running

-----------------------------------------------------------------------------
(* The steps that give connections to loads and take them back.              *)

LEMMA InitJobKeeps ==
  ASSUME IInv, NEW j \in Job, InitJob(j)
  PROVE  IInv'
<1>0. DOMAIN jobs = Job /\ jobs[j].at = "none" /\ refs' = refs
  BY DEF IInv, Shaped, InitJob
<1>1. PICK e : /\ jobs' = [jobs EXCEPT ![j] = e]
               /\ DOMAIN e = LoadFields /\ e.at = "connect" /\ e.ref = None /\ e.uploads = <<>>
               /\ e.form \in Seq({"data", "unreadable"})
  <2>1. PICK m \in Methods[j], f \in Forms \cup {<<>>} : jobs' = [jobs EXCEPT ![j] = NewJob(m, f)]
    BY DEF InitJob
  <2>2. <<>> \in Seq({"data", "unreadable"})
    OBVIOUS
  <2> DEFINE e == NewJob(m, f)
  <2>3. /\ DOMAIN e = LoadFields /\ e.at = "connect" /\ e.ref = None /\ e.uploads = <<>>
        /\ e.form = f
    BY DEF NewJob, LoadFields
  <2>4. f \in Seq({"data", "unreadable"})
    BY <2>2, InputAssumption
  <2> HIDE DEF e
  <2>q. QED
    BY <2>1, <2>3, <2>4 DEF e
<1>2. Shaped'
  BY <1>0, <1>1 DEF IInv, Shaped
<1>3. jobs[j].ref = None
  BY <1>0 DEF IInv, Placed, Running
<1>4. \A r \in Ref : Users(r)' = Users(r)
  BY <1>0, <1>1, <1>3 DEF Users
<1>5. Counted'
  BY <1>0, <1>4 DEF IInv, Counted
<1>6. Running' = Running \cup {j} /\ j \notin Running
  BY <1>0, <1>1 DEF Running
<1>7. Placed'
  BY <1>0, <1>1, <1>6 DEF IInv, Placed
<1>8. CallbackAlive'
  <2>1. SUFFICES ASSUME NEW r \in Ref, refs[r].state = "busy"
                 PROVE  /\ refs[r].user \in Running' /\ jobs'[refs[r].user].cmd = "active"
                        /\ jobs'[refs[r].user].ref = r
    BY <1>0 DEF CallbackAlive
  <2>2. refs[r].user \in Running /\ refs[r].user \in Job /\ refs[r].user # j
    BY <2>1, <1>6 DEF IInv, CallbackAlive, Running
  <2>q. QED
    BY <2>1, <2>2, <1>0, <1>1, <1>6 DEF IInv, CallbackAlive
<1>9. Alone'
  <2>1. SUFFICES ASSUME ~overcommitted'
                 PROVE  Alone'
    BY DEF Alone
  <2>2. ~overcommitted /\ ~(Cardinality(Running) >= Cardinality(Ref))
    BY <2>1 DEF InitJob
  <2>3. Cardinality(Running') = Cardinality(Running) + 1
    BY <1>6, UsersFinite, FS_AddElement
  <2>4. Cardinality(Running') <= Cardinality(Ref)
    BY <2>2, <2>3, UsersFinite, FS_CardinalityType, PoolAssumption
  <2>5. \A k \in Job : /\ jobs'[k].ref # None => k # j /\ jobs'[k] = jobs[k]
    BY <1>0, <1>1
  <2>6. \A k \in Job : Upload(jobs'[k]) = Upload(jobs[k]) \/ k = j
    BY <1>0, <1>1
  <2>7. Alone
    BY DEF IInv
  <2>q. QED
    BY <2>2, <2>4, <2>5, <2>7, <1>0 DEF Alone
<1>q. QED
  BY <1>2, <1>5, <1>7, <1>8, <1>9 DEF IInv

LEMMA ConnectKeeps ==
  ASSUME IInv, NEW j \in Job, Connect(j)
  PROVE  IInv'
<1>0. /\ DOMAIN jobs = Job /\ DOMAIN refs = Ref /\ DOMAIN jobs[j] = LoadFields
      /\ jobs[j].at = "connect" /\ overcommitted' = overcommitted
  BY DEF IInv, Shaped, Connect
<1>1. CASE jobs' = [jobs EXCEPT ![j].at = "transfer"] /\ refs' = refs
  <2>1. Shaped'
    BY <1>0, <1>1 DEF IInv, Shaped, LoadFields
  <2>q. QED
    BY <2>1, <1>0, <1>1, QuietStep DEF Running, LoadFields
<1>2. ASSUME NEW r \in LeastUsed, Request(j, r)
      PROVE  IInv'
  <2> DEFINE read == [ReadData(jobs[j]) EXCEPT !.at = "transfer", !.ref = r]
             ref  == [refs[r] EXCEPT !.transactions = refs[r].transactions + 1]
  <2>1. /\ r \in Ref /\ r # None /\ jobs[j].ref = None /\ jobs[j].uploads = <<>> /\ j \in Running
        /\ DOMAIN refs[r] = RefFields
    BY <1>0, PoolAssumption DEF LeastUsed, IInv, Placed, Running, Shaped
  <2>2. /\ DOMAIN read = LoadFields /\ read.at = "transfer" /\ read.ref = r
        /\ read.form = jobs[j].form /\ read.uploads = <<>>
        /\ read.cancelled <=> jobs[j].cancelled \/ Readable(jobs[j].form) # jobs[j].form
    BY <1>0, <2>1 DEF ReadData, LoadFields
  <2>3. /\ DOMAIN ref = RefFields /\ ref.transactions = refs[r].transactions + 1
        /\ ref.state = refs[r].state /\ ref.user = refs[r].user
    BY <2>1 DEF RefFields
  <2>5. \/ /\ refs[r].transactions = 0
           /\ jobs' = [jobs EXCEPT ![j] = Issued(read, Upload(read))]
           /\ refs' = [refs EXCEPT ![r] = Begun(ref, j)]
        \/ /\ refs[r].transactions # 0
           /\ jobs' = [jobs EXCEPT ![j] = [read EXCEPT !.cmd = "waiting"]]
           /\ refs' = [refs EXCEPT ![r] = ref]
    <3>1. refs[r].transactions \in Nat
      BY <2>1, UsersFinite, FS_CardinalityType DEF IInv, Counted
    <3>2. IF ref.transactions = 1
          THEN /\ jobs' = [jobs EXCEPT ![j] = Issued(read, Upload(read))]
               /\ refs' = [refs EXCEPT ![r] = Begun(ref, j)]
          ELSE /\ jobs' = [jobs EXCEPT ![j] = [read EXCEPT !.cmd = "waiting"]]
               /\ refs' = [refs EXCEPT ![r] = ref]
      BY <1>2 DEF Request
    <3> HIDE DEF read, ref
    <3>q. QED
      BY <2>3, <3>1, <3>2
  <2> HIDE DEF read, ref
  <2>4. Upload(read) = Upload(jobs[j])
    BY <2>2 DEF Upload
  <2>6. /\ DOMAIN jobs' = Job /\ \A k \in Job \ {j} : jobs'[k] = jobs[k]
        /\ DOMAIN jobs'[j] = LoadFields /\ jobs'[j].at = "transfer" /\ jobs'[j].ref = r
        /\ jobs'[j].form = jobs[j].form /\ jobs'[j].cancelled = read.cancelled
    <3> DEFINE e == IF refs[r].transactions = 0 THEN Issued(read, Upload(read))
                                                ELSE [read EXCEPT !.cmd = "waiting"]
    <3>1. /\ DOMAIN e = LoadFields /\ e.at = "transfer" /\ e.ref = r
          /\ e.form = jobs[j].form /\ e.cancelled = read.cancelled
      <4>1. CASE refs[r].transactions = 0
        BY <4>1, <2>2 DEF Issued, LoadFields
      <4>2. CASE refs[r].transactions # 0
        BY <4>2, <2>2 DEF LoadFields
      <4>q. QED
        BY <4>1, <4>2
    <3>2. jobs' = [jobs EXCEPT ![j] = e]
      BY <2>5
    <3> HIDE DEF e
    <3>q. QED
      BY <1>0, <3>1, <3>2
  <2>7. /\ DOMAIN refs' = Ref /\ \A x \in Ref \ {r} : refs'[x] = refs[x]
        /\ DOMAIN refs'[r] = RefFields /\ refs'[r].transactions = refs[r].transactions + 1
    BY <1>0, <2>1, <2>3, <2>5 DEF Begun, RefFields
  <2>8. \/ refs[r].transactions = 0 /\ jobs'[j].cmd = "active" /\ refs'[r].user = j
           /\ refs'[r].state = "busy" /\ jobs'[j].uploads = << Upload(jobs[j]) >>
        \/ refs[r].transactions # 0 /\ refs'[r].user = refs[r].user
           /\ refs'[r].state = refs[r].state
    <3>1. CASE refs[r].transactions = 0
      <4>1. jobs'[j] = Issued(read, Upload(read)) /\ refs'[r] = Begun(ref, j)
        BY <1>0, <2>1, <2>5, <3>1
      <4>2. Append(<<>>, Upload(read)) = << Upload(jobs[j]) >>
        BY <2>4
      <4>3. jobs'[j].cmd = "active" /\ jobs'[j].uploads = Append(<<>>, Upload(read))
        BY <4>1, <2>2 DEF Issued, LoadFields
      <4>4. refs'[r].user = j /\ refs'[r].state = "busy"
        BY <4>1, <2>3 DEF Begun, RefFields
      <4>q. QED
        BY <3>1, <4>2, <4>3, <4>4
    <3>2. CASE refs[r].transactions # 0
      BY <3>2, <1>0, <2>1, <2>3, <2>5
    <3>q. QED
      BY <3>1, <3>2
  <2>9. Shaped'
    BY <2>1, <2>6, <2>7 DEF IInv, Shaped
  <2>10. Users(r)' = Users(r) \cup {j} /\ j \notin Users(r)
    BY <2>1, <2>6 DEF Users
  <2>11. \A x \in Ref \ {r} : Users(x)' = Users(x)
    BY <2>1, <2>6, PoolAssumption DEF Users
  <2>12. Counted'
    BY <2>1, <2>7, <2>10, <2>11, UsersFinite, FS_AddElement DEF IInv, Counted
  <2>13. Running' = Running
    BY <1>0, <2>6 DEF Running
  <2>14. Placed'
    BY <2>1, <2>6, <2>13 DEF IInv, Placed
  <2>15. CallbackAlive'
    <3>1. SUFFICES ASSUME NEW x \in Ref, refs'[x].state = "busy"
                   PROVE  /\ refs'[x].user \in Running /\ jobs'[refs'[x].user].cmd = "active"
                          /\ jobs'[refs'[x].user].ref = x
      BY <2>13 DEF CallbackAlive
    <3>2. CASE x = r /\ refs[r].transactions = 0
      BY <3>2, <2>1, <2>6, <2>8
    <3>3. CASE ~(x = r /\ refs[r].transactions = 0)
      <4>1. refs'[x].user = refs[x].user /\ refs[x].state = "busy"
        BY <3>1, <3>3, <2>7, <2>8
      <4>2. /\ refs[x].user \in Running /\ jobs[refs[x].user].cmd = "active"
            /\ jobs[refs[x].user].ref = x
        BY <4>1 DEF IInv, CallbackAlive
      <4>3. refs[x].user \in Job \ {j}
        BY <4>2, <2>1, PoolAssumption DEF Running
      <4>q. QED
        BY <4>1, <4>2, <4>3, <2>6
    <3>q. QED
      BY <3>2, <3>3
  <2>16. Alone'
    <3>1. SUFFICES ASSUME ~overcommitted
                   PROVE  Alone'
      BY <1>0 DEF Alone
    <3>2. refs[r].transactions = 0 /\ Users(r) = {}
      BY <2>1, <3>1, LeastUsedIsFree
    <3>3. \A k \in Job \ {j} : jobs[k].ref # r
      BY <3>2 DEF Users
    <3>4. Alone
      BY DEF IInv
    <3>5. Cardinality(Running') <= Cardinality(Ref)
      BY <2>13, <3>1, <3>4 DEF Alone
    <3>6. \A k, l \in Job : jobs'[k].ref = jobs'[l].ref /\ jobs'[k].ref # None => k = l
      BY <2>6, <3>1, <3>3, <3>4 DEF Alone
    <3>7. ASSUME NEW k \in Job, jobs'[k].ref # None
          PROVE  /\ refs'[jobs'[k].ref].state = "busy"
                 /\ jobs'[k].uploads = << Upload(jobs'[k]) >>
                 /\ jobs'[k].cancelled \/ Readable(jobs'[k].form) = jobs'[k].form
      <4>1. CASE k = j
        <5>1. Upload(jobs'[j]) = Upload(jobs[j])
          BY <2>6 DEF Upload
        <5>q. QED
          BY <4>1, <5>1, <3>2, <2>2, <2>6, <2>8
      <4>2. CASE k # j
        <5>1. jobs'[k] = jobs[k] /\ jobs[k].ref \in Ref \ {r}
          BY <4>2, <2>6, <3>3, <3>7 DEF IInv, Shaped
        <5>q. QED
          BY <5>1, <2>7, <3>1, <3>4, <3>7 DEF Alone
      <4>q. QED
        BY <4>1, <4>2
    <3>q. QED
      BY <3>5, <3>6, <3>7 DEF Alone
  <2>q. QED
    BY <2>9, <2>12, <2>14, <2>15, <2>16 DEF IInv
<1>q. QED
  BY <1>1, <1>2 DEF Connect

LEMMA StartQueuedKeeps ==
  ASSUME IInv, NEW r \in Ref, StartQueued(r)
  PROVE  IInv'
<1>0. /\ DOMAIN jobs = Job /\ DOMAIN refs = Ref /\ DOMAIN refs[r] = RefFields
      /\ refs[r].state = "idle" /\ overcommitted' = overcommitted /\ r # None
  BY PoolAssumption DEF IInv, Shaped, StartQueued
<1>1. PICK j \in Job : /\ jobs[j].ref = r
                       /\ jobs' = [jobs EXCEPT ![j] = Issued(jobs[j], <<>>)]
                       /\ refs' = [refs EXCEPT ![r] = Begun(refs[r], j)]
  BY <1>0 DEF StartQueued
<1>2. overcommitted
  BY <1>0, <1>1 DEF IInv, Alone
<1>3. /\ DOMAIN jobs' = Job /\ \A k \in Job \ {j} : jobs'[k] = jobs[k]
      /\ DOMAIN jobs'[j] = LoadFields /\ jobs'[j].at = jobs[j].at /\ jobs'[j].ref = r
      /\ jobs'[j].form = jobs[j].form /\ jobs'[j].cmd = "active"
  BY <1>0, <1>1 DEF Issued, IInv, Shaped, LoadFields
<1>4. /\ DOMAIN refs' = Ref /\ \A x \in Ref \ {r} : refs'[x] = refs[x]
      /\ DOMAIN refs'[r] = RefFields /\ refs'[r].transactions = refs[r].transactions
      /\ refs'[r].user = j
  BY <1>0, <1>1 DEF Begun, RefFields
<1>5. Shaped'
  BY <1>3, <1>4 DEF IInv, Shaped
<1>6. \A x : Users(x)' = Users(x)
  BY <1>1, <1>3 DEF Users
<1>7. Counted'
  BY <1>4, <1>6 DEF IInv, Counted
<1>8. Running' = Running
  BY <1>3 DEF Running
<1>9. Placed'
  BY <1>0, <1>1, <1>3, <1>8 DEF IInv, Placed
<1>10. CallbackAlive'
  <2>1. j \in Running
    BY <1>0, <1>1 DEF IInv, Placed
  <2>2. SUFFICES ASSUME NEW x \in Ref \ {r}, refs[x].state = "busy"
                 PROVE  /\ refs[x].user \in Running /\ jobs'[refs[x].user].cmd = "active"
                        /\ jobs'[refs[x].user].ref = x
    BY <2>1, <1>3, <1>4, <1>8 DEF CallbackAlive
  <2>3. /\ refs[x].user \in Running /\ jobs[refs[x].user].cmd = "active"
        /\ jobs[refs[x].user].ref = x
    BY <2>2 DEF IInv, CallbackAlive
  <2>q. QED
    BY <2>3, <1>1, <1>3 DEF Running
<1>q. QED
  BY <1>0, <1>2, <1>5, <1>7, <1>9, <1>10 DEF IInv, Alone

LEMMA ShutdownJobKeeps ==
  ASSUME IInv, NEW j \in Job, ShutdownJob(j)
  PROVE  IInv'
<1>0. /\ DOMAIN jobs = Job /\ DOMAIN refs = Ref /\ j \in Running /\ overcommitted' = overcommitted
      /\ jobs' = [jobs EXCEPT ![j] = NoJob("over")]
      /\ refs' = [x \in Ref |-> IF x = jobs[j].ref THEN Freed(refs[x]) ELSE refs[x]]
  BY DEF IInv, Shaped, ShutdownJob, Running
<1>1. /\ DOMAIN jobs' = Job /\ \A k \in Job \ {j} : jobs'[k] = jobs[k]
      /\ DOMAIN jobs'[j] = LoadFields /\ jobs'[j].at = "over" /\ jobs'[j].ref = None
      /\ jobs'[j].form = <<>> /\ jobs'[j].uploads = <<>>
  BY <1>0 DEF NoJob, NewJob, LoadFields
<1>2. /\ DOMAIN refs' = Ref
      /\ \A x \in Ref : /\ DOMAIN refs'[x] = RefFields
                        /\ x # jobs[j].ref => refs'[x] = refs[x]
                        /\ x = jobs[j].ref => /\ refs'[x].state = "idle"
                                              /\ refs'[x].transactions = refs[x].transactions - 1
  BY <1>0 DEF Freed, IInv, Shaped, RefFields
<1>3. Shaped'
  <2>1. <<>> \in Seq({"data", "unreadable"})
    OBVIOUS
  <2>q. QED
    BY <2>1, <1>1, <1>2 DEF IInv, Shaped
<1>4. \A x \in Ref : Users(x)' = Users(x) \ {j}
  BY <1>1, PoolAssumption DEF Users
<1>5. Counted'
  <2>1. SUFFICES ASSUME NEW x \in Ref
                 PROVE  refs'[x].transactions = Cardinality(Users(x)')
    BY DEF Counted
  <2>2. CASE x = jobs[j].ref
    <3>1. j \in Users(x)
      BY <2>2, <1>0 DEF Users, Running
    <3>q. QED
      BY <2>2, <3>1, <1>2, <1>4, UsersFinite, FS_RemoveElement DEF IInv, Counted
  <2>3. CASE x # jobs[j].ref
    <3>1. Users(x)' = Users(x)
      BY <2>3, <1>4 DEF Users
    <3>q. QED
      BY <2>3, <3>1, <1>2 DEF IInv, Counted
  <2>q. QED
    BY <2>2, <2>3
<1>6. Running' = Running \ {j}
  BY <1>1 DEF Running
<1>7. Placed'
  BY <1>1, <1>6 DEF IInv, Placed
<1>8. CallbackAlive'
  <2>1. SUFFICES ASSUME NEW x \in Ref, refs'[x].state = "busy"
                 PROVE  /\ refs'[x].user \in Running' /\ jobs'[refs'[x].user].cmd = "active"
                        /\ jobs'[refs'[x].user].ref = x
    BY DEF CallbackAlive
  <2>2. x # jobs[j].ref /\ refs'[x] = refs[x]
    BY <2>1, <1>2
  <2>3. /\ refs[x].user \in Running /\ jobs[refs[x].user].cmd = "active"
        /\ jobs[refs[x].user].ref = x
    BY <2>1, <2>2 DEF IInv, CallbackAlive
  <2>4. refs[x].user \in Job \ {j}
    BY <2>2, <2>3 DEF Running
  <2>q. QED
    BY <2>2, <2>3, <2>4, <1>1, <1>6
<1>9. Alone'
  <2>1. SUFFICES ASSUME ~overcommitted
                 PROVE  Alone'
    BY <1>0 DEF Alone
  <2>2. Alone
    BY DEF IInv
  <2>3. Cardinality(Running') <= Cardinality(Ref)
    <3>1. Cardinality(Running') = Cardinality(Running) - 1
      BY <1>0, <1>6, UsersFinite, FS_RemoveElement
    <3>2. Cardinality(Running) \in Nat /\ Cardinality(Ref) \in Nat
      BY UsersFinite, FS_CardinalityType, PoolAssumption
    <3>q. QED
      BY <2>1, <2>2, <3>1, <3>2 DEF Alone
  <2>4. ASSUME NEW k \in Job, jobs'[k].ref # None
        PROVE  /\ k # j /\ jobs'[k] = jobs[k] /\ jobs[k].ref \in Ref /\ jobs[k].ref # jobs[j].ref
               /\ refs'[jobs[k].ref] = refs[jobs[k].ref]
    <3>1. k # j /\ jobs'[k] = jobs[k] /\ jobs[k].ref \in Ref
      BY <2>4, <1>1 DEF IInv, Shaped
    <3>2. jobs[k].ref # jobs[j].ref
      BY <3>1, <2>1, <2>2, <2>4, <1>0 DEF Alone, Running
    <3>q. QED
      BY <3>1, <3>2, <1>2
  <2>q. QED
    BY <2>1, <2>2, <2>3, <2>4 DEF Alone
<1>q. QED
  BY <1>3, <1>5, <1>7, <1>8, <1>9 DEF IInv

-----------------------------------------------------------------------------
(* The theorems.                                                             *)

LEMMA StepKeeps == IInv /\ [Next]_vars => IInv'
<1> SUFFICES ASSUME IInv, [Next]_vars PROVE IInv'
  OBVIOUS
<1>1. ASSUME NEW j \in Job, InitJob(j) \/ Cancel(j) \/ DeadlinePasses(j) \/ Handle(j)
      PROVE  IInv'
  BY <1>1, InitJobKeeps, CancelKeeps, DeadlineKeeps, ConnectKeeps, TransferKeeps, DisconnectKeeps,
     ShutdownJobKeeps DEF Handle
<1>2. ASSUME NEW r \in Ref, StartQueued(r) \/ Update(r)
      PROVE  IInv'
  BY <1>2, StartQueuedKeeps, UpdateKeeps
<1>3. CASE UNCHANGED vars
  <2>1. Shaped'
    BY <1>3 DEF IInv, Shaped, vars
  <2>q. QED
    BY <2>1, <1>3, QuietStep DEF vars, Running
<1>q. QED
  BY <1>1, <1>2, <1>3, ParametersKeep DEF Next

(* DirtySDK calls back with a load that is still there and has the           *)
(* connection, for any number of loads and connections, any limit on the     *)
(* loads that run at once and any change of it, and any order in which loads *)
(* wait for a connection, take it over and leave it (ShutdownJob,            *)
(* HttpManagerFree, HttpManagerUpdate).                                      *)
THEOREM CallbacksAlive == Spec => []CallbackAlive
<1>1. IInv => CallbackAlive
  BY DEF IInv
<1>q. QED
  BY InitEstablishes, StepKeeps, <1>1, PTL DEF Spec

(* As long as no more loads run at once than the pool has connections, a     *)
(* form is sent once and, unless its load is cancelled or it is too long for *)
(* the buffer, as it is: every load finds a connection of its own, for the   *)
(* loads without one are fewer than the connections (pigeonhole).            *)
THEOREM UploadsAreWhole == Spec => []UploadIsWhole
<1>1. IInv => UploadIsWhole
  <2> SUFFICES ASSUME IInv, ~overcommitted, NEW j \in Job
               PROVE  /\ Len(jobs[j].uploads) <= 1
                      /\ \A n \in 1..Len(jobs[j].uploads) :
                           \/ jobs[j].uploads[n] = jobs[j].form
                           \/ jobs[j].cancelled \/ Len(jobs[j].form) > Room
    BY DEF UploadIsWhole
  <2>1. CASE jobs[j].ref = None
    BY <2>1 DEF IInv, Placed
  <2>2. CASE jobs[j].ref # None
    <3>1. /\ jobs[j].uploads = << Upload(jobs[j]) >>
          /\ jobs[j].cancelled \/ Readable(jobs[j].form) = jobs[j].form
      BY <2>2 DEF IInv, Alone
    <3>2. jobs[j].form \in Seq({"data", "unreadable"}) /\ Room \in Nat
      BY InputAssumption DEF IInv, Shaped
    <3>3. Len(jobs[j].form) \in Nat
      BY <3>2
    <3>4. Len(jobs[j].uploads) = 1 /\ jobs[j].uploads[1] = Upload(jobs[j])
      BY <3>1
    <3>q. QED
      BY <3>1, <3>2, <3>3, <3>4, WholeUpload
  <2>q. QED
    BY <2>1, <2>2
<1>q. QED
  BY InitEstablishes, StepKeeps, <1>1, PTL DEF Spec

-----------------------------------------------------------------------------
(* The operators on forms and bodies.                                        *)

Clear(form) == {n \in 1..Len(form) : \A i \in 1..n : form[i] = "data"}

(* What is handed out of a form is its longest part in front that is data.   *)
LEMMA ReadableIs ==
  ASSUME NEW S, NEW form \in Seq(S)
  PROVE  /\ Cardinality(Clear(form)) \in 0..Len(form)
         /\ Readable(form) = SubSeq(form, 1, Cardinality(Clear(form)))
         /\ \A i \in 1..Cardinality(Clear(form)) : form[i] = "data"
<1> DEFINE P == Clear(form)
<1>0. Len(form) \in Nat
  OBVIOUS
<1>1. IsFiniteSet(1..Len(form)) /\ Cardinality(1..Len(form)) = Len(form)
  BY <1>0, FS_Interval
<1>2. P \subseteq 1..Len(form)
  BY DEF Clear
<1>3. IsFiniteSet(P) /\ Cardinality(P) \in 0..Len(form)
  BY <1>0, <1>1, <1>2, FS_Subset, FS_CardinalityType
<1>4. ASSUME NEW i \in 1..Cardinality(P)
      PROVE  i \in P
  <2>0. i \in Nat /\ i >= 1 /\ i <= Cardinality(P) /\ Cardinality(P) \in Nat /\ i <= Len(form)
    BY <1>0, <1>3
  <2>1. SUFFICES ASSUME i \notin P PROVE FALSE
    OBVIOUS
  <2>2. P \subseteq 1..(i - 1)
    BY <2>0, <2>1, <1>0 DEF Clear
  <2>3. IsFiniteSet(1..(i - 1)) /\ Cardinality(1..(i - 1)) = i - 1
    <3>1. 1 \in Int /\ i - 1 \in Int /\ (1 > i - 1 => i - 1 = 0) /\ (i - 1) - 1 + 1 = i - 1
      BY <2>0
    <3>2. /\ IsFiniteSet(1..(i - 1))
          /\ Cardinality(1..(i - 1)) = IF 1 > i - 1 THEN 0 ELSE (i - 1) - 1 + 1
      BY ONLY <3>1, FS_Interval
    <3>q. QED
      BY <3>1, <3>2
  <2>4. Cardinality(P) <= i - 1
    BY <2>2, <2>3, FS_Subset
  <2>q. QED
    BY <2>0, <2>4
<1>5. \A i \in 1..Cardinality(P) : form[i] = "data"
  BY <1>0, <1>3, <1>4 DEF Clear
<1>q. QED
  BY <1>3, <1>5 DEF Readable, Clear

LEMMA UploadType ==
  ASSUME NEW S, NEW job, job.form \in Seq(S)
  PROVE  Upload(job) \in Seq({"data"})
<1> DEFINE form == job.form
           k    == Cardinality(Clear(form))
           l    == IF Len(Readable(form)) < Room THEN Len(Readable(form)) ELSE Room
<1>1. k \in 0..Len(form) /\ Len(form) \in Nat /\ Readable(form) = SubSeq(form, 1, k)
      /\ \A i \in 1..k : form[i] = "data"
  BY ReadableIs
<1> HIDE DEF form, k
<1>2. form \in Seq(S)
  BY DEF form
<1>3. Readable(form) \in Seq({"data"}) /\ Len(Readable(form)) = k
  <2>1. k \in Nat /\ Len(SubSeq(form, 1, k)) = k /\ \A i \in 1..k : SubSeq(form, 1, k)[i] = form[i]
    BY <1>1, <1>2
  <2>2. SubSeq(form, 1, k) \in Seq(S)
    BY <1>1, <1>2
  <2>q. QED
    BY <1>1, <2>1, <2>2
<1>4. l \in 0..k
  BY <1>1, <1>3, InputAssumption
<1> HIDE DEF l
<1>5. SubSeq(Readable(form), 1, l) \in Seq({"data"})
  BY <1>1, <1>3, <1>4
<1>q. QED
  BY <1>5 DEF Upload, form, l

Packed(s) == {i \in 1..Len(s) : s[i][1] = "packed"}

LEMMA InflateIs ==
  ASSUME NEW S, NEW s \in Seq(S)
  PROVE  /\ IsFiniteSet(Packed(s)) /\ Cardinality(Packed(s)) \in Nat
         /\ Inflate(s) = [n \in 1..Cardinality(Packed(s)) |-> Inflate(s)[n]]
         /\ \A n \in 1..Cardinality(Packed(s)) :
              \E i \in Packed(s) : Inflate(s)[n] = <<"plain", s[i][2]>>
<1> DEFINE P == Packed(s)
           nth(n) == CHOOSE i \in P : Cardinality(UpToPlace(P, i)) = n
<1>1. Len(s) \in Nat
  OBVIOUS
<1>2. P \in SUBSET (1..Len(s)) /\ P \in SUBSET Nat
  BY <1>1 DEF Packed
<1>3. IsFiniteSet(P) /\ Cardinality(P) \in Nat
  <2>1. IsFiniteSet(1..Len(s))
    BY <1>1, FS_Interval
  <2>q. QED
    BY <1>2, <2>1, FS_Subset, FS_CardinalityType
<1>4. Inflate(s) = [n \in 1..Cardinality(P) |-> <<"plain", s[nth(n)][2]>>]
  BY DEF Inflate, UpToPlace, Packed
<1>5. \A n \in 1..Cardinality(P) : nth(n) \in P
  BY <1>2, <1>3, NthExists
<1> HIDE DEF P, nth
<1>6. /\ Inflate(s) = [n \in 1..Cardinality(P) |-> Inflate(s)[n]]
      /\ \A n \in 1..Cardinality(P) : Inflate(s)[n] = <<"plain", s[nth(n)][2]>>
  BY <1>4
<1>q. QED
  BY <1>3, <1>5, <1>6 DEF P

LEMMA PiecesDecoded ==
  ASSUME NEW decoder, NEW s \in Seq(Piece)
  PROVE  Decoded(decoder, s) \in Seq(Piece)
<1> DEFINE c == Cardinality(Packed(s))
<1>1. /\ c \in Nat /\ Inflate(s) = [n \in 1..c |-> Inflate(s)[n]]
      /\ \A n \in 1..c : \E i \in Packed(s) : Inflate(s)[n] = <<"plain", s[i][2]>>
  BY InflateIs
<1>2. \A i \in Packed(s) : s[i] \in Piece
  BY DEF Packed
<1>3. \A p \in Piece : <<"plain", p[2]>> \in Piece
  BY DEF Piece, Kind
<1>5. \A n \in 1..c : Inflate(s)[n] \in Piece
  BY <1>1, <1>2, <1>3
<1> HIDE DEF c
<1>6. Inflate(s) \in Seq(Piece)
  BY <1>1, <1>5
<1>q. QED
  BY <1>6 DEF Decoded

-----------------------------------------------------------------------------
(* The types, on top of IInv.                                                *)

Linked == \A j \in Job : jobs[j].cmd # "idle" => jobs[j].ref # None
Typed  == TypeOK /\ Linked

LEMMA LoadIs ==
  ASSUME Typed, NEW j \in Job
  PROVE  /\ jobs[j] \in Load
         /\ jobs[j].cmd # "idle" => jobs[j].ref \in Ref
BY DEF Typed, TypeOK, Linked, Load

LEMMA NewJobType ==
  ASSUME NEW m \in Method, NEW f \in Forms \cup {<<>>}
  PROVE  NewJob(m, f) \in Load /\ NewJob(m, f).cmd = "idle"
<1>1. <<>> \in Seq(Piece) /\ <<>> \in Seq(Seq({"data"}))
  OBVIOUS
<1>q. QED
  BY <1>1 DEF NewJob, Load, Decoder, Coding

LEMMA NoJobType ==
  ASSUME NEW at \in {"none", "over"}
  PROVE  NoJob(at) \in Load /\ NoJob(at).cmd = "idle"
<1>1. NewJob("GET", <<>>) \in Load /\ NewJob("GET", <<>>).cmd = "idle"
  BY NewJobType DEF Method
<1>2. NoJob(at) = [NewJob("GET", <<>>) EXCEPT !.at = at]
  BY DEF NoJob
<1>q. QED
  BY <1>1, <1>2 DEF Load

(* One load changes, one connection changes.                                 *)
LEMMA LoadChanges ==
  ASSUME Typed, NEW j \in Job, NEW e \in Load, e.cmd # "idle" => e.ref # None,
         jobs' = [jobs EXCEPT ![j] = e], refs' \in [Ref -> Connection], limit' \in Limits,
         overcommitted' \in BOOLEAN
  PROVE  Typed'
BY DEF Typed, TypeOK, Linked

LEMMA ConnectionChanges ==
  ASSUME Typed, NEW r \in Ref, NEW e \in Connection, refs' = [refs EXCEPT ![r] = e]
  PROVE  refs' \in [Ref -> Connection]
BY DEF Typed, TypeOK

LEMMA InitTypes == Init => Typed
<1> SUFFICES ASSUME Init PROVE Typed
  OBVIOUS
<1>1. NoJob("none") \in Load /\ NoJob("none").cmd = "idle"
  BY NoJobType
<1>2. NewRef \in Connection
  <2>1. <<>> \in Seq(Piece)
    OBVIOUS
  <2>q. QED
    BY <2>1, InputAssumption DEF NewRef, Connection
<1>q. QED
  BY <1>1, <1>2 DEF Init, Typed, TypeOK, Linked

LEMMA InitJobTypes == ASSUME Typed, NEW j \in Job, InitJob(j) PROVE Typed'
<1>1. PICK m \in Methods[j], f \in Forms \cup {<<>>} : jobs' = [jobs EXCEPT ![j] = NewJob(m, f)]
  BY DEF InitJob
<1>2. m \in Method
  BY InputAssumption
<1>3. refs' \in [Ref -> Connection] /\ limit' \in Limits /\ overcommitted' \in BOOLEAN
  BY DEF InitJob, Typed, TypeOK
<1>q. QED
  BY <1>1, <1>2, <1>3, NewJobType, LoadChanges

LEMMA CallerTypes ==
  ASSUME Typed, NEW j \in Job, Cancel(j) \/ DeadlinePasses(j) \/ Disconnect(j)
  PROVE  Typed'
<1>1. refs' \in [Ref -> Connection] /\ limit' \in Limits /\ overcommitted' \in BOOLEAN
  BY DEF Cancel, DeadlinePasses, Disconnect, Typed, TypeOK
<1>2. jobs[j] \in Load /\ (jobs[j].cmd # "idle" => jobs[j].ref # None) /\ DOMAIN jobs = Job
  BY DEF Typed, TypeOK, Linked
<1>3. CASE Cancel(j)
  <2>1. [jobs[j] EXCEPT !.cancelled = TRUE] \in Load
    BY <1>2 DEF Load
  <2>q. QED
    BY <1>1, <1>2, <1>3, <2>1, LoadChanges DEF Cancel, Load
<1>4. CASE DeadlinePasses(j)
  <2>1. [jobs[j] EXCEPT !.late = TRUE] \in Load
    BY <1>2 DEF Load
  <2>q. QED
    BY <1>1, <1>2, <1>4, <2>1, LoadChanges DEF DeadlinePasses, Load
<1>5. CASE Disconnect(j)
  <2>1. [jobs[j] EXCEPT !.at = "shutdown"] \in Load
    BY <1>2 DEF Load
  <2>q. QED
    BY <1>1, <1>2, <1>5, <2>1, LoadChanges DEF Disconnect, Load
<1>q. QED
  BY <1>3, <1>4, <1>5

LEMMA IssuedType ==
  ASSUME NEW job \in Load, NEW data \in Seq({"data"})
  PROVE  Issued(job, data) \in Load /\ Issued(job, data).ref = job.ref
<1>1. job.uploads \in Seq(Seq({"data"}))
  BY DEF Load
<1>2. Append(job.uploads, data) \in Seq(Seq({"data"}))
  BY <1>1
<1>q. QED
  BY <1>2 DEF Issued, Load

LEMMA BegunType ==
  ASSUME NEW ref \in Connection, NEW j \in Job
  PROVE  Begun(ref, j) \in Connection
<1>1. <<>> \in Seq(Piece)
  OBVIOUS
<1>2. 0 \in 0..MaxRedirects
  BY InputAssumption
<1>q. QED
  BY <1>1, <1>2 DEF Begun, Connection

LEMMA ConnectTypes == ASSUME Typed, IInv, IInv', NEW j \in Job, Connect(j) PROVE Typed'
<1>0. /\ jobs[j] \in Load /\ limit' \in Limits /\ overcommitted' \in BOOLEAN
      /\ refs \in [Ref -> Connection] /\ (jobs[j].cmd # "idle" => jobs[j].ref # None)
      /\ DOMAIN jobs = Job
  BY DEF Typed, TypeOK, Connect, Linked
<1>1. CASE jobs' = [jobs EXCEPT ![j].at = "transfer"] /\ refs' = refs
  <2>1. [jobs[j] EXCEPT !.at = "transfer"] \in Load
    BY <1>0 DEF Load
  <2>q. QED
    BY <1>0, <1>1, <2>1, LoadChanges DEF Load
<1>2. ASSUME NEW r \in LeastUsed, Request(j, r)
      PROVE  Typed'
  <2> DEFINE read == [ReadData(jobs[j]) EXCEPT !.at = "transfer", !.ref = r]
             wait == [read EXCEPT !.cmd = "waiting"]
             ref  == [refs[r] EXCEPT !.transactions = refs[r].transactions + 1]
  <2>1. r \in Ref /\ r # None /\ refs[r] \in Connection
    BY <1>0, PoolAssumption DEF LeastUsed
  <2>2. read \in Load /\ read.ref = r
    <3>1. ReadData(jobs[j]) \in Load
      BY <1>0 DEF ReadData, Load
    <3>q. QED
      BY <2>1, <3>1 DEF Load
  <2>3. ref \in Connection
    BY <2>1 DEF Connection
  <2>4. \/ /\ jobs' = [jobs EXCEPT ![j] = Issued(read, Upload(read))]
           /\ refs' = [refs EXCEPT ![r] = Begun(ref, j)]
        \/ /\ jobs' = [jobs EXCEPT ![j] = wait]
           /\ refs' = [refs EXCEPT ![r] = ref]
    BY <1>2 DEF Request
  <2>5. wait \in Load /\ wait.ref = r
    BY <2>2 DEF Load
  <2> HIDE DEF read, ref, wait
  <2>6. Upload(read) \in Seq({"data"})
    <3>1. read.form \in Seq({"data", "unreadable"})
      <4>1. read.form \in Forms \cup {<<>>}
        BY <2>2 DEF Load
      <4>2. <<>> \in Seq({"data", "unreadable"})
        OBVIOUS
      <4>q. QED
        BY <4>1, <4>2, InputAssumption
    <3>q. QED
      BY <3>1, UploadType
  <2>7. Issued(read, Upload(read)) \in Load /\ Issued(read, Upload(read)).ref = r
    BY <2>2, <2>6, IssuedType
  <2>8. Begun(ref, j) \in Connection
    BY <2>3, BegunType
  <2>9. refs' \in [Ref -> Connection]
    BY <2>1, <2>3, <2>4, <2>8, ConnectionChanges
  <2>q. QED
    BY <1>0, <2>1, <2>4, <2>5, <2>7, <2>9, LoadChanges
<1>q. QED
  BY <1>1, <1>2 DEF Connect

LEMMA StartQueuedTypes == ASSUME Typed, NEW r \in Ref, StartQueued(r) PROVE Typed'
<1>1. PICK j \in Job : /\ jobs[j].ref = r
                       /\ jobs' = [jobs EXCEPT ![j] = Issued(jobs[j], <<>>)]
                       /\ refs' = [refs EXCEPT ![r] = Begun(refs[r], j)]
  BY DEF StartQueued, Typed, TypeOK
<1>2. /\ jobs[j] \in Load /\ refs[r] \in Connection /\ r # None
      /\ limit' \in Limits /\ overcommitted' \in BOOLEAN
  BY PoolAssumption DEF Typed, TypeOK, StartQueued
<1>3. <<>> \in Seq({"data"})
  OBVIOUS
<1>4. Issued(jobs[j], <<>>) \in Load /\ Issued(jobs[j], <<>>).ref = r
  BY <1>1, <1>2, <1>3, IssuedType
<1>5. refs' \in [Ref -> Connection]
  BY <1>1, <1>2, BegunType, ConnectionChanges
<1>q. QED
  BY <1>1, <1>2, <1>4, <1>5, LoadChanges

LEMMA StreamType ==
  ASSUME NEW coding \in Coding, NEW j \in Job
  PROVE  Stream(coding, j) \in Seq(Piece)
<1>1. /\ <<"head", j>> \in Piece /\ <<"packed", j>> \in Piece /\ <<"plain", j>> \in Piece
      /\ <<"trailer", j>> \in Piece
  BY DEF Piece, Kind
<1>2. /\ << <<"head", j>> >> \in Seq(Piece) /\ << <<"trailer", j>> >> \in Seq(Piece)
      /\ << <<"packed", j>>, <<"packed", j>> >> \in Seq(Piece)
      /\ << <<"plain", j>>, <<"plain", j>> >> \in Seq(Piece)
  BY <1>1
<1>q. QED
  BY <1>2 DEF Stream, Whole, Coding

LEMMA HeaderTypes ==
  ASSUME Typed, NEW r, NEW j \in Job, refs[r].user = j, NEW coding \in Coding, NEW sized \in BOOLEAN,
         RecvHeader(r, coding, sized), refs' \in [Ref -> Connection],
         limit' = limit, overcommitted' = overcommitted
  PROVE  Typed'
<1> DEFINE decoder == SetupStreamDecompressor(jobs[j].decoder, coding)
           e == [jobs[j] EXCEPT !.decoder = decoder, !.coding = coding, !.sized = sized]
<1>1. jobs[j] \in Load /\ DOMAIN jobs = Job /\ (jobs[j].cmd # "idle" => jobs[j].ref # None)
  BY DEF Typed, TypeOK, Linked
<1>2. decoder \in Decoder
  BY DEF SetupStreamDecompressor, Coding, Decoder
<1>3. jobs' = [jobs EXCEPT ![j] = e]
  BY <1>1 DEF RecvHeader
<1> HIDE DEF decoder
<1>4. e \in Load /\ e.cmd = jobs[j].cmd /\ e.ref = jobs[j].ref
  BY <1>1, <1>2 DEF Load
<1>5. limit' \in Limits /\ overcommitted' \in BOOLEAN
  BY DEF Typed, TypeOK
<1> HIDE DEF e
<1>q. QED
  BY <1>1, <1>3, <1>4, <1>5, LoadChanges

LEMMA UpdateTypes == ASSUME Typed, IInv, NEW r \in Ref, Update(r) PROVE Typed'
<1>1. refs[r].user \in Job /\ refs[r] \in Connection /\ refs \in [Ref -> Connection]
  BY DEF IInv, CallbackAlive, Running, Update, Updating, Respond, Redirect, Arrive, ServerCloses,
         ConnectionFails, Typed, TypeOK
<1> DEFINE j == refs[r].user
<1>2. Codings[j] \subseteq Coding
  BY <1>1, InputAssumption
<1>3. CASE Respond(r)
  <2>1. PICK coding \in Codings[j], sized \in BOOLEAN :
          /\ RecvHeader(r, coding, sized)
          /\ refs' = [refs EXCEPT ![r] =
               IF jobs[j].method = "HEAD" THEN [refs[r] EXCEPT !.proto = "done"]
               ELSE [refs[r] EXCEPT !.proto = "body", !.coming = Stream(coding, j)]]
    BY <1>1, <1>3 DEF Respond
  <2>2. [refs[r] EXCEPT !.proto = "done"] \in Connection
    BY <1>1 DEF Connection
  <2>3. [refs[r] EXCEPT !.proto = "body", !.coming = Stream(coding, j)] \in Connection
    BY <1>1, <1>2, StreamType DEF Connection
  <2>4. refs' \in [Ref -> Connection]
    BY <2>1, <2>2, <2>3, ConnectionChanges
  <2>q. QED
    BY <1>1, <1>2, <1>3, <2>1, <2>4, HeaderTypes DEF Respond
<1>4. CASE Redirect(r)
  <2>1. PICK coding \in Codings[j] : RecvHeader(r, coding, TRUE)
    BY <1>4 DEF Redirect
  <2>2. [refs[r] EXCEPT !.proto = "fail"] \in Connection
    BY <1>1 DEF Connection
  <2>3. refs[r].hops < MaxRedirects => [refs[r] EXCEPT !.hops = refs[r].hops + 1] \in Connection
    <3>1. refs[r].hops \in 0..MaxRedirects /\ MaxRedirects \in Nat
      BY <1>1, InputAssumption DEF Connection
    <3>2. SUFFICES ASSUME refs[r].hops < MaxRedirects
                   PROVE  [refs[r] EXCEPT !.hops = refs[r].hops + 1] \in Connection
      OBVIOUS
    <3>3. refs[r].hops + 1 \in 0..MaxRedirects
      BY <3>1, <3>2
    <3>q. QED
      BY <1>1, <3>3 DEF Connection
  <2>4. refs' \in [Ref -> Connection]
    <3>1. \/ /\ refs[r].hops < MaxRedirects
             /\ refs' = [refs EXCEPT ![r] = [refs[r] EXCEPT !.hops = refs[r].hops + 1]]
          \/ refs' = [refs EXCEPT ![r] = [refs[r] EXCEPT !.proto = "fail"]]
      BY <1>1, <1>4 DEF Redirect
    <3>q. QED
      BY <3>1, <2>2, <2>3, ConnectionChanges
  <2>q. QED
    BY <1>1, <1>2, <1>4, <2>1, <2>4, HeaderTypes DEF Redirect
<1>5. CASE Arrive(r) \/ ServerCloses(r) \/ ConnectionFails(r)
  <2>1. refs' \in [Ref -> Connection]
    <3>1. CASE Arrive(r)
      <4>1. PICK n \in 1..Len(refs[r].coming) : refs' = [refs EXCEPT
              ![r].data = refs[r].data \o SubSeq(refs[r].coming, 1, n),
              ![r].coming = SubSeq(refs[r].coming, n + 1, Len(refs[r].coming)),
              ![r].proto = IF n = Len(refs[r].coming) THEN "done" ELSE "body"]
        BY <3>1 DEF Arrive
      <4> DEFINE data   == refs[r].data \o SubSeq(refs[r].coming, 1, n)
                 coming == SubSeq(refs[r].coming, n + 1, Len(refs[r].coming))
                 proto  == IF n = Len(refs[r].coming) THEN "done" ELSE "body"
      <4>2. refs[r].data \in Seq(Piece) /\ refs[r].coming \in Seq(Piece)
        BY <1>1 DEF Connection
      <4>3. data \in Seq(Piece) /\ coming \in Seq(Piece) /\ proto \in {"done", "body"}
        BY <4>2
      <4>4. refs' = [refs EXCEPT ![r] = [refs[r] EXCEPT !.data = data, !.coming = coming, !.proto = proto]]
        BY <1>1, <4>1
      <4> HIDE DEF data, coming, proto
      <4>5. [refs[r] EXCEPT !.data = data, !.coming = coming, !.proto = proto] \in Connection
        BY <1>1, <4>3 DEF Connection
      <4>q. QED
        BY <4>4, <4>5, ConnectionChanges
    <3>2. CASE ServerCloses(r)
      <4> DEFINE proto == IF jobs[j].sized THEN "fail" ELSE "done"
      <4>1. refs' = [refs EXCEPT ![r] = [refs[r] EXCEPT !.coming = <<>>, !.proto = proto]]
        BY <1>1, <3>2 DEF ServerCloses
      <4>2. proto \in {"fail", "done"} /\ <<>> \in Seq(Piece)
        OBVIOUS
      <4> HIDE DEF proto
      <4>3. [refs[r] EXCEPT !.coming = <<>>, !.proto = proto] \in Connection
        BY <1>1, <4>2 DEF Connection
      <4>q. QED
        BY <4>1, <4>3, ConnectionChanges
    <3>3. CASE ConnectionFails(r)
      <4>1. refs' = [refs EXCEPT ![r] = [refs[r] EXCEPT !.proto = "fail"]]
        BY <1>1, <3>3 DEF ConnectionFails
      <4>2. [refs[r] EXCEPT !.proto = "fail"] \in Connection
        BY <1>1 DEF Connection
      <4>q. QED
        BY <4>1, <4>2, ConnectionChanges
    <3>q. QED
      BY <1>5, <3>1, <3>2, <3>3
  <2>2. UNCHANGED <<jobs, limit, overcommitted>>
    BY <1>5 DEF Arrive, ServerCloses, ConnectionFails
  <2>q. QED
    BY <2>1, <2>2 DEF Typed, TypeOK, Linked
<1>q. QED
  BY <1>3, <1>4, <1>5 DEF Update

LEMMA TransferTypes == ASSUME Typed, NEW j \in Job, Transfer(j) PROVE Typed'
<1>0. /\ jobs[j] \in Load /\ limit' \in Limits /\ overcommitted' \in BOOLEAN
      /\ refs \in [Ref -> Connection] /\ DOMAIN jobs = Job
      /\ jobs[j].cmd # "idle" => jobs[j].ref \in Ref /\ jobs[j].ref # None
  BY PoolAssumption DEF Typed, TypeOK, Transfer, Linked, Load
<1>1. ASSUME Fail(j), refs' \in [Ref -> Connection] PROVE Typed'
  <2>1. [jobs[j] EXCEPT !.at = "failed"] \in Load
    BY <1>0 DEF Load
  <2>q. QED
    BY <1>0, <1>1, <2>1, LoadChanges DEF Fail, Load
<1>2. CASE TransferWaits(j) \/ TransferFails(j)
  BY <1>0, <1>1, <1>2 DEF TransferWaits, TransferFails
<1>3. CASE TransferData(j)
  <2> DEFINE r       == jobs[j].ref
             s       == refs[r].data
             ended   == refs[r].proto = "done"
             got     == jobs[j].got \o Decoded(jobs[j].decoder, s)
             decoder == IF s # <<>> /\ jobs[j].decoder = "gzip" THEN "inflate" ELSE jobs[j].decoder
             at      == CASE ended -> "disconnect"
                          [] ~ended /\ jobs[j].late -> "failed"
                          [] OTHER -> "transfer"
             e       == [jobs[j] EXCEPT !.got = got, !.decoder = decoder, !.at = at]
  <2>1. r \in Ref /\ r # None /\ refs[r] \in Connection /\ jobs[j].cmd = "active"
    BY <1>0, <1>3 DEF TransferData
  <2>2. refs' \in [Ref -> Connection]
    <3>1. refs' = [refs EXCEPT ![r] = [refs[r] EXCEPT !.data = <<>>]]
      BY <1>0, <1>3, <2>1 DEF TransferData
    <3>2. [refs[r] EXCEPT !.data = <<>>] \in Connection
      <4>1. <<>> \in Seq(Piece)
        OBVIOUS
      <4>q. QED
        BY <2>1, <4>1 DEF Connection
    <3>q. QED
      BY <2>1, <3>1, <3>2, ConnectionChanges
  <2>3. Fail(j) \/ jobs' = [jobs EXCEPT ![j] = e]
    <3>1. Fail(j) \/ jobs' = [jobs EXCEPT ![j].got = got, ![j].decoder = decoder, ![j].at = at]
      BY <1>3 DEF TransferData
    <3> HIDE DEF got, decoder, at
    <3>q. QED
      BY <1>0, <3>1
  <2>4. s \in Seq(Piece) /\ jobs[j].got \in Seq(Piece) /\ jobs[j].decoder \in Decoder
    BY <1>0, <2>1 DEF Connection, Load
  <2>5. got \in Seq(Piece)
    <3>1. Decoded(jobs[j].decoder, s) \in Seq(Piece)
      BY <2>4, PiecesDecoded
    <3>q. QED
      BY <2>4, <3>1
  <2>6. decoder \in Decoder /\ at \in {"disconnect", "failed", "transfer"}
    BY <2>4 DEF Decoder
  <2> HIDE DEF got, decoder, at
  <2>7. e \in Load /\ e.ref = r
    BY <1>0, <2>5, <2>6 DEF Load
  <2> HIDE DEF e
  <2>q. QED
    BY <1>0, <1>1, <2>1, <2>2, <2>3, <2>7, LoadChanges
<1>q. QED
  BY <1>2, <1>3 DEF Transfer

LEMMA ShutdownJobTypes == ASSUME Typed, IInv, IInv', NEW j \in Job, ShutdownJob(j) PROVE Typed'
<1>1. /\ jobs' = [jobs EXCEPT ![j] = NoJob("over")]
      /\ refs' = [r \in Ref |-> IF r = jobs[j].ref THEN Freed(refs[r]) ELSE refs[r]]
      /\ limit' \in Limits /\ overcommitted' \in BOOLEAN
  BY DEF ShutdownJob, Typed, TypeOK
<1>2. NoJob("over") \in Load /\ NoJob("over").cmd = "idle"
  BY NoJobType
<1>3. ASSUME NEW r \in Ref
      PROVE  refs'[r] \in Connection
  <2>1. refs[r] \in Connection
    BY DEF Typed, TypeOK
  <2>2. CASE r = jobs[j].ref
    <3>1. refs'[r] = Freed(refs[r])
      BY <1>1, <2>2
    <3>2. refs'[r].transactions = refs[r].transactions - 1
      BY <2>1, <3>1 DEF Freed, Connection
    <3>3. refs'[r].transactions = Cardinality(Users(r)')
      BY DEF IInv, Counted
    <3>4. IsFiniteSet(Users(r)')
      <4>1. Users(r)' \subseteq Job
        BY DEF Users
      <4>q. QED
        BY <4>1, PoolAssumption, FS_Subset
    <3>5. refs[r].transactions - 1 \in Nat
      BY <3>2, <3>3, <3>4, FS_CardinalityType
    <3>6. Freed(refs[r]) = [refs[r] EXCEPT !.state = "idle", !.transactions = refs[r].transactions - 1]
      BY <2>1 DEF Freed
    <3>q. QED
      BY ONLY <2>1, <3>1, <3>5, <3>6 DEF Connection
  <2>3. CASE r # jobs[j].ref
    BY <1>1, <2>1, <2>3
  <2>q. QED
    BY <2>2, <2>3
<1>4. refs' \in [Ref -> Connection]
  BY <1>1, <1>3
<1>q. QED
  BY <1>1, <1>2, <1>4, LoadChanges

LEMMA StepTypes == ASSUME Typed, IInv, IInv', [Next]_vars PROVE Typed'
<1>1. ASSUME NEW j \in Job, InitJob(j) \/ Cancel(j) \/ DeadlinePasses(j) \/ Handle(j)
      PROVE  Typed'
  BY <1>1, InitJobTypes, CallerTypes, ConnectTypes, TransferTypes, ShutdownJobTypes DEF Handle
<1>2. ASSUME NEW r \in Ref, StartQueued(r) \/ Update(r)
      PROVE  Typed'
  BY <1>2, StartQueuedTypes, UpdateTypes
<1>3. CASE SetParameters \/ UNCHANGED vars
  BY <1>3 DEF Typed, TypeOK, Linked, SetParameters, vars
<1>q. QED
  BY <1>1, <1>2, <1>3 DEF Next

(* Type correctness of the HTTP transport, for any loads, pool and limits:   *)
(* in particular no count of a connection's transactions falls below zero,   *)
(* and a form as well as a body stays one, however it is cut.                *)
THEOREM TypeCorrect == Spec => []TypeOK
<1>1. Typed => TypeOK
  BY DEF Typed
<1>q. QED
  BY InitEstablishes, StepKeeps, InitTypes, StepTypes, <1>1, PTL DEF Spec

-----------------------------------------------------------------------------
(* What a response body decodes to.                                          *)

HeadLength(coding) == IF coding = "gzip" THEN 2 ELSE IF coding = "deflate" THEN 1 ELSE 0
BodyLength(coding) == IF coding = "gzip" THEN 5 ELSE IF coding = "deflate" THEN 3 ELSE 2

(* The pieces of content among the first n of a body, and k of them.         *)
Plain(coding, n) == IF n <= HeadLength(coding) THEN 0
                    ELSE IF n - HeadLength(coding) <= 2 THEN n - HeadLength(coding) ELSE 2
Content(j, k) == [i \in 1..k |-> <<"plain", j>>]

LEMMA LengthsAre ==
  ASSUME NEW coding \in Coding
  PROVE  /\ HeadLength(coding) \in Nat /\ BodyLength(coding) \in 0..5
         /\ HeadLength(coding) + 2 <= BodyLength(coding)
         /\ \A n \in Nat : Plain(coding, n) \in 0..2
         /\ Plain(coding, 0) = 0 /\ Plain(coding, BodyLength(coding)) = 2
BY DEF Coding, HeadLength, BodyLength, Plain

LEMMA StreamIs ==
  ASSUME NEW coding \in Coding, NEW j \in Job
  PROVE  /\ Stream(coding, j) \in Seq(Piece) /\ Len(Stream(coding, j)) = BodyLength(coding)
         /\ \A i \in 1..BodyLength(coding) :
              /\ Stream(coding, j)[i][2] = j
              /\ Stream(coding, j)[i][1] = "plain" <=> coding = "identity"
              /\ coding = "identity" => Stream(coding, j)[i] = <<"plain", j>>
              /\ Stream(coding, j)[i][1] = "packed"
                   <=> coding # "identity" /\ HeadLength(coding) < i /\ i <= HeadLength(coding) + 2
<1>0. Stream(coding, j) \in Seq(Piece)
  BY StreamType
<1>1. CASE coding = "identity"
  <2>1. Stream(coding, j) = << <<"plain", j>>, <<"plain", j>> >>
    BY <1>1 DEF Stream, Whole
  <2>q. QED
    BY <1>0, <1>1, <2>1 DEF BodyLength, HeadLength
<1>2. CASE coding = "raw"
  <2>1. Stream(coding, j) = << <<"packed", j>>, <<"packed", j>> >>
    BY <1>2 DEF Stream
  <2>q. QED
    BY <1>0, <1>2, <2>1 DEF BodyLength, HeadLength
<1> DEFINE h == << <<"head", j>> >>
           z == << <<"packed", j>>, <<"packed", j>> >>
           e == << <<"trailer", j>> >>
<1>5. /\ h \in Seq(Piece) /\ Len(h) = 1 /\ h[1] = <<"head", j>>
      /\ z \in Seq(Piece) /\ Len(z) = 2 /\ z[1] = <<"packed", j>> /\ z[2] = <<"packed", j>>
      /\ e \in Seq(Piece) /\ Len(e) = 1 /\ e[1] = <<"trailer", j>>
  <2>1. <<"head", j>> \in Piece /\ <<"packed", j>> \in Piece /\ <<"trailer", j>> \in Piece
    BY DEF Piece, Kind
  <2>q. QED
    BY <2>1
<1>6. h \in Seq(Piece) /\ z \in Seq(Piece) /\ e \in Seq(Piece)
  BY <1>5
<1>3. CASE coding = "deflate"
  <2>1. Stream(coding, j) = h \o z
    BY <1>3 DEF Stream
  <2> HIDE DEF h, z, e
  <2>2. /\ Len(h \o z) = 3 /\ (h \o z)[1] = <<"head", j>>
        /\ (h \o z)[2] = <<"packed", j>> /\ (h \o z)[3] = <<"packed", j>>
    <3>1. /\ h \o z \in Seq(Piece) /\ Len(h \o z) = Len(h) + Len(z)
          /\ \A i \in 1..Len(h) : (h \o z)[i] = h[i]
          /\ \A i \in 1..Len(z) : (h \o z)[Len(h) + i] = z[i]
      BY ONLY <1>6, JoinFacts
    <3>q. QED
      BY <1>5, <3>1, 1 \in 1..1, 1 \in 1..2, 2 \in 1..2, 1 + 1 = 2, 1 + 2 = 3
  <2>3. \A i \in 1..3 : i = 1 \/ i = 2 \/ i = 3
    OBVIOUS
  <2>4. BodyLength(coding) = 3 /\ HeadLength(coding) = 1
    BY <1>3 DEF BodyLength, HeadLength
  <2>q. QED
    BY <1>0, <1>3, <2>1, <2>2, <2>3, <2>4
<1>4. CASE coding = "gzip"
  <2>1. Stream(coding, j) = ((h \o h) \o z) \o e
    BY <1>4 DEF Stream
  <2> HIDE DEF h, z, e
  <2>2. /\ h \o h \in Seq(Piece) /\ Len(h \o h) = 2
        /\ (h \o h)[1] = <<"head", j>> /\ (h \o h)[2] = <<"head", j>>
    <3>1. /\ h \o h \in Seq(Piece) /\ Len(h \o h) = Len(h) + Len(h)
          /\ \A i \in 1..Len(h) : (h \o h)[i] = h[i]
          /\ \A i \in 1..Len(h) : (h \o h)[Len(h) + i] = h[i]
      BY ONLY <1>6, JoinFacts
    <3>q. QED
      BY <1>5, <3>1, 1 \in 1..1, 1 + 1 = 2
  <2> DEFINE f == h \o h
             g == f \o z
  <2>3. /\ g \in Seq(Piece) /\ Len(g) = 4
        /\ g[1] = <<"head", j>> /\ g[2] = <<"head", j>>
        /\ g[3] = <<"packed", j>> /\ g[4] = <<"packed", j>>
    <3> HIDE DEF f
    <3>1. f \in Seq(Piece) /\ Len(f) = 2 /\ f[1] = <<"head", j>> /\ f[2] = <<"head", j>>
      BY <2>2 DEF f
    <3>3. f \in Seq(Piece)
      BY <3>1
    <3>2. /\ f \o z \in Seq(Piece) /\ Len(f \o z) = Len(f) + Len(z)
          /\ \A i \in 1..Len(f) : (f \o z)[i] = f[i]
          /\ \A i \in 1..Len(z) : (f \o z)[Len(f) + i] = z[i]
      BY ONLY <3>3, <1>6, JoinFacts
    <3>q. QED
      BY <3>1, <3>2, <1>5, 1 \in 1..2, 2 \in 1..2, 2 + 1 = 3, 2 + 2 = 4
  <2>4. /\ Len(g \o e) = 5
        /\ (g \o e)[1] = <<"head", j>> /\ (g \o e)[2] = <<"head", j>>
        /\ (g \o e)[3] = <<"packed", j>> /\ (g \o e)[4] = <<"packed", j>>
        /\ (g \o e)[5] = <<"trailer", j>>
    <3> HIDE DEF g
    <3>2. g \in Seq(Piece)
      BY <2>3
    <3>1. /\ g \o e \in Seq(Piece) /\ Len(g \o e) = Len(g) + Len(e)
          /\ \A i \in 1..Len(g) : (g \o e)[i] = g[i]
          /\ \A i \in 1..Len(e) : (g \o e)[Len(g) + i] = e[i]
      BY ONLY <3>2, <1>6, JoinFacts
    <3>q. QED
      BY <2>3, <3>1, <1>5, 1 \in 1..4, 2 \in 1..4, 3 \in 1..4, 4 \in 1..4, 1 \in 1..1, 4 + 1 = 5
  <2>5. Stream(coding, j) = g \o e
    BY <2>1
  <2>6. \A i \in 1..5 : i = 1 \/ i = 2 \/ i = 3 \/ i = 4 \/ i = 5
    OBVIOUS
  <2>7. BodyLength(coding) = 5 /\ HeadLength(coding) = 2
    BY <1>4 DEF BodyLength, HeadLength
  <2> HIDE DEF g
  <2>q. QED
    <3> DEFINE x == Stream(coding, j)
    <3>1. /\ x \in Seq(Piece) /\ Len(x) = 5 /\ x[1] = <<"head", j>> /\ x[2] = <<"head", j>>
          /\ x[3] = <<"packed", j>> /\ x[4] = <<"packed", j>> /\ x[5] = <<"trailer", j>>
      BY <1>0, <2>4, <2>5
    <3> HIDE DEF x
    <3>2. ASSUME NEW i \in 1..5
          PROVE  /\ x[i][2] = j /\ x[i][1] # "plain"
                 /\ x[i][1] = "packed" <=> 2 < i /\ i <= 4
      BY <2>6, <3>1
    <3>3. coding # "identity" /\ BodyLength(coding) = 5 /\ HeadLength(coding) + 2 = 4
          /\ HeadLength(coding) = 2
      BY <1>4, <2>7
    <3>q. QED
      BY <3>1, <3>2, <3>3 DEF x
<1>q. QED
  BY <1>1, <1>2, <1>3, <1>4 DEF Coding

LEMMA SliceIs ==
  ASSUME NEW S, NEW t \in Seq(S), NEW m \in 0..Len(t), NEW n \in 0..m
  PROVE  /\ SubSeq(t, n + 1, m) \in Seq(S) /\ Len(SubSeq(t, n + 1, m)) = m - n
         /\ \A i \in 1..(m - n) : SubSeq(t, n + 1, m)[i] = t[n + i]
OBVIOUS

(* More of it comes.                                                         *)
LEMMA SlicesMeet ==
  ASSUME NEW S, NEW t \in Seq(S), NEW m \in 0..Len(t), NEW n \in 0..m, NEW k \in 0..(Len(t) - m)
  PROVE  LET rest == SubSeq(t, m + 1, Len(t))
         IN /\ Len(rest) = Len(t) - m
            /\ SubSeq(t, n + 1, m) \o SubSeq(rest, 1, k) = SubSeq(t, n + 1, m + k)
            /\ SubSeq(rest, k + 1, Len(rest)) = SubSeq(t, m + k + 1, Len(t))
<1> DEFINE rest == SubSeq(t, m + 1, Len(t))
           a    == SubSeq(t, n + 1, m)
           b    == SubSeq(rest, 1, k)
           c    == SubSeq(rest, k + 1, Len(rest))
           d    == SubSeq(t, n + 1, m + k)
           e    == SubSeq(t, m + k + 1, Len(t))
<1>1. Len(t) \in Nat /\ m \in Nat /\ n \in Nat /\ k \in Nat /\ n <= m /\ m + k <= Len(t)
  OBVIOUS
<1>2. /\ rest \in Seq(S) /\ Len(rest) = Len(t) - m
      /\ \A i \in 1..(Len(t) - m) : rest[i] = t[m + i]
  BY <1>1, SliceIs
<1>3. a \in Seq(S) /\ Len(a) = m - n /\ \A i \in 1..(m - n) : a[i] = t[n + i]
  BY <1>1, SliceIs
<1>4. d \in Seq(S) /\ Len(d) = m + k - n /\ \A i \in 1..(m + k - n) : d[i] = t[n + i]
  BY <1>1, SliceIs
<1>5. e \in Seq(S) /\ Len(e) = Len(t) - (m + k) /\ \A i \in 1..(Len(t) - (m + k)) : e[i] = t[m + k + i]
  BY <1>1, SliceIs
<1> HIDE DEF rest, a, d, e
<1>6. b \in Seq(S) /\ Len(b) = k /\ \A i \in 1..k : b[i] = rest[i]
  BY <1>1, <1>2
<1>7. /\ c \in Seq(S) /\ Len(c) = Len(rest) - k
      /\ \A i \in 1..(Len(rest) - k) : c[i] = rest[k + i]
  BY <1>1, <1>2
<1> HIDE DEF b, c
<1>8. a \o b = d
  <2>1. /\ a \o b \in Seq(S) /\ Len(a \o b) = (m - n) + k
        /\ \A i \in 1..(m - n) : (a \o b)[i] = a[i]
        /\ \A i \in 1..k : (a \o b)[(m - n) + i] = b[i]
    <3>1. a \in Seq(S) /\ b \in Seq(S)
      BY <1>3, <1>6
    <3>2. /\ a \o b \in Seq(S) /\ Len(a \o b) = Len(a) + Len(b)
          /\ \A i \in 1..Len(a) : (a \o b)[i] = a[i]
          /\ \A i \in 1..Len(b) : (a \o b)[Len(a) + i] = b[i]
      BY ONLY <3>1, JoinFacts
    <3>3. Len(a) = m - n /\ Len(b) = k
      BY <1>3, <1>6
    <3>q. QED
      BY ONLY <3>2, <3>3
  <2>2. ASSUME NEW i \in 1..Len(d) PROVE (a \o b)[i] = d[i]
    <3>0. i \in Nat /\ i >= 1 /\ i <= m + k - n /\ d[i] = t[n + i]
      BY <1>1, <1>4
    <3>1. CASE i <= m - n
      <4>1. i \in 1..(m - n)
        BY <3>0, <3>1, <1>1
      <4>q. QED
        BY <3>0, <4>1, <2>1, <1>3
    <3>2. CASE i > m - n
      <4> DEFINE l == i - (m - n)
      <4>1. /\ l \in 1..k /\ l \in 1..(Len(t) - m) /\ m + l = n + i /\ (m - n) + l = i
        BY <3>0, <3>2, <1>1
      <4> HIDE DEF l
      <4>2. (a \o b)[i] = b[l]
        BY <4>1, <2>1
      <4>3. b[l] = rest[l]
        BY <4>1, <1>6
      <4>4. rest[l] = t[m + l]
        BY <4>1, <1>2
      <4>q. QED
        BY <3>0, <4>1, <4>2, <4>3, <4>4
    <3>3. i <= m - n \/ i > m - n
      BY <3>0, <1>1
    <3>q. QED
      BY <3>1, <3>2, <3>3
  <2>3. Len(a \o b) = Len(d)
    BY <2>1, <1>1, <1>4
  <2>q. QED
    BY <2>1, <2>2, <2>3, <1>4, SeqEqual
<1>9. c = e
  <2>1. Len(c) = Len(e)
    BY <1>1, <1>2, <1>5, <1>7
  <2>2. ASSUME NEW i \in 1..Len(e) PROVE c[i] = e[i]
    <3>1. i \in 1..(Len(rest) - k) /\ k + i \in 1..(Len(t) - m) /\ m + (k + i) = m + k + i
      BY <1>1, <1>2, <1>5
    <3>2. c[i] = rest[k + i]
      BY <3>1, <1>7
    <3>3. rest[k + i] = t[m + (k + i)]
      BY <3>1, <1>2
    <3>4. e[i] = t[m + k + i]
      BY <1>5
    <3>q. QED
      BY <3>1, <3>2, <3>3, <3>4
  <2>q. QED
    BY <2>1, <2>2, <1>5, <1>7, SeqEqual
<1>q. QED
  BY <1>2, <1>8, <1>9 DEF a, b, c, d, e, rest

LEMMA ContentIs ==
  ASSUME NEW j
  PROVE  /\ Content(j, 0) = <<>> /\ Content(j, 2) = Whole(j)
         /\ \A k \in 0..2 : IsPrefix(Content(j, k), Whole(j))
<1>1. Content(j, 0) = <<>>
  BY DEF Content
<1>2. Content(j, 2) = Whole(j)
  BY DEF Content, Whole
<1>3. Content(j, 1) = << <<"plain", j>> >>
  BY DEF Content
<1>4. IsPrefix(<<>>, Whole(j)) /\ IsPrefix(Whole(j), Whole(j)) /\ IsPrefix(<< <<"plain", j>> >>, Whole(j))
  BY DEF IsPrefix, Whole
<1>q. QED
  BY <1>1, <1>2, <1>3, <1>4

(* The part from n to m of a body is decoded to the content in it.           *)
LEMMA PackedIn ==
  ASSUME NEW coding \in Coding, coding # "identity", NEW j \in Job,
         NEW m \in 0..BodyLength(coding), NEW n \in 0..m
  PROVE  Cardinality(Packed(SubSeq(Stream(coding, j), n + 1, m))) = Plain(coding, m) - Plain(coding, n)
<1> DEFINE s  == SubSeq(Stream(coding, j), n + 1, m)
           h  == HeadLength(coding)
           lo == IF h + 1 - n >= 1 THEN h + 1 - n ELSE 1
           hi == IF h + 2 - n <= m - n THEN h + 2 - n ELSE m - n
<1>1. h \in Nat /\ BodyLength(coding) \in Nat
  BY LengthsAre
<1>2. Len(s) = m - n /\ \A i \in 1..(m - n) : s[i] = Stream(coding, j)[n + i]
  BY StreamIs, SliceIs, <1>1
<1>3. \A i \in 1..(m - n) : s[i][1] = "packed" <=> h < n + i /\ n + i <= h + 2
  BY <1>1, <1>2, StreamIs
<1>4. lo \in Int /\ hi \in Int
  BY <1>1
<1>5. Packed(s) = lo..hi
  <2>1. ASSUME NEW i PROVE i \in Packed(s) <=> i \in lo..hi
    <3>1. i \in Packed(s) <=> i \in 1..(m - n) /\ h < n + i /\ n + i <= h + 2
      BY <1>2, <1>3 DEF Packed
    <3> HIDE DEF s, h
    <3>q. QED
      BY <1>1, <3>1
  <2>q. QED
    BY <2>1
<1>6. Cardinality(lo..hi) = IF lo > hi THEN 0 ELSE hi - lo + 1
  BY <1>4, FS_Interval
<1>7. (IF lo > hi THEN 0 ELSE hi - lo + 1) = Plain(coding, m) - Plain(coding, n)
  <2> HIDE DEF h
  <2>q. QED
    BY <1>1 DEF Plain, h
<1>q. QED
  BY <1>5, <1>6, <1>7

LEMMA DecodedIs ==
  ASSUME NEW coding \in Coding, NEW j \in Job,
         NEW m \in 0..BodyLength(coding), NEW n \in 0..m,
         NEW decoder, decoder = "none" <=> coding = "identity"
  PROVE  Content(j, Plain(coding, n)) \o Decoded(decoder, SubSeq(Stream(coding, j), n + 1, m))
           = Content(j, Plain(coding, m))
<1> DEFINE s == SubSeq(Stream(coding, j), n + 1, m)
           x == Decoded(decoder, s)
           p == Plain(coding, n)
           q == Plain(coding, m)
<1>1. /\ BodyLength(coding) \in Nat /\ p \in 0..2 /\ q \in 0..2
      /\ s \in Seq(Piece) /\ Len(s) = m - n
      /\ \A i \in 1..(m - n) : s[i] = Stream(coding, j)[n + i] /\ n + i \in 1..BodyLength(coding)
  BY LengthsAre, StreamIs, SliceIs
<1>2. q - p \in Nat /\ x = [i \in 1..(q - p) |-> <<"plain", j>>]
  <2>1. CASE coding = "identity"
    <3>1. x = s /\ q - p = m - n
      BY <1>1, <2>1 DEF Decoded, Plain, HeadLength, BodyLength
    <3>2. \A i \in 1..(m - n) : s[i] = <<"plain", j>>
      BY <1>1, <2>1, StreamIs
    <3>3. s = [i \in 1..(m - n) |-> s[i]]
      BY <1>1
    <3>4. s = [i \in 1..(m - n) |-> <<"plain", j>>]
      BY <3>2, <3>3
    <3>5. m - n \in Nat
      BY <1>1
    <3>q. QED
      BY ONLY <3>1, <3>4, <3>5
  <2>2. CASE coding # "identity"
    <3>1. x = Inflate(s) /\ Cardinality(Packed(s)) = q - p
      BY <2>2, PackedIn DEF Decoded
    <3>2. /\ q - p \in Nat /\ Inflate(s) = [i \in 1..(q - p) |-> Inflate(s)[i]]
          /\ \A i \in 1..(q - p) : \E k \in Packed(s) : Inflate(s)[i] = <<"plain", s[k][2]>>
      <4>1. Cardinality(Packed(s)) \in Nat
        BY <1>1, InflateIs
      <4>q. QED
        BY <1>1, <3>1, <4>1, InflateIs
    <3>3. \A k \in Packed(s) : s[k][2] = j
      BY <1>1, StreamIs DEF Packed
    <3>4. \A i \in 1..(q - p) : Inflate(s)[i] = <<"plain", j>>
      BY <3>2, <3>3
    <3>q. QED
      BY <3>1, <3>2, <3>4
  <2>q. QED
    BY <2>1, <2>2
<1> HIDE DEF p, q, x
<1>3. Content(j, p) = [i \in 1..p |-> <<"plain", j>>] /\ Content(j, q) = [i \in 1..q |-> <<"plain", j>>]
  BY DEF Content
<1>4. [i \in 1..p |-> <<"plain", j>>] \o [i \in 1..(q - p) |-> <<"plain", j>>] = [i \in 1..q |-> <<"plain", j>>]
  <2> DEFINE u == [i \in 1..p |-> <<"plain", j>>]
             v == [i \in 1..(q - p) |-> <<"plain", j>>]
             w == [i \in 1..q |-> <<"plain", j>>]
             T == {<<"plain", j>>}
  <2>1. p \in Nat /\ q \in Nat /\ q - p \in Nat
    BY <1>1, <1>2
  <2>2. u \in Seq(T) /\ Len(u) = p /\ v \in Seq(T) /\ Len(v) = q - p /\ w \in Seq(T) /\ Len(w) = q
    BY <2>1
  <2>3. /\ \A i \in 1..p : u[i] = <<"plain", j>>
        /\ \A i \in 1..(q - p) : v[i] = <<"plain", j>>
        /\ \A i \in 1..q : w[i] = <<"plain", j>>
    OBVIOUS
  <2> HIDE DEF u, v, w, T
  <2>4. /\ u \o v \in Seq(T) /\ Len(u \o v) = p + (q - p)
        /\ \A i \in 1..p : (u \o v)[i] = u[i]
        /\ \A i \in 1..(q - p) : (u \o v)[p + i] = v[i]
    <3>1. u \in Seq(T) /\ v \in Seq(T)
      BY <2>2
    <3>2. /\ u \o v \in Seq(T) /\ Len(u \o v) = Len(u) + Len(v)
          /\ \A i \in 1..Len(u) : (u \o v)[i] = u[i]
          /\ \A i \in 1..Len(v) : (u \o v)[Len(u) + i] = v[i]
      BY ONLY <3>1, JoinFacts
    <3>3. Len(u) = p /\ Len(v) = q - p
      BY <2>2
    <3>q. QED
      BY ONLY <3>2, <3>3
  <2>5. ASSUME NEW i \in 1..q PROVE (u \o v)[i] = w[i]
    <3>1. CASE i \in 1..p
      BY <3>1, <2>3, <2>4
    <3>2. CASE i - p \in 1..(q - p)
      <4>1. p + (i - p) = i
        BY <2>1
      <4>2. (u \o v)[p + (i - p)] = v[i - p]
        BY <3>2, <2>4
      <4>q. QED
        BY <3>2, <4>1, <4>2, <2>3
    <3>3. i \in 1..p \/ i - p \in 1..(q - p)
      BY <2>1
    <3>q. QED
      BY <3>1, <3>2, <3>3
  <2>7. Len(u \o v) = q
    BY <2>1, <2>4
  <2>6. u \o v = w
    BY <2>2, <2>4, <2>5, <2>7, SeqEqual
  <2>q. QED
    BY <2>6 DEF u, v, w
<1>q. QED
  BY <1>2, <1>3, <1>4 DEF p, q, x

(* Of its own body a decompressor fails with nothing but a gzip head.        *)
LEMMA OutcomesAre ==
  ASSUME NEW coding \in Coding, NEW j \in Job,
         NEW m \in 0..BodyLength(coding), NEW n \in 0..m,
         NEW decoder, decoder = "none" <=> coding = "identity",
         NEW ok \in Outcomes(j, decoder, SubSeq(Stream(coding, j), n + 1, m)), ~ok
  PROVE  decoder = "gzip"
<1> DEFINE s == SubSeq(Stream(coding, j), n + 1, m)
<1>1. /\ BodyLength(coding) \in Nat /\ Len(s) = m - n
      /\ \A i \in 1..(m - n) : s[i] = Stream(coding, j)[n + i] /\ n + i \in 1..BodyLength(coding)
  BY LengthsAre, StreamIs, SliceIs
<1>2. \A i \in 1..Len(s) : s[i][2] = j /\ (s[i][1] = "plain" <=> coding = "identity")
  BY <1>1, StreamIs
<1>3. Outcomes(j, decoder, s) = {~Corrupt(decoder, s)}
  BY <1>2 DEF Outcomes
<1>4. Corrupt(decoder, s)
  BY <1>3
<1>5. decoder # "none" /\ (decoder = "gzip" \/ "plain" \in Kinds(s))
  BY <1>4 DEF Corrupt
<1>6. "plain" \in Kinds(s) => coding = "identity"
  BY <1>2 DEF Kinds
<1>q. QED
  BY <1>5, <1>6

-----------------------------------------------------------------------------
(* What a load has read of its own body.                                     *)

(* n pieces of the body of load j have been read, m have come.               *)
Received(job, ref, j, n, m) ==
  LET body == Stream(job.coding, j)
  IN /\ n \in 0..m /\ m \in 0..BodyLength(job.coding)
     /\ ref.data = SubSeq(body, n + 1, m)
     /\ ref.proto = "body" => /\ ref.coming = SubSeq(body, m + 1, Len(body))
                              /\ job.method # "HEAD"
     /\ ref.proto = "sent" => m = 0
     /\ ref.proto = "done" => IF job.method = "HEAD" THEN m = 0
                              ELSE m = BodyLength(job.coding) \/ ~job.sized
     /\ job.got = Content(j, Plain(job.coding, n))
     /\ job.decoder = "none" <=> job.coding = "identity"
     /\ job.decoder = "gzip" => job.coding = "gzip" /\ n = 0

Handed(job, j) ==
  LET whole == IF job.method = "HEAD" THEN <<>> ELSE Whole(j)
  IN job.got = whole \/ (~job.sized /\ IsPrefix(job.got, whole))

Caused(job, ref) ==
  \/ job.late
  \/ job.ref # None /\ ref.proto = "fail"
  \/ job.ref # None /\ ref.proto # "sent" /\ job.coding = "gzip" /\ job.got = <<>>

Right(job, ref, j) ==
  /\ job.at = "connect" => job.got = <<>> /\ job.decoder = "none" /\ job.coding = "identity"
  /\ job.at = "transfer" /\ job.ref # None => \E n, m \in 0..5 : Received(job, ref, j, n, m)
  /\ job.at \in {"disconnect", "shutdown"} => job.ref # None /\ ref.proto = "done" /\ Handed(job, j)
  /\ job.at = "failed" => Caused(job, ref)

AllRight == overcommitted \/ \A j \in Job : Right(jobs[j], refs[jobs[j].ref], j)

LEMMA VerdictFollows == AllRight => VerdictIsRight
BY DEF AllRight, VerdictIsRight, SuccessIsWhole, FailureHasCause, Right, Handed, Caused, Ended, Failed

(* A load that has a connection has it alone.                                *)
LEMMA OwnConnection ==
  ASSUME Typed, IInv, ~overcommitted, NEW j \in Job, jobs[j].ref # None
  PROVE  /\ jobs[j].ref \in Ref /\ jobs[j].cmd = "active"
         /\ refs[jobs[j].ref].user = j /\ refs[jobs[j].ref].state = "busy"
         /\ jobs[j].at # "connect" /\ j \in Running
         /\ \A k \in Job : jobs[k].ref = jobs[j].ref => k = j
<1>1. jobs[j].ref \in Ref /\ jobs[j].at # "connect" /\ j \in Running
  BY DEF IInv, Shaped, Placed
<1>2. refs[jobs[j].ref].state = "busy" /\ \A k \in Job : jobs[k].ref = jobs[j].ref => k = j
  BY DEF IInv, Alone
<1>3. /\ refs[jobs[j].ref].user \in Job /\ jobs[refs[jobs[j].ref].user].cmd = "active"
      /\ jobs[refs[jobs[j].ref].user].ref = jobs[j].ref
  BY <1>1, <1>2 DEF IInv, CallbackAlive, Running
<1>q. QED
  BY <1>1, <1>2, <1>3

(* A load that a step does not touch, nor its connection.                    *)
LEMMA StaysRight ==
  ASSUME NEW j \in Job, Right(jobs[j], refs[jobs[j].ref], j), jobs'[j] = jobs[j],
         jobs[j].ref # None => refs'[jobs[j].ref] = refs[jobs[j].ref]
  PROVE  Right(jobs'[j], refs'[jobs'[j].ref], j)
<1>1. CASE jobs[j].ref # None
  BY <1>1
<1>2. CASE jobs[j].ref = None
  BY <1>2 DEF Right, Caused
<1>q. QED
  BY <1>1, <1>2

LEMMA InitRight == Init => AllRight
<1> SUFFICES ASSUME Init PROVE AllRight
  OBVIOUS
<1>1. ASSUME NEW j \in Job PROVE jobs[j].at = "none"
  BY DEF Init, NoJob, NewJob
<1>q. QED
  BY <1>1 DEF AllRight, Right

LEMMA InitJobRight == ASSUME AllRight, Typed, NEW j \in Job, InitJob(j) PROVE AllRight'
<1>1. SUFFICES ASSUME ~overcommitted', NEW k \in Job PROVE Right(jobs'[k], refs'[jobs'[k].ref], k)
  BY DEF AllRight
<1>2. ~overcommitted /\ refs' = refs /\ DOMAIN jobs = Job
  BY <1>1 DEF InitJob, Typed, TypeOK
<1>3. PICK m \in Methods[j], f \in Forms \cup {<<>>} : jobs' = [jobs EXCEPT ![j] = NewJob(m, f)]
  BY DEF InitJob
<1>4. CASE k = j
  <2>1. /\ jobs'[j].at = "connect" /\ jobs'[j].got = <<>> /\ jobs'[j].decoder = "none"
        /\ jobs'[j].coding = "identity"
    BY <1>2, <1>3 DEF NewJob
  <2>q. QED
    BY <1>4, <2>1 DEF Right
<1>5. CASE k # j
  BY <1>2, <1>3, <1>5, StaysRight DEF AllRight
<1>q. QED
  BY <1>4, <1>5

LEMMA CallerRight ==
  ASSUME AllRight, Typed, NEW j \in Job, Cancel(j) \/ DeadlinePasses(j) \/ Disconnect(j)
  PROVE  AllRight'
<1>1. SUFFICES ASSUME ~overcommitted', NEW k \in Job PROVE Right(jobs'[k], refs'[jobs'[k].ref], k)
  BY DEF AllRight
<1>2. ~overcommitted /\ refs' = refs /\ DOMAIN jobs = Job /\ jobs[j] \in Load
  BY <1>1 DEF Cancel, DeadlinePasses, Disconnect, Typed, TypeOK
<1>3. Right(jobs[k], refs[jobs[k].ref], k)
  BY <1>2 DEF AllRight
<1>4. CASE k = j
  <2>1. /\ jobs'[j].ref = jobs[j].ref /\ jobs'[j].got = jobs[j].got /\ jobs'[j].method = jobs[j].method
        /\ jobs'[j].coding = jobs[j].coding /\ jobs'[j].decoder = jobs[j].decoder
        /\ jobs'[j].sized = jobs[j].sized
        /\ \/ jobs'[j].at = jobs[j].at /\ (jobs[j].late => jobs'[j].late)
           \/ jobs[j].at = "disconnect" /\ jobs'[j].at = "shutdown"
    BY <1>2 DEF Cancel, DeadlinePasses, Disconnect, Load
  <2>2. \A n, m : Received(jobs[j], refs[jobs[j].ref], j, n, m)
                    => Received(jobs'[j], refs[jobs[j].ref], j, n, m)
    BY <2>1 DEF Received
  <2>3. Handed(jobs'[j], j) <=> Handed(jobs[j], j)
    BY <2>1 DEF Handed
  <2>q. QED
    BY <1>2, <1>3, <1>4, <2>1, <2>2, <2>3 DEF Right, Caused
<1>5. CASE k # j
  <2>1. jobs'[k] = jobs[k]
    BY <1>5, <1>2 DEF Cancel, DeadlinePasses, Disconnect
  <2>q. QED
    BY <1>2, <1>3, <2>1, StaysRight
<1>q. QED
  BY <1>4, <1>5

LEMMA ConnectRight ==
  ASSUME AllRight, Typed, IInv, NEW j \in Job, Connect(j)
  PROVE  AllRight'
<1>1. SUFFICES ASSUME ~overcommitted', NEW k \in Job PROVE Right(jobs'[k], refs'[jobs'[k].ref], k)
  BY DEF AllRight
<1>2. /\ ~overcommitted /\ DOMAIN jobs = Job /\ DOMAIN refs = Ref /\ jobs[j] \in Load
      /\ jobs[j].at = "connect"
  BY <1>1 DEF Connect, Typed, TypeOK
<1>3. Right(jobs[k], refs[jobs[k].ref], k) /\ Right(jobs[j], refs[jobs[j].ref], j)
  BY <1>2 DEF AllRight
<1>4. jobs[j].ref = None /\ j \in Running
  BY <1>2 DEF IInv, Placed, Running
<1>5. CASE jobs' = [jobs EXCEPT ![j].at = "transfer"] /\ refs' = refs
  <2>1. jobs'[j].at = "transfer" /\ jobs'[j].ref = None
    BY <1>2, <1>4, <1>5 DEF Load
  <2>2. CASE k = j
    BY <2>1, <2>2 DEF Right
  <2>3. CASE k # j
    BY <1>2, <1>3, <1>5, <2>3, StaysRight
  <2>q. QED
    BY <2>2, <2>3
<1>6. ASSUME NEW r \in LeastUsed, Request(j, r)
      PROVE  Right(jobs'[k], refs'[jobs'[k].ref], k)
  <2> DEFINE read == [ReadData(jobs[j]) EXCEPT !.at = "transfer", !.ref = r]
             ref  == [refs[r] EXCEPT !.transactions = refs[r].transactions + 1]
  <2>1. refs[r].transactions = 0 /\ Users(r) = {} /\ r \in Ref /\ r # None /\ refs[r] \in Connection
    BY <1>2, <1>4, LeastUsedIsFree, PoolAssumption DEF LeastUsed, Typed, TypeOK
  <2>2. ref.transactions = 1 /\ DOMAIN ref = RefFields
    BY <2>1 DEF Connection, RefFields
  <2>3. /\ jobs' = [jobs EXCEPT ![j] = Issued(read, Upload(read))]
        /\ refs' = [refs EXCEPT ![r] = Begun(ref, j)]
    BY <1>6, <2>2 DEF Request
  <2>4. /\ DOMAIN read = LoadFields /\ read.at = "transfer" /\ read.ref = r
        /\ read.got = <<>> /\ read.decoder = "none" /\ read.coding = "identity"
    BY <1>2, <1>3 DEF ReadData, Load, LoadFields, Right
  <2> HIDE DEF read, ref
  <2>5. CASE k = j
    <3>1. /\ jobs'[j].at = "transfer" /\ jobs'[j].ref = r /\ jobs'[j].got = <<>>
          /\ jobs'[j].decoder = "none" /\ jobs'[j].coding = "identity"
      BY <1>2, <2>3, <2>4 DEF Issued, LoadFields
    <3>2. refs'[r].proto = "sent" /\ refs'[r].data = <<>>
      BY <1>2, <2>1, <2>2, <2>3 DEF Begun, RefFields
    <3>3. Received(jobs'[j], refs'[r], j, 0, 0)
      <4>1. /\ BodyLength("identity") \in 0..5 /\ Content(j, Plain("identity", 0)) = <<>>
            /\ Stream("identity", j) \in Seq(Piece)
        BY LengthsAre, ContentIs, StreamType DEF Coding
      <4>2. SubSeq(Stream("identity", j), 0 + 1, 0) = <<>>
        BY <4>1, SubSeqEmpty
      <4>q. QED
        BY <3>1, <3>2, <4>1, <4>2 DEF Received
    <3>q. QED
      BY <2>5, <3>1, <3>3 DEF Right
  <2>6. CASE k # j
    <3>1. jobs'[k] = jobs[k] /\ jobs[k].ref # r
      BY <1>2, <2>1, <2>3, <2>6 DEF Users
    <3>2. jobs[k].ref # None => refs'[jobs[k].ref] = refs[jobs[k].ref]
      BY <1>2, <2>3, <3>1
    <3>q. QED
      BY <1>3, <3>1, <3>2, StaysRight
  <2>q. QED
    BY <2>5, <2>6
<1>q. QED
  BY <1>5, <1>6 DEF Connect

LEMMA StartQueuedRight ==
  ASSUME IInv, NEW r \in Ref, StartQueued(r)
  PROVE  AllRight'
<1>1. PICK j \in Job : jobs[j].ref = r
  BY DEF StartQueued, IInv, Shaped
<1>2. overcommitted /\ overcommitted' = overcommitted
  BY <1>1, PoolAssumption DEF IInv, Alone, StartQueued
<1>q. QED
  BY <1>2 DEF AllRight

LEMMA ShutdownJobRight ==
  ASSUME AllRight, Typed, IInv, NEW j \in Job, ShutdownJob(j)
  PROVE  AllRight'
<1>1. SUFFICES ASSUME ~overcommitted', NEW k \in Job PROVE Right(jobs'[k], refs'[jobs'[k].ref], k)
  BY DEF AllRight
<1>2. /\ ~overcommitted /\ DOMAIN jobs = Job /\ j \in Running
      /\ jobs' = [jobs EXCEPT ![j] = NoJob("over")]
      /\ refs' = [r \in Ref |-> IF r = jobs[j].ref THEN Freed(refs[r]) ELSE refs[r]]
  BY <1>1 DEF ShutdownJob, Typed, TypeOK, Running
<1>3. CASE k = j
  <2>1. jobs'[j].at = "over"
    BY <1>2 DEF NoJob, NewJob
  <2>q. QED
    BY <1>3, <2>1 DEF Right
<1>4. CASE k # j
  <2>1. jobs'[k] = jobs[k]
    BY <1>2, <1>4
  <2>2. jobs[k].ref # None => refs'[jobs[k].ref] = refs[jobs[k].ref]
    BY <1>2, <1>4, OwnConnection
  <2>q. QED
    BY <1>2, <2>1, <2>2, StaysRight DEF AllRight
<1>q. QED
  BY <1>3, <1>4

(* The network, for the load that has the connection.                        *)
LEMMA UpdateRight ==
  ASSUME AllRight, Typed, IInv, NEW r \in Ref, Update(r)
  PROVE  AllRight'
<1>1. SUFFICES ASSUME ~overcommitted' PROVE AllRight'
  BY DEF AllRight
<1> DEFINE j == refs[r].user
<1>2. /\ ~overcommitted /\ DOMAIN jobs = Job /\ DOMAIN refs = Ref /\ refs[r].state = "busy"
      /\ refs[r] \in Connection /\ refs[r].proto \in {"sent", "body"} /\ r # None
  BY <1>1, PoolAssumption DEF Update, Updating, Respond, Redirect, Arrive, ServerCloses, ConnectionFails,
         Typed, TypeOK
<1>3. j \in Job /\ jobs[j].ref = r /\ jobs[j] \in Load /\ j \in Running
  BY <1>2 DEF IInv, CallbackAlive, Running, Typed, TypeOK
<1>4. /\ jobs[j].at \in {"transfer", "failed", "disconnect", "shutdown"}
      /\ \A k \in Job : jobs[k].ref = r => k = j
  BY <1>2, <1>3, OwnConnection DEF Load, Running
<1>5. Right(jobs[j], refs[r], j)
  BY <1>2, <1>3 DEF AllRight
<1> HIDE DEF j
<1>6. jobs[j].at \in {"transfer", "failed"}
  BY <1>2, <1>4, <1>5 DEF Right
<1>7. ASSUME jobs'[j].ref = r, Right(jobs'[j], refs'[r], j),
             \A k \in Job \ {j} : jobs'[k] = jobs[k],
             \A x \in Ref \ {r} : refs'[x] = refs[x]
      PROVE  AllRight'
  <2>1. SUFFICES ASSUME NEW k \in Job PROVE Right(jobs'[k], refs'[jobs'[k].ref], k)
    BY DEF AllRight
  <2>2. CASE k = j
    BY <2>2, <1>7
  <2>3. CASE k # j
    <3>1. jobs[k].ref # r /\ jobs'[k] = jobs[k]
      BY <1>4, <1>7, <2>3
    <3>2. jobs[k].ref # None => refs'[jobs[k].ref] = refs[jobs[k].ref]
      BY <1>7, <3>1 DEF IInv, Shaped
    <3>3. Right(jobs[k], refs[jobs[k].ref], k)
      BY <1>2 DEF AllRight
    <3>q. QED
      BY <3>1, <3>2, <3>3, StaysRight
  <2>q. QED
    BY <2>2, <2>3
<1>8. Codings[j] \subseteq Coding
  BY <1>3, InputAssumption
(* A response or a redirection.                                              *)
<1>9. ASSUME NEW coding \in Codings[j], NEW sized \in BOOLEAN, RecvHeader(r, coding, sized)
      PROVE  /\ DOMAIN jobs' = Job /\ \A k \in Job \ {j} : jobs'[k] = jobs[k]
             /\ jobs'[j].at = jobs[j].at /\ jobs'[j].ref = r /\ jobs'[j].method = jobs[j].method
             /\ jobs'[j].late = jobs[j].late /\ jobs'[j].got = jobs[j].got
             /\ jobs'[j].decoder = SetupStreamDecompressor(jobs[j].decoder, coding)
             /\ jobs'[j].coding = coding /\ jobs'[j].sized = sized
  BY <1>2, <1>3, <1>9 DEF RecvHeader, j, Load
<1>10. ASSUME refs[r].proto = "sent", NEW coding \in Codings[j], NEW sized \in BOOLEAN,
              RecvHeader(r, coding, sized), refs'[r].data = refs[r].data,
              \/ refs'[r].proto = "body" /\ refs'[r].coming = Stream(coding, j) /\ jobs[j].method # "HEAD"
              \/ refs'[r].proto = "done" /\ jobs[j].method = "HEAD"
              \/ refs'[r].proto \in {"sent", "fail"}
       PROVE  Right(jobs'[j], refs'[r], j)
  <2>0. coding \in Coding
    BY <1>8
  <2>1. CASE jobs[j].at = "failed"
    <3>1. jobs[j].late
      BY <2>1, <1>5, <1>10 DEF Right, Caused
    <3>q. QED
      BY <2>1, <3>1, <1>9, <1>10 DEF Right, Caused
  <2>2. CASE jobs[j].at = "transfer"
    <3>1. PICK n, m \in 0..5 : Received(jobs[j], refs[r], j, n, m)
      BY <2>2, <1>2, <1>3, <1>5 DEF Right
    <3>2. /\ n = 0 /\ m = 0
          /\ refs[r].data = SubSeq(Stream(jobs[j].coding, j), 0 + 1, 0)
          /\ jobs[j].got = Content(j, Plain(jobs[j].coding, 0))
      BY <3>1, <1>10 DEF Received
    <3>3. Plain(coding, 0) = 0 /\ Plain(jobs[j].coding, 0) = 0 /\ BodyLength(coding) \in 0..5
      BY <2>0, <1>3, LengthsAre DEF Load
    <3>4. /\ Stream(coding, j) \in Seq(Piece) /\ Stream(jobs[j].coding, j) \in Seq(Piece)
          /\ SubSeq(Stream(coding, j), 0 + 1, Len(Stream(coding, j))) = Stream(coding, j)
      BY <2>0, <1>3, StreamType DEF Load
    <3>5. SubSeq(Stream(coding, j), 0 + 1, 0) = <<>> /\ SubSeq(Stream(jobs[j].coding, j), 0 + 1, 0) = <<>>
      BY <3>4, SubSeqEmpty
    <3>6. /\ SetupStreamDecompressor(jobs[j].decoder, coding) = "none" <=> coding = "identity"
          /\ SetupStreamDecompressor(jobs[j].decoder, coding) = "gzip" => coding = "gzip"
      BY <2>0 DEF SetupStreamDecompressor, Coding
    <3>7. Received(jobs'[j], refs'[r], j, 0, 0)
      BY <1>9, <1>10, <3>2, <3>3, <3>4, <3>5, <3>6 DEF Received
    <3>q. QED
      BY <2>2, <3>7, <1>9, <1>10 DEF Right
  <2>q. QED
    BY <2>1, <2>2, <1>6
<1>11. CASE Respond(r)
  <2>1. PICK coding \in Codings[j], sized \in BOOLEAN :
          /\ RecvHeader(r, coding, sized)
          /\ refs' = [refs EXCEPT ![r] =
               IF jobs[j].method = "HEAD" THEN [refs[r] EXCEPT !.proto = "done"]
               ELSE [refs[r] EXCEPT !.proto = "body", !.coming = Stream(coding, j)]]
    BY <1>2, <1>11 DEF Respond, j
  <2>2. /\ refs[r].proto = "sent" /\ refs'[r].data = refs[r].data
        /\ \/ refs'[r].proto = "body" /\ refs'[r].coming = Stream(coding, j) /\ jobs[j].method # "HEAD"
           \/ refs'[r].proto = "done" /\ jobs[j].method = "HEAD"
    BY <1>2, <1>11, <2>1 DEF Respond, Updating, Connection
  <2>3. \A x \in Ref \ {r} : refs'[x] = refs[x]
    BY <1>2, <2>1
  <2>4. Right(jobs'[j], refs'[r], j)
    BY <2>1, <2>2, <1>10
  <2>q. QED
    BY <2>1, <2>3, <2>4, <1>7, <1>9
<1>12. CASE Redirect(r)
  <2>1. PICK coding \in Codings[j] : RecvHeader(r, coding, TRUE)
    BY <1>12 DEF Redirect, j
  <2>2. /\ refs[r].proto = "sent" /\ refs'[r].data = refs[r].data
        /\ refs'[r].proto \in {"sent", "fail"}
        /\ \A x \in Ref \ {r} : refs'[x] = refs[x]
    BY <1>2, <1>12 DEF Redirect, Updating, Connection
  <2>3. Right(jobs'[j], refs'[r], j)
    BY <2>1, <2>2, <1>10
  <2>q. QED
    BY <2>1, <2>2, <2>3, <1>7, <1>9
(* More of a body, or its end.                                               *)
<1>13. ASSUME Arrive(r) \/ ServerCloses(r) \/ ConnectionFails(r)
       PROVE  /\ jobs' = jobs /\ \A x \in Ref \ {r} : refs'[x] = refs[x]
              /\ DOMAIN refs'[r] = RefFields
  BY <1>2, <1>13 DEF Arrive, ServerCloses, ConnectionFails, Connection, RefFields
<1>14. ASSUME Arrive(r) \/ ServerCloses(r) \/ ConnectionFails(r), jobs[j].at = "failed",
              refs'[r].proto # "sent", refs[r].proto # "fail"
       PROVE  Right(jobs'[j], refs'[r], j)
  BY <1>5, <1>13, <1>14 DEF Right, Caused
<1>15. CASE Arrive(r)
  <2>1. PICK k \in 1..Len(refs[r].coming) : refs' = [refs EXCEPT
          ![r].data = refs[r].data \o SubSeq(refs[r].coming, 1, k),
          ![r].coming = SubSeq(refs[r].coming, k + 1, Len(refs[r].coming)),
          ![r].proto = IF k = Len(refs[r].coming) THEN "done" ELSE "body"]
    BY <1>15 DEF Arrive
  <2>2. /\ refs'[r].data = refs[r].data \o SubSeq(refs[r].coming, 1, k)
        /\ refs'[r].coming = SubSeq(refs[r].coming, k + 1, Len(refs[r].coming))
        /\ refs'[r].proto = IF k = Len(refs[r].coming) THEN "done" ELSE "body"
    BY <1>2, <2>1 DEF Connection
  <2>3. refs[r].proto = "body"
    BY <1>15 DEF Arrive, Updating
  <2>4. ASSUME jobs[j].at = "failed" PROVE Right(jobs'[j], refs'[r], j)
    BY <1>14, <1>15, <2>2, <2>3, <2>4
  <2>5. ASSUME jobs[j].at = "transfer" PROVE Right(jobs'[j], refs'[r], j)
    <3> DEFINE body == Stream(jobs[j].coding, j)
    <3>1. PICK n, m \in 0..5 : Received(jobs[j], refs[r], j, n, m)
      BY <2>5, <1>2, <1>3, <1>5 DEF Right
    <3>2. /\ body \in Seq(Piece) /\ Len(body) = BodyLength(jobs[j].coding)
          /\ BodyLength(jobs[j].coding) \in 0..5
      BY <1>3, StreamIs, LengthsAre DEF Load
    <3>3. /\ n \in 0..m /\ m \in 0..Len(body) /\ refs[r].data = SubSeq(body, n + 1, m)
          /\ refs[r].coming = SubSeq(body, m + 1, Len(body)) /\ jobs[j].method # "HEAD"
      BY <3>1, <3>2, <2>3 DEF Received
    <3> HIDE DEF body
    <3>4. Len(refs[r].coming) = Len(body) - m /\ k \in 0..(Len(body) - m)
      <4>1. Len(refs[r].coming) = Len(body) - m
        BY <3>2, <3>3, SliceIs
      <4>q. QED
        BY <4>1, <3>2, <3>3
    <3>5. /\ refs'[r].data = SubSeq(body, n + 1, m + k)
          /\ refs'[r].coming = SubSeq(body, m + k + 1, Len(body))
      BY <3>2, <3>3, <3>4, <2>2, SlicesMeet
    <3>6. /\ m + k \in 0..5 /\ m + k \in 0..Len(body) /\ n \in 0..(m + k)
          /\ k = Len(refs[r].coming) => m + k = Len(body)
      BY <3>2, <3>3, <3>4
    <3>7. Received(jobs[j], refs'[r], j, n, m + k)
      BY <3>1, <3>2, <3>3, <3>5, <3>6, <2>2 DEF Received, body
    <3>q. QED
      BY <2>5, <3>1, <3>6, <3>7, <1>13, <1>15 DEF Right
  <2>q. QED
    BY <2>4, <2>5, <1>3, <1>6, <1>7, <1>13, <1>15
<1>16. CASE ServerCloses(r)
  <2>1. /\ refs'[r].proto = IF jobs[j].sized THEN "fail" ELSE "done"
        /\ refs'[r].data = refs[r].data /\ refs[r].proto = "body"
    BY <1>2, <1>16 DEF ServerCloses, Updating, Connection, j
  <2>2. ASSUME jobs[j].at = "failed" PROVE Right(jobs'[j], refs'[r], j)
    BY <1>14, <1>16, <2>1, <2>2
  <2>3. ASSUME jobs[j].at = "transfer" PROVE Right(jobs'[j], refs'[r], j)
    <3>1. PICK n, m \in 0..5 : Received(jobs[j], refs[r], j, n, m)
      BY <2>3, <1>2, <1>3, <1>5 DEF Right
    <3>2. Received(jobs[j], refs'[r], j, n, m)
      BY <3>1, <2>1 DEF Received
    <3>q. QED
      BY <2>3, <3>2, <1>13, <1>16 DEF Right
  <2>q. QED
    BY <2>2, <2>3, <1>3, <1>6, <1>7, <1>13, <1>16
<1>17. CASE ConnectionFails(r)
  <2>1. refs'[r].proto = "fail" /\ refs'[r].data = refs[r].data
    BY <1>2, <1>17 DEF ConnectionFails, Connection
  <2>2. ASSUME jobs[j].at = "failed" PROVE Right(jobs'[j], refs'[r], j)
    BY <1>2, <1>14, <1>17, <2>1, <2>2
  <2>3. ASSUME jobs[j].at = "transfer" PROVE Right(jobs'[j], refs'[r], j)
    <3>1. PICK n, m \in 0..5 : Received(jobs[j], refs[r], j, n, m)
      BY <2>3, <1>2, <1>3, <1>5 DEF Right
    <3>2. Received(jobs[j], refs'[r], j, n, m)
      BY <3>1, <2>1 DEF Received
    <3>q. QED
      BY <2>3, <3>2, <1>13, <1>17 DEF Right
  <2>q. QED
    BY <2>2, <2>3, <1>3, <1>6, <1>7, <1>13, <1>17
<1>q. QED
  BY <1>11, <1>12, <1>15, <1>16, <1>17 DEF Update

LEMMA TransferRight ==
  ASSUME AllRight, Typed, IInv, NEW j \in Job, Transfer(j)
  PROVE  AllRight'
<1>1. SUFFICES ASSUME ~overcommitted' PROVE AllRight'
  BY DEF AllRight
<1>2. /\ ~overcommitted /\ DOMAIN jobs = Job /\ DOMAIN refs = Ref /\ jobs[j] \in Load
      /\ jobs[j].at = "transfer" /\ jobs[j].ref \in Ref \cup {None}
  BY <1>1 DEF Transfer, Typed, TypeOK, Load
<1> DEFINE r == jobs[j].ref
<1>3. ASSUME jobs' = [jobs EXCEPT ![j] = jobs'[j]], jobs'[j].ref = r, Right(jobs'[j], refs'[r], j),
             \A x \in Ref : x # r => refs'[x] = refs[x]
      PROVE  AllRight'
  <2>1. SUFFICES ASSUME NEW k \in Job PROVE Right(jobs'[k], refs'[jobs'[k].ref], k)
    BY DEF AllRight
  <2>2. CASE k = j
    BY <2>2, <1>3
  <2>3. CASE k # j
    <3>1. jobs'[k] = jobs[k]
      BY <1>2, <1>3, <2>3
    <3>2. jobs[k].ref # None => refs'[jobs[k].ref] = refs[jobs[k].ref]
      <4>1. SUFFICES ASSUME jobs[k].ref # None PROVE refs'[jobs[k].ref] = refs[jobs[k].ref]
        OBVIOUS
      <4>2. jobs[k].ref \in Ref /\ jobs[k].ref # r
        BY <4>1, <1>2, <2>3, OwnConnection
      <4>q. QED
        BY <4>2, <1>3
    <3>3. Right(jobs[k], refs[jobs[k].ref], k)
      BY <1>2 DEF AllRight
    <3>q. QED
      BY <3>1, <3>2, <3>3, StaysRight
  <2>q. QED
    BY <2>2, <2>3
<1>4. Right(jobs[j], refs[r], j)
  BY <1>2 DEF AllRight
<1>5. ASSUME Fail(j)
      PROVE  /\ jobs' = [jobs EXCEPT ![j] = jobs'[j]] /\ jobs'[j].at = "failed" /\ jobs'[j].ref = r
             /\ jobs'[j].late = jobs[j].late /\ jobs'[j].coding = jobs[j].coding
             /\ jobs'[j].got = jobs[j].got
  BY <1>2, <1>5 DEF Fail, Load
<1>6. CASE TransferWaits(j)
  <2>1. Right(jobs'[j], refs'[r], j)
    BY <1>5, <1>6 DEF TransferWaits, Right, Caused
  <2>q. QED
    BY <1>3, <1>5, <1>6, <2>1 DEF TransferWaits
<1>7. CASE TransferFails(j)
  <2>1. r # None /\ refs[r].proto = "fail" /\ refs' = refs
    BY <1>7 DEF TransferFails, Typed, Linked
  <2>2. Right(jobs'[j], refs'[r], j)
    BY <1>5, <1>7, <2>1 DEF TransferFails, Right, Caused
  <2>q. QED
    BY <1>3, <1>5, <1>7, <2>1, <2>2 DEF TransferFails
<1>8. CASE TransferData(j)
  <2> DEFINE s       == refs[r].data
             ended   == refs[r].proto = "done"
             got     == jobs[j].got \o Decoded(jobs[j].decoder, s)
             decoder == IF s # <<>> /\ jobs[j].decoder = "gzip" THEN "inflate" ELSE jobs[j].decoder
             at      == CASE ended -> "disconnect"
                          [] ~ended /\ jobs[j].late -> "failed"
                          [] OTHER -> "transfer"
             coding  == jobs[j].coding
  <2>1. /\ r \in Ref /\ r # None /\ refs[r] \in Connection /\ refs[r].proto \in {"body", "done"}
        /\ refs' = [refs EXCEPT ![r].data = <<>>]
    BY <1>2, <1>8, PoolAssumption DEF TransferData, Typed, TypeOK, Linked
  <2>2. PICK ok \in Outcomes(j, jobs[j].decoder, s) :
          IF ~ok THEN Fail(j)
          ELSE jobs' = [jobs EXCEPT ![j].got = got, ![j].decoder = decoder, ![j].at = at]
    BY <1>8 DEF TransferData
  <2>3. refs'[r].proto = refs[r].proto /\ refs'[r].data = <<>> /\ refs'[r].coming = refs[r].coming
    BY <1>2, <2>1 DEF Connection
  <2>4. \A x \in Ref : x # r => refs'[x] = refs[x]
    BY <1>2, <2>1
  <2>5. PICK n, m \in 0..5 : Received(jobs[j], refs[r], j, n, m)
    BY <1>2, <1>4, <2>1 DEF Right
  <2>6. /\ coding \in Coding /\ n \in 0..m /\ m \in 0..BodyLength(coding) /\ m \in Nat /\ n \in Nat
        /\ s = SubSeq(Stream(coding, j), n + 1, m)
        /\ jobs[j].got = Content(j, Plain(coding, n))
        /\ jobs[j].decoder = "none" <=> coding = "identity"
        /\ jobs[j].decoder = "gzip" => coding = "gzip" /\ n = 0
        /\ ended => IF jobs[j].method = "HEAD" THEN m = 0 ELSE m = BodyLength(coding) \/ ~jobs[j].sized
    BY <1>2, <2>5 DEF Received, Load
  <2>7. CASE ~ok
    <3>1. jobs[j].decoder = "gzip"
      BY <2>2, <2>6, <2>7, OutcomesAre
    <3>2. jobs[j].coding = "gzip" /\ jobs[j].got = <<>>
      <4>1. coding = "gzip" /\ n = 0 /\ Plain(coding, 0) = 0
        BY <3>1, <2>6, LengthsAre
      <4>2. Content(j, 0) = <<>>
        BY ContentIs
      <4>q. QED
        BY <4>1, <4>2, <2>6
    <3>3. Fail(j)
      BY <2>2, <2>7
    <3>4. Right(jobs'[j], refs'[r], j)
      BY <1>5, <2>1, <2>3, <3>2, <3>3 DEF Right, Caused
    <3>q. QED
      BY <1>3, <1>5, <2>4, <3>3, <3>4
  <2>8. CASE ok
    <3>1. got = Content(j, Plain(coding, m))
      <4>1. Content(j, Plain(coding, n)) \o Decoded(jobs[j].decoder, SubSeq(Stream(coding, j), n + 1, m))
              = Content(j, Plain(coding, m))
        <5> HIDE DEF coding
        <5>q. QED
          BY <2>6, DecodedIs
      <4>q. QED
        BY <4>1, <2>6
    <3>2. /\ decoder = "none" <=> coding = "identity"
          /\ decoder = "gzip" => coding = "gzip" /\ m = 0
      <4>1. s = <<>> /\ n = 0 => m = 0
        <5>1. Stream(coding, j) \in Seq(Piece) /\ Len(Stream(coding, j)) = BodyLength(coding)
          BY <2>6, StreamIs
        <5>2. Len(s) = m - n
          BY <5>1, <2>6, SliceIs
        <5>3. Len(<<>>) = 0
          OBVIOUS
        <5>q. QED
          BY <5>2, <5>3, <2>6
      <4>q. QED
        BY <4>1, <2>6
    <3>3. at \in {"disconnect", "failed", "transfer"} /\ (at = "disconnect" <=> ended)
          /\ (at = "failed" => jobs[j].late)
      OBVIOUS
    <3>4. jobs' = [jobs EXCEPT ![j].got = got, ![j].decoder = decoder, ![j].at = at]
      BY <2>2, <2>8
    <3> HIDE DEF got, decoder, at
    <3>5. /\ jobs' = [jobs EXCEPT ![j] = jobs'[j]] /\ jobs'[j].ref = r /\ jobs'[j].at = at
          /\ jobs'[j].got = got /\ jobs'[j].decoder = decoder /\ jobs'[j].coding = coding
          /\ jobs'[j].late = jobs[j].late /\ jobs'[j].method = jobs[j].method
          /\ jobs'[j].sized = jobs[j].sized
      BY <1>2, <3>4 DEF Load
    <3>6. CASE at = "transfer"
      <4>1. Stream(coding, j) \in Seq(Piece)
        BY <2>6, StreamType
      <4>2. SubSeq(Stream(coding, j), m + 1, m) = <<>>
        BY <4>1, <2>6, SubSeqEmpty
      <4>3. m \in 0..m
        BY <2>6
      <4>4. Received(jobs'[j], refs'[r], j, m, m)
        BY <2>3, <2>5, <2>6, <3>1, <3>2, <3>5, <4>2, <4>3 DEF Received
      <4>5. Right(jobs'[j], refs'[r], j)
        BY <2>5, <3>5, <3>6, <4>4 DEF Right
      <4>q. QED
        BY <1>3, <2>4, <3>5, <4>5
    <3>7. CASE at = "failed"
      <4>1. Right(jobs'[j], refs'[r], j)
        BY <3>3, <3>5, <3>7 DEF Right, Caused
      <4>q. QED
        BY <1>3, <2>4, <3>5, <4>1
    <3>8. CASE at = "disconnect"
      <4>1. /\ Plain(coding, 0) = 0 /\ Plain(coding, BodyLength(coding)) = 2 /\ Plain(coding, m) \in 0..2
        BY <2>6, LengthsAre
      <4>2. /\ Content(j, 0) = <<>> /\ Content(j, 2) = Whole(j)
            /\ IsPrefix(Content(j, Plain(coding, m)), Whole(j))
        BY <4>1, ContentIs
      <4>3. Handed(jobs'[j], j)
        BY <2>6, <3>1, <3>3, <3>5, <3>8, <4>1, <4>2 DEF Handed
      <4>4. Right(jobs'[j], refs'[r], j)
        BY <2>1, <2>3, <3>3, <3>5, <3>8, <4>3 DEF Right
      <4>q. QED
        BY <1>3, <2>4, <3>5, <4>4
    <3>q. QED
      BY <3>3, <3>6, <3>7, <3>8
  <2>q. QED
    BY <2>7, <2>8
<1>q. QED
  BY <1>6, <1>7, <1>8 DEF Transfer

LEMMA StepRight == ASSUME AllRight, Typed, IInv, [Next]_vars PROVE AllRight'
<1>1. ASSUME NEW j \in Job, InitJob(j) \/ Cancel(j) \/ DeadlinePasses(j) \/ Handle(j)
      PROVE  AllRight'
  BY <1>1, InitJobRight, CallerRight, ConnectRight, TransferRight, ShutdownJobRight DEF Handle
<1>2. ASSUME NEW r \in Ref, StartQueued(r) \/ Update(r)
      PROVE  AllRight'
  BY <1>2, StartQueuedRight, UpdateRight
<1>3. CASE SetParameters \/ UNCHANGED vars
  BY <1>3 DEF AllRight, SetParameters, vars
<1>q. QED
  BY <1>1, <1>2, <1>3 DEF Next

(* As long as no more loads run at once than the pool has connections, a     *)
(* load that ends well was handed its own body, whole unless only the        *)
(* server's closing told its end, and one that fails is late, lost its       *)
(* connection or got a piece of a gzip head: whatever encodings, receives,   *)
(* redirections and reused connections come (Transfer, RecvHeader,           *)
(* SetupStreamDecompressor, Decompress).                                     *)
THEOREM VerdictsAreRight == Spec => []VerdictIsRight
<1>q. QED
  BY InitEstablishes, StepKeeps, InitTypes, StepTypes, InitRight, StepRight, VerdictFollows, PTL DEF Spec

=============================================================================
