---------------------------- MODULE HttpTransport ----------------------------
(***************************************************************************)
(* Inside TransportHandlerDirtySDK: how a load shares the pool of HTTP     *)
(* connections of DirtySDK's HttpManager, sends its form data, and         *)
(* receives, decompresses and ends.  JobManager drives the handler from    *)
(* outside and lets it answer anything; here its answers are derived.      *)
(* The pool gets its size when the handler is initialised, while the limit *)
(* on concurrent loads follows the parameters of the application.          *)
(***************************************************************************)
EXTENDS Integers, FiniteSets, SequencesExt

CONSTANTS
  Job,           \* the loads that are ever made
  Ref,           \* the pool: HttpManager's connections (HttpRefs)
  None,          \* no load, no connection
  Methods,       \* per load, the HTTP methods it may have
  Codings,       \* per load, the encodings its servers may use
  Forms,         \* the form data of the POSTs
  Room,          \* how many form elements fit into a connection's buffer
  Limits,        \* values of mMaxTransportJobs
  MaxRedirects   \* the redirections a connection follows

Method == {"GET", "POST", "HEAD", "OPTIONS"}
Coding == {"identity", "deflate", "raw", "gzip"}

ASSUME PoolAssumption  ==
  /\ IsFiniteSet(Job) /\ IsFiniteSet(Ref) /\ Ref # {}
  /\ None \notin Job \cup Ref
ASSUME InputAssumption ==
  /\ Methods \in [Job -> SUBSET Method]
  /\ Codings \in [Job -> SUBSET Coding]
  /\ Forms \subseteq Seq({"data", "unreadable"})
  /\ Room \in Nat /\ Limits \subseteq Nat /\ MaxRedirects \in Nat

VARIABLES
  jobs,          \* per load: TransportInfo, DirtySDKInfo and its command in the pool
  refs,          \* per connection of the pool
  limit,         \* m_maxConcurrentJobs
  overcommitted  \* history: more loads have run at once than there are connections

vars == <<jobs, refs, limit, overcommitted>>

-----------------------------------------------------------------------------
(* A response body is two pieces of content, <<"plain", j>>, which travel as *)
(* they are or packed, and with gzip between a head, which may be cut in     *)
(* two, and a trailer.  "raw" is deflate without the zlib head the name      *)
(* stands for.  What a piece weighs, and zlib itself, are left out.          *)
Kind    == {"head", "packed", "plain", "trailer"}
Decoder == {"none", "deflate", "gzip", "inflate"}
Piece   == Kind \X Job

Whole(j) == << <<"plain", j>>, <<"plain", j>> >>

Stream(coding, j) ==
  LET h == << <<"head", j>> >>
      z == << <<"packed", j>>, <<"packed", j>> >>
  IN CASE coding = "identity" -> Whole(j)
       [] coding = "deflate"  -> h \o z
       [] coding = "raw"      -> z
       [] coding = "gzip"     -> h \o h \o z \o << <<"trailer", j>> >>

(* A load's place in the job loop, as in JobManager.  cmd is its command in  *)
(* the pool, ref the connection that it was given.  coding and sized are the *)
(* last response's: its Content-Encoding, and whether it had a               *)
(* Content-Length.  got is what the client was handed, uploads (history) the *)
(* body of every request that was made for it.                               *)
Load == [at : {"none", "connect", "transfer", "disconnect", "shutdown", "failed", "over"},
         method : Method, form : Forms \cup {<<>>},
         cmd : {"idle", "waiting", "active"}, ref : Ref \cup {None},
         decoder : Decoder, coding : Coding, sized : BOOLEAN,
         got : Seq(Piece), uploads : Seq(Seq({"data"})),
         late : BOOLEAN, cancelled : BOOLEAN]

(* proto is the state of its ProtoHttp, user the load its callbacks name,    *)
(* coming what the server has still to send and data what lies in its        *)
(* buffer.                                                                   *)
Connection == [state : {"idle", "busy"}, transactions : Nat, user : Job \cup {None},
               proto : {"idle", "sent", "body", "done", "fail"}, hops : 0..MaxRedirects,
               coming : Seq(Piece), data : Seq(Piece)]

TypeOK ==
  /\ jobs \in [Job -> Load]
  /\ refs \in [Ref -> Connection]
  /\ limit \in Limits
  /\ overcommitted \in BOOLEAN

NewJob(method, form) ==
  [at |-> "connect", method |-> method, form |-> form, cmd |-> "idle", ref |-> None,
   decoder |-> "none", coding |-> "identity", sized |-> TRUE, got |-> <<>>,
   uploads |-> <<>>, late |-> FALSE, cancelled |-> FALSE]

NoJob(at) == [NewJob("GET", <<>>) EXCEPT !.at = at]

NewRef == [state |-> "idle", transactions |-> 0, user |-> None, proto |-> "idle",
           hops |-> 0, coming |-> <<>>, data |-> <<>>]

Init ==
  /\ jobs = [j \in Job |-> NoJob("none")]
  /\ refs = [r \in Ref |-> NewRef]
  /\ limit \in {l \in Limits : l <= Cardinality(Ref)}
  /\ overcommitted = FALSE

-----------------------------------------------------------------------------
(* The application and the client.                                           *)

Running == {j \in Job : jobs[j].at \notin {"none", "over"}}

InitJob(j) ==
  /\ jobs[j].at = "none"
  /\ Cardinality(Running) < limit
  /\ \E m \in Methods[j] : \E f \in IF m = "POST" THEN Forms ELSE {<<>>} :
       jobs' = [jobs EXCEPT ![j] = NewJob(m, f)]
  /\ overcommitted' = (overcommitted \/ Cardinality(Running) >= Cardinality(Ref))
  /\ UNCHANGED <<refs, limit>>

Cancel(j) ==
  /\ jobs[j].at \in {"connect", "transfer", "disconnect", "shutdown"} /\ ~jobs[j].cancelled
  /\ jobs' = [jobs EXCEPT ![j].cancelled = TRUE]
  /\ UNCHANGED <<refs, limit, overcommitted>>

(* mTimeout of the load runs out; only Transfer looks at it.                 *)
DeadlinePasses(j) ==
  /\ jobs[j].at = "transfer"
  /\ jobs' = [jobs EXCEPT ![j].late = TRUE]
  /\ UNCHANGED <<refs, limit, overcommitted>>

SetParameters ==
  /\ \E l \in Limits \ {limit} : limit' = l
  /\ UNCHANGED <<jobs, refs, overcommitted>>

-----------------------------------------------------------------------------
(* Connect.                                                                  *)

(* The elements FormDataStream hands out before one it cannot read: one that *)
(* is empty, or any file.                                                    *)
Readable(form) ==
  SubSeq(form, 1, Cardinality({n \in 1..Len(form) : \A i \in 1..n : form[i] = "data"}))

(* Mutant: a form that cannot be read in full is sent all the same.          *)
WrongReadDataGoesOn(job) == job

(* An element that cannot be read looks like the end of the data to Connect, *)
(* which goes on; ReadData has cancelled the handle.                         *)
ReadData(job) ==
  [job EXCEPT !.cancelled = @ \/ Readable(job.form) # job.form]

(* What fits into the buffer is all that is ever sent.                       *)
Upload(job) ==
  SubSeq(Readable(job.form), 1, IF Len(Readable(job.form)) < Room THEN Len(Readable(job.form)) ELSE Room)

(* _HttpManagerRequestStart: the load's command and its connection.          *)
Issued(job, data) == [job EXCEPT !.cmd = "active", !.uploads = Append(@, data)]

Begun(ref, j) ==
  [ref EXCEPT !.state = "busy", !.user = j, !.proto = "sent", !.hops = 0,
              !.coming = <<>>, !.data = <<>>]

(* The connections with the fewest transactions; which of them depends on    *)
(* the hosts they are connected to.                                          *)
LeastUsed == {r \in Ref : \A s \in Ref : refs[r].transactions <= refs[s].transactions}

(* Mutant: a request that waits is not counted.                              *)
WrongRequestUncounted(j, r) ==
  LET read == [ReadData(jobs[j]) EXCEPT !.at = "transfer", !.ref = r]
  IN IF refs[r].transactions = 0
     THEN /\ jobs' = [jobs EXCEPT ![j] = Issued(read, Upload(read))]
          /\ refs' = [refs EXCEPT ![r] = [Begun(@, j) EXCEPT !.transactions = 1]]
     ELSE /\ jobs' = [jobs EXCEPT ![j] = [read EXCEPT !.cmd = "waiting"]]
          /\ UNCHANGED refs

(* A request whose connection has others to serve waits there, without its   *)
(* data, which Connect alone knows.                                          *)
Request(j, r) ==
  LET read == [ReadData(jobs[j]) EXCEPT !.at = "transfer", !.ref = r]
      ref  == [refs[r] EXCEPT !.transactions = @ + 1]
  IN IF ref.transactions = 1
     THEN /\ jobs' = [jobs EXCEPT ![j] = Issued(read, Upload(read))]
          /\ refs' = [refs EXCEPT ![r] = Begun(ref, j)]
     ELSE /\ jobs' = [jobs EXCEPT ![j] = [read EXCEPT !.cmd = "waiting"]]
          /\ refs' = [refs EXCEPT ![r] = ref]

Connect(j) ==
  /\ jobs[j].at = "connect" /\ ~jobs[j].cancelled
  /\ IF jobs[j].method = "OPTIONS"    \* this DirtySDK has none: no request is made
     THEN /\ jobs' = [jobs EXCEPT ![j].at = "transfer"]
          /\ UNCHANGED refs
     ELSE \E r \in LeastUsed : Request(j, r)
  /\ UNCHANGED <<limit, overcommitted>>

-----------------------------------------------------------------------------
(* Tick: HttpManagerUpdate, connection by connection.                        *)

(* Mutant: the last request that waits is not started.                       *)
WrongStartQueuedLast(r) ==
  /\ refs[r].state = "idle" /\ refs[r].transactions > 1
  /\ \E j \in Job :
       /\ jobs[j].ref = r
       /\ jobs' = [jobs EXCEPT ![j] = Issued(@, <<>>)]
       /\ refs' = [refs EXCEPT ![r] = Begun(@, j)]
  /\ UNCHANGED <<limit, overcommitted>>

(* Any command of the connection may be the first in the table: one that     *)
(* waits, or after a waiting one was freed, again the one being served.      *)
StartQueued(r) ==
  /\ refs[r].state = "idle" /\ refs[r].transactions > 0
  /\ \E j \in Job :
       /\ jobs[j].ref = r
       /\ jobs' = [jobs EXCEPT ![j] = Issued(@, <<>>)]
       /\ refs' = [refs EXCEPT ![r] = Begun(@, j)]
  /\ UNCHANGED <<limit, overcommitted>>

(* Mutant: the decompressor of a redirection stays for a response that is    *)
(* not encoded.                                                              *)
WrongSetupKeepsDecompressor(decoder, coding) ==
  CASE coding = "gzip"              -> "gzip"
    [] coding \in {"deflate", "raw"} -> "deflate"
    [] OTHER                        -> decoder

(* SetupStreamDecompressor replaces or drops the decompressor of a response  *)
(* before this one.                                                          *)
SetupStreamDecompressor(decoder, coding) ==
  CASE coding = "gzip"              -> "gzip"
    [] coding \in {"deflate", "raw"} -> "deflate"
    [] OTHER                        -> "none"

(* The headers of a response arrive and the callback runs for the user.      *)
RecvHeader(r, coding, sized) ==
  LET j == refs[r].user
  IN jobs' = [jobs EXCEPT ![j].decoder = SetupStreamDecompressor(@, coding),
                          ![j].coding = coding, ![j].sized = sized]

Updating(r, proto) == refs[r].state = "busy" /\ refs[r].proto \in proto

Respond(r) ==
  /\ Updating(r, {"sent"})
  /\ \E coding \in Codings[refs[r].user], sized \in BOOLEAN :
       /\ RecvHeader(r, coding, sized)
       /\ refs' = [refs EXCEPT ![r] =
            IF jobs[refs[r].user].method = "HEAD" THEN [@ EXCEPT !.proto = "done"]
            ELSE [@ EXCEPT !.proto = "body", !.coming = Stream(coding, refs[r].user)]]
  /\ UNCHANGED <<limit, overcommitted>>

(* A redirection; also a 304, which to this DirtySDK is one that does not    *)
(* say where to.                                                             *)
Redirect(r) ==
  /\ Updating(r, {"sent"})
  /\ \E coding \in Codings[refs[r].user] : RecvHeader(r, coding, TRUE)
  /\ \/ /\ refs[r].hops < MaxRedirects
        /\ refs' = [refs EXCEPT ![r].hops = @ + 1]
     \/ refs' = [refs EXCEPT ![r].proto = "fail"]
  /\ UNCHANGED <<limit, overcommitted>>

Arrive(r) ==
  /\ Updating(r, {"body"})
  /\ \E n \in 1..Len(refs[r].coming) :
       refs' = [refs EXCEPT ![r].data = @ \o SubSeq(refs[r].coming, 1, n),
                            ![r].coming = SubSeq(@, n + 1, Len(@)),
                            ![r].proto = IF n = Len(refs[r].coming) THEN "done" ELSE "body"]
  /\ UNCHANGED <<jobs, limit, overcommitted>>

(* The server closes: the end of a body whose length nobody has told.        *)
ServerCloses(r) ==
  /\ Updating(r, {"body"})
  /\ refs' = [refs EXCEPT ![r].coming = <<>>,
                          ![r].proto = IF jobs[refs[r].user].sized THEN "fail" ELSE "done"]
  /\ UNCHANGED <<jobs, limit, overcommitted>>

(* No connection, an error of the socket, or mPageTimeoutSeconds of silence. *)
ConnectionFails(r) ==
  /\ Updating(r, {"sent", "body"})
  /\ refs' = [refs EXCEPT ![r].proto = "fail"]
  /\ UNCHANGED <<jobs, limit, overcommitted>>

Update(r) == Respond(r) \/ Redirect(r) \/ Arrive(r) \/ ServerCloses(r) \/ ConnectionFails(r)

-----------------------------------------------------------------------------
(* Transfer.                                                                 *)

(* DeflateStreamDecompressor::Decompress.  The head of gzip has to come in   *)
(* one receive; deflate is tried again as raw; bytes that are not packed are *)
(* an error.                                                                 *)
Kinds(s) == {s[i][1] : i \in 1..Len(s)}

HeadIsWhole(s) == Len(s) >= 2 /\ s[1][1] = "head" /\ s[2][1] = "head"

Corrupt(decoder, s) ==
  /\ s # <<>> /\ decoder # "none"
  /\ \/ decoder = "gzip" /\ ~HeadIsWhole(s)
     \/ "plain" \in Kinds(s)

Inflate(s) ==
  LET packed == {i \in 1..Len(s) : s[i][1] = "packed"}
      nth(n) == CHOOSE i \in packed : Cardinality({k \in packed : k <= i}) = n
  IN [n \in 1..Cardinality(packed) |-> <<"plain", s[nth(n)][2]>>]

Decoded(decoder, s) == IF decoder = "none" THEN s ELSE Inflate(s)

(* Bytes of another load's response do to a decompressor what they happen to *)
(* do.                                                                       *)
Outcomes(j, decoder, s) ==
  IF decoder # "none" /\ \E i \in 1..Len(s) : s[i][2] # j THEN BOOLEAN ELSE {~Corrupt(decoder, s)}

Fail(j) == jobs' = [jobs EXCEPT ![j].at = "failed"]

(* Nothing to be had: no request, a waiting one, or no response yet.         *)
TransferWaits(j) ==
  /\ jobs[j].cmd = "active" => refs[jobs[j].ref].proto = "sent"
  /\ jobs[j].late
  /\ Fail(j) /\ UNCHANGED refs

TransferFails(j) ==
  /\ jobs[j].cmd = "active" /\ refs[jobs[j].ref].proto = "fail"
  /\ Fail(j) /\ UNCHANGED refs

(* Everything that lies in the buffer, to the end of the body if it is       *)
(* there; coming too late only counts when there is more to come.            *)
TransferData(j) ==
  /\ jobs[j].cmd = "active" /\ refs[jobs[j].ref].proto \in {"body", "done"}
  /\ LET r       == jobs[j].ref
         s       == refs[r].data
         decoder == jobs[j].decoder
         ended   == refs[r].proto = "done"
     IN /\ s # <<>> \/ ended \/ jobs[j].late
        /\ refs' = [refs EXCEPT ![r].data = <<>>]
        /\ \E ok \in Outcomes(j, decoder, s) :
             IF ~ok THEN Fail(j)
             ELSE jobs' = [jobs EXCEPT
                    ![j].got = @ \o Decoded(decoder, s),
                    ![j].decoder = IF s # <<>> /\ @ = "gzip" THEN "inflate" ELSE @,
                    ![j].at = CASE ended -> "disconnect"
                                [] ~ended /\ jobs[j].late -> "failed"
                                [] OTHER -> "transfer"]

Transfer(j) ==
  /\ jobs[j].at = "transfer" /\ ~jobs[j].cancelled
  /\ TransferWaits(j) \/ TransferFails(j) \/ TransferData(j)
  /\ UNCHANGED <<limit, overcommitted>>

-----------------------------------------------------------------------------
(* Disconnect does nothing; ShutdownJob gives the command back.              *)

Disconnect(j) ==
  /\ jobs[j].at = "disconnect" /\ ~jobs[j].cancelled
  /\ jobs' = [jobs EXCEPT ![j].at = "shutdown"]
  /\ UNCHANGED <<refs, limit, overcommitted>>

(* Mutant: a connection stays busy while others wait for it.                 *)
WrongFreedStaysBusy(ref) ==
  [ref EXCEPT !.state = IF ref.transactions = 1 THEN "idle" ELSE @, !.transactions = @ - 1]

(* HttpManagerFree: whoever leaves, its connection counts as idle.           *)
Freed(ref) == [ref EXCEPT !.state = "idle", !.transactions = @ - 1]

ShutdownJob(j) ==
  /\ jobs[j].at \in {"shutdown", "failed"} \/ (j \in Running /\ jobs[j].cancelled)
  /\ jobs' = [jobs EXCEPT ![j] = NoJob("over")]
  /\ refs' = [r \in Ref |-> IF r = jobs[j].ref THEN Freed(refs[r]) ELSE refs[r]]
  /\ UNCHANGED <<limit, overcommitted>>

-----------------------------------------------------------------------------
Handle(j) == Connect(j) \/ Transfer(j) \/ Disconnect(j) \/ ShutdownJob(j)

Next ==
  \/ \E j \in Job : InitJob(j) \/ Cancel(j) \/ DeadlinePasses(j) \/ Handle(j)
  \/ \E r \in Ref : StartQueued(r) \/ Update(r)
  \/ SetParameters

Spec == Init /\ [][Next]_vars

(* While loads run the application ticks: the job loop handles each load,    *)
(* HttpManagerUpdate each connection, and a server that is silent for ever   *)
(* is a failure after mPageTimeoutSeconds.                                   *)
FairSpec ==
  /\ Spec
  /\ \A j \in Job : WF_vars(Handle(j))
  /\ \A r \in Ref : WF_vars(StartQueued(r)) /\ WF_vars(Update(r))

-----------------------------------------------------------------------------
(* Properties.                                                               *)

(* DirtySDK calls back with the TransportInfo of a load that is still in the *)
(* job list and has the connection: ShutdownJob has taken back every other   *)
(* pointer, also of a load that was cancelled, and whatever the limit is.    *)
CallbackAlive ==
  \A r \in Ref : refs[r].state = "busy" =>
    /\ refs[r].user \in Running
    /\ jobs[refs[r].user].cmd = "active" /\ jobs[refs[r].user].ref = r

Ended(j)  == jobs[j].at \in {"disconnect", "shutdown"}
Failed(j) == jobs[j].at = "failed"

(* A load that ends well was handed its own body, all of it unless only the  *)
(* server's closing told where it ends.                                      *)
SuccessIsWhole ==
  \A j \in Job : Ended(j) =>
    LET whole == IF jobs[j].method = "HEAD" THEN <<>> ELSE Whole(j)
    IN jobs[j].got = whole \/ (~jobs[j].sized /\ IsPrefix(jobs[j].got, whole))

(* A load fails because it is late, because its connection failed, or for a  *)
(* gzip head of which only a part had come.                                  *)
FailureHasCause ==
  \A j \in Job : Failed(j) =>
    \/ jobs[j].late
    \/ jobs[j].ref # None /\ refs[jobs[j].ref].proto = "fail"
    \/ jobs[j].coding = "gzip" /\ jobs[j].got = <<>>

(* As long as no more loads run at once than the pool has connections, the   *)
(* verdict of Transfer is right whichever connections the loads are given,   *)
(* also one that another load has left in the middle of its response.        *)
VerdictIsRight == overcommitted \/ (SuccessIsWhole /\ FailureHasCause)

(* And a form is sent once, and as it is: what could not be read in full is  *)
(* only sent for a load that is cancelled.  A form too long for the buffer   *)
(* is the exception; it is cut.                                              *)
UploadIsWhole ==
  overcommitted \/ \A j \in Job :
    /\ Len(jobs[j].uploads) <= 1
    /\ \A n \in 1..Len(jobs[j].uploads) :
         jobs[j].uploads[n] = jobs[j].form \/ jobs[j].cancelled \/ Len(jobs[j].form) > Room

(* Every transfer ends, also one that waits for a connection, one whose      *)
(* connection is taken over, and one whose server is silent; only OPTIONS,   *)
(* for which no request is made, waits for its own deadline.                 *)
TransfersEnd ==
  \A j \in Job :
    (jobs[j].at = "transfer" /\ jobs[j].method # "OPTIONS") ~> (jobs[j].at = "over")

=============================================================================
