---------------------------- MODULE CookieManager ----------------------------
(***************************************************************************)
(* CookieManager: the list of cookies in memory, the file they are saved   *)
(* in when the manager is shut down or gets other parameters, and the      *)
(* process, which may end or die at any time.  A cookie is identified by   *)
(* its name, domain and path together (DomainsMatch ignores a leading dot, *)
(* which makes it an equivalence); what the parser and ValidateCookie do   *)
(* to a header is its outcome: refused, or a cookie.                       *)
(***************************************************************************)
EXTENDS Integers, SequencesExt

CONSTANTS
  Key,         \* cookies, by name, domain and path
  Value,       \* what a cookie may be set to
  Path,        \* the files an application names
  None,        \* no value; no file path
  Absent,      \* no file
  Torn,        \* a file whose checksum does not match
  HeaderSize,  \* length of the Set-Cookie header that sets a value
  LineSize,    \* length of its line in the file: CreateCookieString
  Parameters,  \* the CookieManagerParameters an application uses
  Default,     \* CookieManagerParameters()
  Age,         \* the lifetimes servers give
  Faults,      \* whether there are faults: the values faulty may have
  MaxTime      \* bound: the clock

ASSUME SizeAssumption == HeaderSize \in [Value -> Nat] /\ LineSize \in [Value -> Nat]
ASSUME TimeAssumption == Age \subseteq Nat /\ MaxTime \in Nat
ASSUME FaultAssumption == Faults \subseteq BOOLEAN

(* size, count: mMaxIndividualCookieSize, mMaxCookieCount.  room: how many   *)
(* lines mMaxCookieFileSize allows, the lines taken to be of one length; it  *)
(* is 0 when the size is not even that of the overhead.                      *)
Params == [path : Path \cup {None}, size : Nat \ {0}, count : Nat, room : Nat]
ASSUME ParamsAssumption ==
  Parameters \subseteq Params /\ Default \in Params /\ Default.path = None /\ Default.count > 0

VARIABLES
  cm,     \* the CookieManager and the files
  now,    \* ::time(NULL)
  faulty  \* whether the process may die, and files fail to be written

vars == <<cm, now, faulty>>

-----------------------------------------------------------------------------
(* session: mExpiresAtEndOfSession; such a cookie does not expire.           *)
Cookie == [key : Key, value : Value, session : BOOLEAN, expires : Nat]
ASSUME NameAssumption == None \notin Cookie /\ None \notin Path

IsCookieExpired(c) == ~c.session /\ now >= c.expires

Absentee == {Absent, Torn}

TypeOK == /\ cm.params \in Params
          /\ cm.cookies \in Seq(Cookie)
          /\ cm.initialized \in BOOLEAN
          /\ cm.buffer \in Nat
          /\ cm.files \in [Path -> Seq(Cookie) \cup Absentee]
          /\ now \in Nat
          /\ faulty \in Faults

(* Mutant: a manager is made with one file, not with those there are.        *)
WrongNewForgetsFiles(files) == [params |-> Default, cookies |-> <<>>, initialized |-> FALSE,
                                buffer |-> 0, files |-> Absent]

(* CookieManager(); buffer is the size of mCookieParseBuffer, 0 for NULL.    *)
New(files) == [params |-> Default, cookies |-> <<>>, initialized |-> FALSE,
               buffer |-> 0, files |-> files]

Init == /\ cm = New([p \in Path |-> Absent])
        /\ now = 0 /\ faulty \in Faults

-----------------------------------------------------------------------------
(* The manager's functions, from a manager to the managers it may become.    *)

ClearCookies(m) == [m EXCEPT !.cookies = <<>>]

DeleteCookiesFile(m) ==
  IF m.params.path = None THEN m ELSE [m EXCEPT !.files[m.params.path] = Absent]

RemoveCookies(m) == ClearCookies(DeleteCookiesFile(m))

(* What stands in a list at the given places, in the order of the list.      *)
Chosen(list, places) ==
  LET nth(n) == CHOOSE i \in places : Cardinality({k \in places : k <= i}) = n
  IN  [n \in 1..Cardinality(places) |-> list[nth(n)]]

(* WriteCookiesToFile: neither session cookies nor expired ones, as many as  *)
(* there is room for.  The file may not open, and is empty when it has.      *)
Saved(m) ==
  LET lines == Chosen(m.cookies, {i \in DOMAIN m.cookies :
                                    ~IsCookieExpired(m.cookies[i]) /\ ~m.cookies[i].session})
  IN  SubSeq(lines, 1, Min({m.params.room, Len(lines)}))

(* Mutant: nothing is written when no cookie has to be saved.                *)
WrongWritesWhenNeeded(m) == m.params.path # None /\ Saved(m) # <<>>

Writes(m) == m.params.path # None /\ m.cookies # <<>>
WriteCookiesToFile(m) ==
  IF ~Writes(m) THEN {m}
  ELSE {[m EXCEPT !.files[m.params.path] = Saved(m)]}
         \cup IF faulty THEN {m, [m EXCEPT !.files[m.params.path] = Torn]} ELSE {}

(* ReadCookiesFromFile: a line too long for the parse buffer is dropped.     *)
Short(m, file) == {i \in DOMAIN file : LineSize[file[i].value] < m.params.size}
ReadCookiesFromFile(m) ==
  IF m.params.path = None \/ m.files[m.params.path] = Absent THEN m
  ELSE IF m.files[m.params.path] = Torn THEN RemoveCookies(m)
  ELSE LET file == m.files[m.params.path]
       IN  [m EXCEPT !.cookies = @ \o Chosen(file, Short(m, file))]

(* Mutant: the buffer of the default size is allocated, as if nobody could   *)
(* have given parameters before.                                             *)
WrongAllocatedDefault(m) == IF m.buffer = 0 THEN Default.size ELSE m.buffer

(* Init: the parse buffer may have been allocated by SetParameters.          *)
Allocated(m) == IF m.buffer = 0 THEN m.params.size ELSE m.buffer
Initialize(m) ==
  IF m.initialized THEN m
  ELSE ReadCookiesFromFile([m EXCEPT !.initialized = TRUE, !.buffer = Allocated(m)])

Shutdown(m) ==
  IF ~m.initialized THEN {m}
  ELSE LET c == [m EXCEPT !.initialized = FALSE, !.buffer = 0]
       IN  {ClearCookies(d) : d \in IF c.params.count # 0 THEN WriteCookiesToFile(c)
                                                          ELSE {RemoveCookies(c)}}

(* Mutant: cookies are disabled, and those in memory stay.                   *)
WrongDisabledKeeps(m) == [DeleteCookiesFile(m) EXCEPT !.params.count = 0]

(* SetParametersAndInitialize, when cookies are disabled and when not: the   *)
(* list is cut, and what is left is saved under the new parameters.          *)
Disabled(m) == [RemoveCookies(m) EXCEPT !.params.count = 0]
Reset(m, p) ==
  [m EXCEPT !.cookies = SubSeq(@, 1, Min({p.count, Len(@)})),
            !.buffer  = IF p.size # m.params.size THEN p.size ELSE @,
            !.params  = p]
SetParametersAndInitialize(m, p) ==
  IF p.count = 0 THEN {Disabled(m)}
  ELSE {Initialize(d) : d \in Shutdown(Reset(m, p))}

(* OnHeadersRead and OnHeadersSend initialise a manager nobody has.          *)
Ready(m) ==
  IF m.params.count = 0 \/ m.initialized THEN {m} ELSE SetParametersAndInitialize(m, Default)

(* Mutant: only a cookie in front is recognised.                             *)
WrongHeldInFront(m, k) == m.cookies # <<>> /\ Head(m.cookies).key = k

Held(m, k) == \E i \in DOMAIN m.cookies : m.cookies[i].key = k
Place(m, k) == CHOOSE i \in DOMAIN m.cookies : m.cookies[i].key = k

(* ProcessCookieHeader: the cookie replaces one of its name in place, or     *)
(* goes to the end of the list, and the oldest may have to leave.            *)
Accepts(m, c) == m.params.count # 0 /\ m.initialized /\ HeaderSize[c.value] < m.params.size
Replaced(m, c) ==
  LET i == Place(m, c.key)
  IN  IF IsCookieExpired(c) THEN RemoveAt(m.cookies, i) ELSE [m.cookies EXCEPT ![i] = c]
Added(m, c) ==
  IF IsCookieExpired(c) THEN m.cookies
  ELSE LET list == Append(m.cookies, c)
       IN  IF Len(list) > m.params.count THEN Tail(list) ELSE list
ProcessCookieHeader(m, c) ==
  IF ~Accepts(m, c) THEN m
  ELSE [m EXCEPT !.cookies = IF Held(m, c.key) THEN Replaced(m, c) ELSE Added(m, c)]

(* GetCookieTextForURL, for a page all cookies belong to.                    *)
GetCookieTextForURL(m) ==
  IF m.params.count = 0 \/ ~m.initialized THEN {}
  ELSE {c \in Range(m.cookies) : ~IsCookieExpired(c)}

-----------------------------------------------------------------------------
(* What a server may send.  A max-age that is no number leaves deltaTime as  *)
(* it was, a date that is none reads -1: the lifetime is then any.           *)
Headers == {[key |-> k, value |-> v, session |-> s, expires |-> IF s THEN 0 ELSE now + a] :
              k \in Key, v \in Value, s \in BOOLEAN, a \in Age}

(* OnHeadersRead: a response sets a cookie.                                  *)
OnHeadersRead ==
  /\ cm.params.count # 0
  /\ \E c \in Headers, m \in Ready(cm) : cm' = ProcessCookieHeader(m, c)
  /\ UNCHANGED <<now, faulty>>

(* AddCookie, or document.cookie.                                            *)
AddCookie ==
  /\ \E c \in Headers : cm' = ProcessCookieHeader(cm, c)
  /\ UNCHANGED <<now, faulty>>

OnHeadersSend ==
  /\ cm' \in Ready(cm)
  /\ UNCHANGED <<now, faulty>>

SetCookieUsage(p) ==
  /\ cm' \in SetParametersAndInitialize(cm, p)
  /\ UNCHANGED <<now, faulty>>

(* The application removes all cookies.                                      *)
RemoveAll ==
  /\ cm' = RemoveCookies(cm)
  /\ UNCHANGED <<now, faulty>>

(* The library is shut down, and used again: a new manager.                  *)
Exit ==
  /\ \E m \in Shutdown(cm) : cm' = New(m.files)
  /\ UNCHANGED <<now, faulty>>

(* The process dies, perhaps while the file is written.                      *)
Die ==
  /\ faulty
  /\ cm' = New(cm.files)
  /\ UNCHANGED <<now, faulty>>
DieWriting ==
  /\ faulty
  /\ cm.initialized
  /\ \E m \in {cm} \cup {Reset(cm, p) : p \in Parameters}, f \in {<<>>, Torn} :
       m.params.count # 0 /\ Writes(m) /\ cm' = New([m.files EXCEPT ![m.params.path] = f])
  /\ UNCHANGED <<now, faulty>>

Tick == now < MaxTime /\ now' = now + 1 /\ UNCHANGED <<cm, faulty>>

Next == \/ OnHeadersRead \/ AddCookie \/ OnHeadersSend \/ RemoveAll \/ Exit \/ Die \/ DieWriting \/ Tick
        \/ \E p \in Parameters : SetCookieUsage(p)

Spec == Init /\ [][Next]_vars

-----------------------------------------------------------------------------
(* No name is in the list twice, whether it came from servers, scripts or    *)
(* the file: ProcessCookieHeader replaces the first match only, and the      *)
(* second would be sent for ever.                                            *)
UniqueCookies == \A i, j \in DOMAIN cm.cookies : cm.cookies[i].key = cm.cookies[j].key => i = j

(* The parse buffer, which three functions allocate or free, has the size    *)
(* that ParseCookieHeader tests the header against before it copies it.      *)
BufferFits == cm.initialized => cm.buffer = cm.params.size

(* "Set to zero to clear and disable cookies": nothing is held, nothing is   *)
(* in the file in use, and nothing comes in until cookies are enabled.       *)
DisabledIsClean ==
  cm.params.count = 0 => cm.cookies = <<>> /\ (cm.params.path # None => cm.files[cm.params.path] = Absent)

(* Within a session what is sent for a name is what was given last, with    *)
(* its lifetime, or nothing.  What the next session starts with is what the  *)
(* file it names holds, which is what was sent when that file was last       *)
(* written and had a lifetime: over changes of parameters, evictions,        *)
(* expiry, failed writes and crashes no older cookie gets into a file, none  *)
(* of another file, and no session cookie.  A file that was not written, as  *)
(* the manager had none to save or could not, keeps what it had; CookieStore *)
(* says when.                                                                *)
Known(C, k) == LET named == {c \in C : c.key = k}
               IN  IF named = {} THEN None ELSE CHOOSE c \in named : TRUE
Content(f) == IF f \in Absentee THEN {} ELSE Range(f)
Sent(k) == Known(GetCookieTextForURL(cm), k)
Store == INSTANCE CookieStore WITH
           Lasting <- [key : Key, value : Value, session : {FALSE}, expires : Nat],
           File    <- Path,
           jar     <- [k \in Key |-> Sent(k)],
           file    <- cm.params.path,
           copies  <- [p \in Path |-> [k \in Key |-> Known(Content(cm.files[p]), k)]]
ImplementsStore == Store!Spec

-----------------------------------------------------------------------------
(* What the documentation says, and the code does not do.                    *)

(* "A value of zero means the cookie should be discarded immediately": a     *)
(* cookie that is not sent any more, because its server has withdrawn it,    *)
(* comes back only when it is given again.                                   *)
ComesBackIfGiven ==
  [][cm.initialized /\ cm'.params.path = cm.params.path /\ ~OnHeadersRead /\ ~AddCookie
       => \A k \in Key : Sent(k) = None => Sent(k)' = None]_vars
=============================================================================
