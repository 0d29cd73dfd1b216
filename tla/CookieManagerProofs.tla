------------------------ MODULE CookieManagerProofs ------------------------
(***************************************************************************)
(* Proofs about CookieManager, for any cookies, files and parameters.      *)
(* Good, of a manager, does not look at what is in the list and in the     *)
(* files: Fits says what holds of the parse buffer, which                  *)
(* SetParametersAndInitialize may have allocated before Init, and Clean of *)
(* a manager that is disabled.  Stocked, Idle and Quiet do: no name is in  *)
(* the list or in a file twice, and a manager nobody has initialised holds *)
(* nothing and has no file, so that a header that initialises it writes    *)
(* none.  What the actions do to what is sent and to the files is then a   *)
(* step of CookieStore.                                                    *)
(***************************************************************************)
EXTENDS CookieManager, SequenceLemmas, TLAPS

Shaped(m) == /\ DOMAIN m = {"params", "cookies", "initialized", "buffer", "files"}
             /\ m.params \in Params
             /\ DOMAIN m.files = Path
Fits(m)   == /\ m.buffer = 0 \/ m.buffer = m.params.size
             /\ m.initialized => m.buffer = m.params.size
Clean(m)  == m.params.count = 0
               => m.cookies = <<>> /\ (m.params.path # None => m.files[m.params.path] = Absent)
Good(m)   == Shaped(m) /\ Fits(m) /\ Clean(m)

-----------------------------------------------------------------------------
(* The manager's functions keep a manager good.                              *)

LEMMA ParamsFacts ==
  ASSUME NEW p \in Params
  PROVE  /\ p.path \in Path \cup {None} /\ p.size # 0 /\ p.count \in Nat
         /\ [p EXCEPT !.count = 0] \in Params
         /\ [p EXCEPT !.count = 0].path = p.path
         /\ [p EXCEPT !.count = 0].size = p.size
         /\ [p EXCEPT !.count = 0].count = 0
BY DEF Params

LEMMA NewGood ==
  ASSUME NEW files, DOMAIN files = Path
  PROVE  Good(New(files))
<1>1. Default \in Params /\ Default.count # 0
  BY ParamsAssumption DEF Params
<1>2. QED
  BY <1>1 DEF New, Good, Shaped, Fits, Clean

LEMMA ClearGood ==
  ASSUME NEW m, Good(m)
  PROVE  /\ Good(ClearCookies(m)) /\ ClearCookies(m).cookies = <<>>
         /\ ClearCookies(m).params = m.params /\ ClearCookies(m).files = m.files
         /\ ClearCookies(m).initialized = m.initialized /\ ClearCookies(m).buffer = m.buffer
<1> DEFINE d == ClearCookies(m)
<1>1. /\ DOMAIN d = DOMAIN m /\ d.params = m.params /\ d.cookies = <<>> /\ d.files = m.files
      /\ d.initialized = m.initialized /\ d.buffer = m.buffer
  BY DEF ClearCookies, Good, Shaped
<1> HIDE DEF d
<1>2. Good(d)
  BY <1>1 DEF Good, Shaped, Fits, Clean
<1>3. QED
  BY <1>1, <1>2 DEF d

LEMMA RemoveGood ==
  ASSUME NEW m, Good(m)
  PROVE  LET d == RemoveCookies(m)
         IN  /\ Good(d) /\ d.params = m.params /\ d.cookies = <<>> /\ DOMAIN d.files = Path
             /\ d.initialized = m.initialized /\ d.buffer = m.buffer
             /\ d.params.path # None => d.files[d.params.path] = Absent
<1> DEFINE e == DeleteCookiesFile(m)
<1>1. CASE m.params.path = None
  <2>1. e = m
    BY <1>1 DEF DeleteCookiesFile
  <2>2. QED
    BY <1>1, <2>1, ClearGood DEF RemoveCookies, Good, Shaped
<1>2. CASE m.params.path # None
  <2>1. m.params.path \in Path /\ DOMAIN m.files = Path
    BY <1>2, ParamsFacts DEF Good, Shaped
  <2>2. e = [m EXCEPT !.files[m.params.path] = Absent]
    BY <1>2 DEF DeleteCookiesFile
  <2>3. /\ DOMAIN e = DOMAIN m /\ e.params = m.params /\ e.cookies = m.cookies
        /\ e.initialized = m.initialized /\ e.buffer = m.buffer
        /\ DOMAIN e.files = Path /\ e.files[m.params.path] = Absent
    BY <2>1, <2>2 DEF Good, Shaped
  <2> HIDE DEF e
  <2>4. Good(e)
    BY <2>3 DEF Good, Shaped, Fits, Clean
  <2>5. /\ Good(ClearCookies(e)) /\ ClearCookies(e).cookies = <<>>
        /\ ClearCookies(e).params = e.params /\ ClearCookies(e).files = e.files
        /\ ClearCookies(e).initialized = e.initialized /\ ClearCookies(e).buffer = e.buffer
    BY <2>4, ClearGood
  <2>6. RemoveCookies(m) = ClearCookies(e)
    BY DEF RemoveCookies, e
  <2>7. QED
    BY <2>3, <2>5, <2>6
<1>3. QED
  BY <1>1, <1>2

LEMMA WriteGood ==
  ASSUME NEW m, Good(m), m.params.count # 0, NEW d \in WriteCookiesToFile(m)
  PROVE  /\ Good(d) /\ d.params = m.params
         /\ d.initialized = m.initialized /\ d.buffer = m.buffer
<1>1. d = m \/ \E x : d = [m EXCEPT !.files[m.params.path] = x]
  BY DEF WriteCookiesToFile
<1>2. ASSUME NEW x, d = [m EXCEPT !.files[m.params.path] = x]
      PROVE  /\ DOMAIN d = DOMAIN m /\ d.params = m.params /\ DOMAIN d.files = Path
             /\ d.initialized = m.initialized /\ d.buffer = m.buffer
  BY <1>2 DEF Good, Shaped
<1>3. /\ DOMAIN d = DOMAIN m /\ d.params = m.params /\ DOMAIN d.files = Path
      /\ d.initialized = m.initialized /\ d.buffer = m.buffer
  BY <1>1, <1>2 DEF Good, Shaped
<1>4. QED
  BY <1>3 DEF Good, Shaped, Fits, Clean

LEMMA ReadGood ==
  ASSUME NEW m, Good(m), m.params.count # 0
  PROVE  Good(ReadCookiesFromFile(m))
<1> DEFINE d == ReadCookiesFromFile(m)
<1>1. \/ d = m \/ d = RemoveCookies(m)
      \/ \E x : d = [m EXCEPT !.cookies = x]
  BY DEF ReadCookiesFromFile
<1> HIDE DEF d
<1>2. ASSUME NEW x, d = [m EXCEPT !.cookies = x]
      PROVE  Good(d)
  <2>1. /\ DOMAIN d = DOMAIN m /\ d.params = m.params /\ d.files = m.files
        /\ d.initialized = m.initialized /\ d.buffer = m.buffer
    BY <1>2 DEF Good, Shaped
  <2>2. QED
    BY <2>1 DEF Good, Shaped, Fits, Clean
<1>3. QED
  BY <1>1, <1>2, RemoveGood DEF d

LEMMA InitializeGood ==
  ASSUME NEW m, Good(m), m.params.count # 0
  PROVE  Good(Initialize(m))
<1>1. CASE m.initialized
  BY <1>1 DEF Initialize
<1>2. CASE ~m.initialized
  <2> DEFINE e == [m EXCEPT !.initialized = TRUE, !.buffer = Allocated(m)]
  <2>1. /\ DOMAIN e = DOMAIN m /\ e.params = m.params /\ e.files = m.files
        /\ e.initialized = TRUE /\ e.buffer = Allocated(m)
    BY DEF Good, Shaped
  <2>2. Allocated(m) = m.params.size
    BY DEF Allocated, Good, Fits
  <2>3. Initialize(m) = ReadCookiesFromFile(e)
    BY <1>2 DEF Initialize
  <2> HIDE DEF e
  <2>4. Good(e)
    BY <2>1, <2>2 DEF Good, Shaped, Fits, Clean
  <2>5. QED
    BY <2>1, <2>3, <2>4, ReadGood
<1>3. QED
  BY <1>1, <1>2

LEMMA ShutdownGood ==
  ASSUME NEW m, Good(m), NEW d \in Shutdown(m)
  PROVE  Good(d) /\ d.params = m.params
<1>1. CASE ~m.initialized
  BY <1>1 DEF Shutdown
<1>2. CASE m.initialized
  <2> DEFINE c == [m EXCEPT !.initialized = FALSE, !.buffer = 0]
  <2>1. /\ DOMAIN c = DOMAIN m /\ c.params = m.params /\ c.files = m.files
        /\ c.cookies = m.cookies /\ c.initialized = FALSE /\ c.buffer = 0
    BY DEF Good, Shaped
  <2>2. PICK e : /\ d = ClearCookies(e)
                 /\ e \in IF c.params.count # 0 THEN WriteCookiesToFile(c) ELSE {RemoveCookies(c)}
    BY <1>2 DEF Shutdown
  <2> HIDE DEF c
  <2>3. Good(c)
    BY <2>1 DEF Good, Shaped, Fits, Clean
  <2>4. Good(e) /\ e.params = m.params
    BY <2>1, <2>2, <2>3, WriteGood, RemoveGood
  <2>5. QED
    BY <2>2, <2>4, ClearGood
<1>3. QED
  BY <1>1, <1>2

LEMMA ResetGood ==
  ASSUME NEW m, Good(m), NEW p \in Params, p.count # 0
  PROVE  Good(Reset(m, p)) /\ Reset(m, p).params = p
<1> DEFINE d == Reset(m, p)
<1>1. /\ DOMAIN d = DOMAIN m /\ d.params = p /\ d.files = m.files
      /\ d.initialized = m.initialized
      /\ d.buffer = IF p.size # m.params.size THEN p.size ELSE m.buffer
  BY DEF Reset, Good, Shaped
<1> HIDE DEF d
<1>2. Good(d)
  BY <1>1 DEF Good, Shaped, Fits, Clean
<1>3. QED
  BY <1>1, <1>2 DEF d

LEMMA DisabledGood ==
  ASSUME NEW m, Good(m)
  PROVE  Good(Disabled(m))
<1> DEFINE e == RemoveCookies(m)
           d == [e EXCEPT !.params.count = 0]
           p == [e.params EXCEPT !.count = 0]
<1>1. /\ Good(e) /\ e.cookies = <<>>
      /\ e.params.path # None => e.files[e.params.path] = Absent
  BY RemoveGood
<1> HIDE DEF e
<1>2. /\ DOMAIN d = DOMAIN e /\ d.params = p /\ d.files = e.files /\ d.cookies = e.cookies
      /\ d.initialized = e.initialized /\ d.buffer = e.buffer
  BY <1>1 DEF Good, Shaped
<1>3. p \in Params /\ p.path = e.params.path /\ p.size = e.params.size
  BY <1>1, ParamsFacts DEF Good, Shaped
<1> HIDE DEF d, p
<1>4. Good(d)
  BY <1>1, <1>2, <1>3 DEF Good, Shaped, Fits, Clean
<1>5. QED
  BY <1>4 DEF Disabled, d, e

LEMMA SetGood ==
  ASSUME NEW m, Good(m), NEW p \in Params, NEW d \in SetParametersAndInitialize(m, p)
  PROVE  Good(d)
<1>1. CASE p.count = 0
  BY <1>1, DisabledGood DEF SetParametersAndInitialize
<1>2. CASE p.count # 0
  <2>1. PICK e \in Shutdown(Reset(m, p)) : d = Initialize(e)
    BY <1>2 DEF SetParametersAndInitialize
  <2>2. Good(Reset(m, p)) /\ Reset(m, p).params = p
    BY <1>2, ResetGood
  <2>3. Good(e) /\ e.params = p
    BY <2>2, ShutdownGood
  <2>4. QED
    BY <1>2, <2>1, <2>3, InitializeGood
<1>3. QED
  BY <1>1, <1>2

LEMMA ReadyGood ==
  ASSUME NEW m, Good(m), NEW d \in Ready(m)
  PROVE  Good(d)
BY SetGood, ParamsAssumption DEF Ready

LEMMA HeaderGood ==
  ASSUME NEW m, Good(m), NEW c
  PROVE  Good(ProcessCookieHeader(m, c))
<1>1. CASE ~Accepts(m, c)
  BY <1>1 DEF ProcessCookieHeader
<1>2. CASE Accepts(m, c)
  <2> DEFINE x == IF Held(m, c.key) THEN Replaced(m, c) ELSE Added(m, c)
             d == [m EXCEPT !.cookies = x]
  <2>1. ProcessCookieHeader(m, c) = d /\ m.params.count # 0
    BY <1>2 DEF ProcessCookieHeader, Accepts
  <2> HIDE DEF x
  <2>2. /\ DOMAIN d = DOMAIN m /\ d.params = m.params /\ d.files = m.files
        /\ d.initialized = m.initialized /\ d.buffer = m.buffer
    BY DEF Good, Shaped
  <2> HIDE DEF d
  <2>3. QED
    BY <2>1, <2>2 DEF Good, Shaped, Fits, Clean
<1>3. QED
  BY <1>1, <1>2

-----------------------------------------------------------------------------
LEMMA InitGood == Init => Good(cm)
BY NewGood DEF Init

LEMMA NextGood == Good(cm) /\ [Next]_vars => Good(cm)'
<1> SUFFICES ASSUME Good(cm), [Next]_vars PROVE Good(cm')
  BY DEF Good, Shaped, Fits, Clean
<1>1. CASE OnHeadersRead
  BY <1>1, ReadyGood, HeaderGood DEF OnHeadersRead
<1>2. CASE AddCookie
  BY <1>2, HeaderGood DEF AddCookie
<1>3. CASE OnHeadersSend
  BY <1>3, ReadyGood DEF OnHeadersSend
<1>4. CASE RemoveAll
  BY <1>4, RemoveGood DEF RemoveAll
<1>5. CASE Exit
  <2>1. PICK m \in Shutdown(cm) : cm' = New(m.files)
    BY <1>5 DEF Exit
  <2>2. DOMAIN m.files = Path
    BY ShutdownGood DEF Good, Shaped
  <2>3. QED
    BY <2>1, <2>2, NewGood
<1>6. CASE Die
  <2>1. DOMAIN cm.files = Path
    BY DEF Good, Shaped
  <2>2. QED
    BY <1>6, <2>1, NewGood DEF Die
<1>7. CASE DieWriting
  <2>1. PICK m \in {cm} \cup {Reset(cm, p) : p \in Parameters}, f \in {<<>>, Torn} :
          m.params.count # 0 /\ cm' = New([m.files EXCEPT ![m.params.path] = f])
    BY <1>7 DEF DieWriting
  <2>2. DOMAIN m.files = Path
    <3>1. CASE m = cm
      BY <3>1 DEF Good, Shaped
    <3>2. ASSUME NEW p \in Parameters, m = Reset(cm, p)
          PROVE  DOMAIN m.files = Path
      BY <3>2 DEF Reset, Good, Shaped
    <3>3. QED
      BY <3>1, <3>2
  <2>3. DOMAIN [m.files EXCEPT ![m.params.path] = f] = Path
    BY <2>2
  <2>4. QED
    BY <2>1, <2>3, NewGood
<1>8. ASSUME NEW p \in Parameters, SetCookieUsage(p) PROVE Good(cm')
  BY <1>8, SetGood, ParamsAssumption DEF SetCookieUsage
<1>9. CASE Tick \/ UNCHANGED vars
  BY <1>9 DEF Tick, vars
<1>10. QED
  BY <1>1, <1>2, <1>3, <1>4, <1>5, <1>6, <1>7, <1>8, <1>9 DEF Next

LEMMA AlwaysGood == Spec => []Good(cm)
BY InitGood, NextGood, PTL DEF Spec

(* However parameters come before, between and after Init and Shutdown, the  *)
(* parse buffer of an initialised manager has the size headers are tested    *)
(* against.                                                                  *)
THEOREM BufferAlwaysFits == Spec => []BufferFits
<1>1. Good(cm) => BufferFits
  BY DEF Good, Fits, BufferFits
<1>2. QED
  BY <1>1, AlwaysGood, PTL

(* Once cookies are disabled nothing is held and the file in use is gone,    *)
(* until other parameters enable them.                                       *)
THEOREM DisabledStaysClean == Spec => []DisabledIsClean
<1>1. Good(cm) => DisabledIsClean
  BY DEF Good, Clean, DisabledIsClean
<1>2. QED
  BY <1>1, AlwaysGood, PTL

-----------------------------------------------------------------------------
(* Lists made of lists.                                                      *)

Nth(P, n) == CHOOSE i \in P : Cardinality(UpToPlace(P, i)) = n

LEMMA ChosenIs ==
  ASSUME NEW S, NEW s \in Seq(S), NEW P \in SUBSET (DOMAIN s)
  PROVE  /\ Chosen(s, P) \in Seq(S) /\ Len(Chosen(s, P)) = Cardinality(P)
         /\ \A n \in 1..Cardinality(P) : /\ Nth(P, n) \in P
                                         /\ Chosen(s, P)[n] = s[Nth(P, n)]
         /\ \A n, k \in 1..Cardinality(P) : Nth(P, n) = Nth(P, k) => n = k
<1>1. Len(s) \in Nat /\ DOMAIN s = 1..Len(s) /\ P \in SUBSET Nat
  OBVIOUS
<1>2. IsFiniteSet(P) /\ Cardinality(P) \in Nat
  <2>1. IsFiniteSet(1..Len(s))
    BY <1>1, FS_Interval
  <2>q. QED
    BY <1>1, <2>1, FS_Subset, FS_CardinalityType
<1>3. \A n \in 1..Cardinality(P) : Nth(P, n) \in P /\ Cardinality(UpToPlace(P, Nth(P, n))) = n
  BY <1>1, <1>2, NthExists DEF Nth
<1>4. Chosen(s, P) = [n \in 1..Cardinality(P) |-> s[Nth(P, n)]]
  BY DEF Chosen, Nth, UpToPlace
<1>5. \A n \in 1..Cardinality(P) : s[Nth(P, n)] \in S
  BY <1>1, <1>3
<1>6. Chosen(s, P) \in Seq(S) /\ Len(Chosen(s, P)) = Cardinality(P)
  BY <1>2, <1>4, <1>5
<1>7. \A n \in 1..Cardinality(P) : Chosen(s, P)[n] = s[Nth(P, n)]
  BY <1>4
<1>8. \A n, k \in 1..Cardinality(P) : Nth(P, n) = Nth(P, k) => n = k
  BY <1>3
<1>q. QED
  BY <1>3, <1>6, <1>7, <1>8

(* t has, in some order, some of what s has, nothing of it twice.            *)
Within(t, s) ==
  \E f \in [DOMAIN t -> DOMAIN s] :
    /\ \A i \in DOMAIN t : t[i] = s[f[i]]
    /\ \A i, j \in DOMAIN t : f[i] = f[j] => i = j

Unique(s) == \A i, j \in DOMAIN s : s[i].key = s[j].key => i = j

Listed(s) == s \in Seq(Cookie) /\ Unique(s)

LEMMA WithinKeeps ==
  ASSUME NEW s, NEW t \in Seq(Cookie), Within(t, s)
  PROVE  (Listed(s) => Listed(t)) /\ Range(t) \subseteq Range(s)
<1>1. PICK f \in [DOMAIN t -> DOMAIN s] :
        /\ \A i \in DOMAIN t : t[i] = s[f[i]]
        /\ \A i, j \in DOMAIN t : f[i] = f[j] => i = j
  BY DEF Within
<1>2. Unique(s) => Unique(t)
  <2> SUFFICES ASSUME Unique(s), NEW i \in DOMAIN t, NEW j \in DOMAIN t, t[i].key = t[j].key
               PROVE  i = j
    BY DEF Unique
  <2>1. f[i] \in DOMAIN s /\ f[j] \in DOMAIN s /\ s[f[i]].key = s[f[j]].key
    BY <1>1
  <2>2. f[i] = f[j]
    BY <2>1 DEF Unique
  <2>q. QED
    BY <1>1, <2>2
<1>3. \A i \in DOMAIN t : f[i] \in DOMAIN s /\ t[i] = s[f[i]]
  BY <1>1
<1>4. Listed(s) => Listed(t)
  BY <1>2, <1>3 DEF Listed
<1>5. Range(t) \subseteq Range(s)
  BY <1>3 DEF Range
<1>q. QED
  BY <1>4, <1>5

LEMMA ChosenWithin ==
  ASSUME NEW S, NEW s \in Seq(S), NEW P \in SUBSET (DOMAIN s)
  PROVE  Chosen(s, P) \in Seq(S) /\ Within(Chosen(s, P), s)
<1> DEFINE t == Chosen(s, P)
           f == [n \in DOMAIN t |-> Nth(P, n)]
<1>1. /\ t \in Seq(S) /\ Len(t) = Cardinality(P)
      /\ \A n \in 1..Cardinality(P) : /\ Nth(P, n) \in P
                                      /\ t[n] = s[Nth(P, n)]
      /\ \A n, k \in 1..Cardinality(P) : Nth(P, n) = Nth(P, k) => n = k
  BY ChosenIs
<1> HIDE DEF t
<1>2. DOMAIN t = 1..Cardinality(P)
  BY <1>1
<1>3. f \in [DOMAIN t -> DOMAIN s]
  BY <1>1, <1>2
<1>4. \A i \in DOMAIN t : t[i] = s[f[i]]
  BY <1>1, <1>2
<1>5. \A i, j \in DOMAIN t : f[i] = f[j] => i = j
  BY <1>1, <1>2
<1> HIDE DEF f
<1>6. Within(t, s)
  BY <1>3, <1>4, <1>5 DEF Within
<1>q. QED
  BY <1>1, <1>6 DEF t

(* The first n of a list.                                                    *)
LEMMA PrefixWithin ==
  ASSUME NEW S, NEW s \in Seq(S), NEW n \in 0..Len(s)
  PROVE  SubSeq(s, 1, n) \in Seq(S) /\ Within(SubSeq(s, 1, n), s)
<1> DEFINE t == SubSeq(s, 1, n)
           f == [i \in DOMAIN t |-> i]
<1>1. Len(s) \in Nat /\ n \in Nat /\ n <= Len(s) /\ 1 \in 1..(Len(s) + 1)
  OBVIOUS
<1>2. /\ t \in Seq(S) /\ Len(t) = IF 1 <= n THEN n - 1 + 1 ELSE 0
      /\ \A i \in 1..(n - 1 + 1) : t[i] = s[1 + i - 1]
  BY <1>1, SubSeqFacts
<1>3. DOMAIN t = 1..n /\ \A i \in 1..n : t[i] = s[i] /\ i \in DOMAIN s
  <2>1. t \in Seq(S) /\ Len(t) = n
    BY <1>1, <1>2
  <2>2. \A i \in 1..n : i \in 1..(n - 1 + 1) /\ 1 + i - 1 = i /\ i \in DOMAIN s
    BY <1>1
  <2>3. \A i \in 1..n : t[i] = s[i]
    BY <1>2, <2>2
  <2>q. QED
    BY <2>1, <2>2, <2>3
<1> HIDE DEF t
<1>4. f \in [DOMAIN t -> DOMAIN s]
  BY <1>3
<1>5. (\A i \in DOMAIN t : t[i] = s[f[i]]) /\ \A i, j \in DOMAIN t : f[i] = f[j] => i = j
  BY <1>3
<1> HIDE DEF f
<1>6. Within(t, s)
  BY <1>4, <1>5 DEF Within
<1>q. QED
  BY <1>2, <1>6 DEF t

LEMMA TailWithin ==
  ASSUME NEW S, NEW s \in Seq(S), s # <<>>
  PROVE  Tail(s) \in Seq(S) /\ Within(Tail(s), s)
<1> DEFINE t == Tail(s)
           f == [i \in DOMAIN t |-> i + 1]
<1>1. /\ Len(s) \in Nat /\ t \in Seq(S) /\ Len(t) = Len(s) - 1
      /\ \A i \in 1..(Len(s) - 1) : t[i] = s[i + 1]
  BY EmptySeq
<1> HIDE DEF t
<1>2. DOMAIN t = 1..(Len(s) - 1) /\ \A i \in DOMAIN t : i \in Nat /\ i + 1 \in DOMAIN s
  BY <1>1
<1>3. f \in [DOMAIN t -> DOMAIN s]
  BY <1>2
<1>4. (\A i \in DOMAIN t : t[i] = s[f[i]]) /\ \A i, j \in DOMAIN t : f[i] = f[j] => i = j
  BY <1>1, <1>2
<1> HIDE DEF f
<1>5. Within(t, s)
  BY <1>3, <1>4 DEF Within
<1>q. QED
  BY <1>1, <1>5 DEF t

LEMMA RemoveWithin ==
  ASSUME NEW S, NEW s \in Seq(S), NEW n \in 1..Len(s)
  PROVE  /\ RemoveAt(s, n) \in Seq(S) /\ Within(RemoveAt(s, n), s)
         /\ \A i \in DOMAIN RemoveAt(s, n) : \E j \in DOMAIN s : j # n /\ RemoveAt(s, n)[i] = s[j]
<1> DEFINE t == RemoveAt(s, n)
           f == [i \in DOMAIN t |-> IF i < n THEN i ELSE i + 1]
<1>1. /\ Len(s) \in Nat /\ t \in Seq(S) /\ Len(t) = Len(s) - 1
      /\ \A j \in 1..(Len(s) - 1) : t[j] = IF j < n THEN s[j] ELSE s[j + 1]
  BY RemoveAtFacts
<1> HIDE DEF t
<1>2. DOMAIN t = 1..(Len(s) - 1) /\ \A i \in DOMAIN t : i \in Nat /\ i + 1 \in DOMAIN s /\ i \in DOMAIN s
  BY <1>1
<1>3. f \in [DOMAIN t -> DOMAIN s]
  BY <1>2
<1>4. \A i \in DOMAIN t : t[i] = s[f[i]] /\ f[i] # n
  BY <1>1, <1>2
<1>5. \A i, j \in DOMAIN t : f[i] = f[j] => i = j
  BY <1>2
<1> HIDE DEF f
<1>6. Within(t, s)
  BY <1>3, <1>4, <1>5 DEF Within
<1>7. \A i \in DOMAIN t : f[i] \in DOMAIN s
  BY <1>3
<1>q. QED
  BY <1>1, <1>4, <1>6, <1>7 DEF t

LEMMA EmptyListed == Listed(<<>>) /\ Range(<<>>) = {}
<1>1. <<>> \in Seq(Cookie) /\ DOMAIN <<>> = {}
  BY EmptySeq
<1>q. QED
  BY <1>1 DEF Listed, Unique, Range

-----------------------------------------------------------------------------
(* What a header does to a list.                                             *)

Fresh(c, t) == ~(~c.session /\ t >= c.expires)

(* An unexpired cookie takes the place of the one of its name.               *)
LEMMA PutListed ==
  ASSUME NEW s, Listed(s), NEW n \in DOMAIN s, NEW c \in Cookie, s[n].key = c.key,
         NEW r, r = [s EXCEPT ![n] = c]
  PROVE  /\ Listed(r)
         /\ r[n] = c /\ n \in DOMAIN r
         /\ \A i \in DOMAIN r : r[i] = c \/ (i \in DOMAIN s /\ r[i] = s[i])
<1>1. s \in Seq(Cookie) /\ r \in Seq(Cookie) /\ DOMAIN r = DOMAIN s
  BY DEF Listed
<1>2. r[n] = c /\ \A i \in DOMAIN r : i # n => r[i] = s[i]
  BY <1>1
<1>3. \A i \in DOMAIN r : r[i].key = s[i].key
  BY <1>1, <1>2
<1>4. Unique(r)
  BY <1>1, <1>3 DEF Listed, Unique
<1>q. QED
  BY <1>1, <1>2, <1>4 DEF Listed

Named(s, k) == \E i \in DOMAIN s : s[i].key = k

(* An unexpired cookie nobody has the name of comes last.                    *)
LEMMA AppendListed ==
  ASSUME NEW s, Listed(s), NEW c \in Cookie, ~Named(s, c.key),
         NEW r, r = Append(s, c)
  PROVE  /\ Listed(r) /\ Len(r) = Len(s) + 1 /\ Len(s) \in Nat
         /\ r[Len(r)] = c
         /\ \A i \in DOMAIN r : r[i] = c \/ (i \in DOMAIN s /\ r[i] = s[i])
<1>1. /\ s \in Seq(Cookie) /\ r \in Seq(Cookie) /\ Len(r) = Len(s) + 1 /\ Len(s) \in Nat
      /\ DOMAIN s = 1..Len(s) /\ DOMAIN r = 1..(Len(s) + 1)
      /\ r[Len(s) + 1] = c /\ \A i \in 1..Len(s) : r[i] = s[i]
  BY DEF Listed
<1>2. \A i \in DOMAIN r : i = Len(s) + 1 \/ i \in 1..Len(s)
  BY <1>1
<1>3. Unique(r)
  <2> SUFFICES ASSUME NEW i \in DOMAIN r, NEW j \in DOMAIN r, r[i].key = r[j].key
               PROVE  i = j
    BY DEF Unique
  <2>1. CASE i \in 1..Len(s) /\ j \in 1..Len(s)
    BY <1>1, <2>1 DEF Listed, Unique
  <2>2. CASE ~(i \in 1..Len(s) /\ j \in 1..Len(s))
    BY <1>1, <1>2, <2>2 DEF Named
  <2>q. QED
    BY <2>1, <2>2
<1>q. QED
  BY <1>1, <1>2, <1>3 DEF Listed

LEMMA PlaceIs ==
  ASSUME NEW m, NEW k, Held(m, k)
  PROVE  Place(m, k) \in DOMAIN m.cookies /\ m.cookies[Place(m, k)].key = k
BY DEF Held, Place

(* The list after a cookie came whose lifetime is not over: it is sent from  *)
(* then on, nothing else by its name, and nothing else is new.               *)
LEMMA GivenList ==
  ASSUME NEW m, Listed(m.cookies), m.params.count \in Nat, m.params.count # 0,
         NEW c \in Cookie, Fresh(c, now),
         NEW r, r = IF Held(m, c.key) THEN Replaced(m, c) ELSE Added(m, c)
  PROVE  /\ Listed(r) /\ \E i \in DOMAIN r : r[i] = c
         /\ \A i \in DOMAIN r : r[i] = c \/ \E j \in DOMAIN m.cookies : r[i] = m.cookies[j]
<1> DEFINE s == m.cookies
<1>0. ~IsCookieExpired(c) /\ s \in Seq(Cookie)
  BY DEF IsCookieExpired, Fresh, Listed
<1>1. CASE Held(m, c.key)
  <2>1. r = [s EXCEPT ![Place(m, c.key)] = c]
    BY <1>0, <1>1 DEF Replaced
  <2>2. Place(m, c.key) \in DOMAIN s /\ s[Place(m, c.key)].key = c.key
    BY <1>1, PlaceIs
  <2> HIDE DEF s
  <2>3. /\ Listed(r) /\ r[Place(m, c.key)] = c /\ Place(m, c.key) \in DOMAIN r
        /\ \A i \in DOMAIN r : r[i] = c \/ (i \in DOMAIN s /\ r[i] = s[i])
    BY <2>1, <2>2, PutListed DEF s
  <2>q. QED
    BY <2>3 DEF s
<1>2. CASE ~Held(m, c.key)
  <2> DEFINE l == Append(s, c)
  <2>1. ~Named(s, c.key)
    BY <1>2 DEF Held, Named
  <2>2. r = IF Len(l) > m.params.count THEN Tail(l) ELSE l
    BY <1>0, <1>2 DEF Added
  <2>0. Listed(s) /\ l = Append(s, c)
    OBVIOUS
  <2> HIDE DEF s, l
  <2>3. /\ Listed(l) /\ Len(l) = Len(s) + 1 /\ Len(s) \in Nat /\ l[Len(l)] = c
        /\ \A i \in DOMAIN l : l[i] = c \/ (i \in DOMAIN s /\ l[i] = s[i])
    <3>1. Listed(l)
      BY <2>0, <2>1, AppendListed
    <3>2. Len(l) = Len(s) + 1
      BY <2>0, <2>1, AppendListed
    <3>3. Len(s) \in Nat /\ l[Len(l)] = c
      BY <2>0, <2>1, AppendListed
    <3>4. \A i \in DOMAIN l : l[i] = c \/ (i \in DOMAIN s /\ l[i] = s[i])
      BY <2>0, <2>1, AppendListed
    <3>q. QED
      BY <3>1, <3>2, <3>3, <3>4
  <2>4. l \in Seq(Cookie) /\ DOMAIN l = 1..Len(l) /\ Len(l) \in DOMAIN l
    BY <2>3 DEF Listed
  <2>5. CASE r = l
    BY <2>3, <2>4, <2>5 DEF s
  <2>6. CASE Len(l) > m.params.count /\ r = Tail(l)
    <3>1. l # <<>> /\ Len(l) >= 2
      BY <2>3, <2>4, <2>6
    <3>2. r \in Seq(Cookie) /\ Within(r, l)
      BY <2>4, <2>6, <3>1, TailWithin
    <3>3. Listed(r)
      BY <2>3, <3>2, WithinKeeps
    <3>4. \A i \in DOMAIN r : \E j \in DOMAIN l : r[i] = l[j]
      BY <3>2 DEF Within
    <3>5. Len(l) - 1 \in DOMAIN r /\ r[Len(l) - 1] = c
      <4>1. Len(r) = Len(l) - 1 /\ \A i \in 1..(Len(l) - 1) : r[i] = l[i + 1]
        <5>1. l \in Seq(Cookie) /\ l # <<>>
          BY <2>4, <3>1
        <5>2. Len(Tail(l)) = Len(l) - 1 /\ \A i \in 1..(Len(l) - 1) : Tail(l)[i] = l[i + 1]
          BY ONLY <5>1
        <5>q. QED
          BY <2>6, <5>2
      <4>2. Len(l) - 1 \in 1..(Len(l) - 1) /\ Len(l) - 1 + 1 = Len(l)
        BY <2>3, <3>1
      <4>q. QED
        BY <2>3, <3>2, <4>1, <4>2
    <3>q. QED
      BY <2>3, <3>3, <3>4, <3>5 DEF s
  <2>q. QED
    BY <2>2, <2>5, <2>6
<1>q. QED
  BY <1>1, <1>2

(* The list after a cookie came whose lifetime is over.                      *)
LEMMA WithdrawnList ==
  ASSUME NEW m, Listed(m.cookies), NEW c \in Cookie, ~Fresh(c, now),
         NEW r, r = IF Held(m, c.key) THEN Replaced(m, c) ELSE Added(m, c)
  PROVE  /\ Listed(r)
         /\ \A i \in DOMAIN r : \E j \in DOMAIN m.cookies : r[i] = m.cookies[j]
<1>0. IsCookieExpired(c) /\ m.cookies \in Seq(Cookie)
  BY DEF IsCookieExpired, Fresh, Listed
<1>1. CASE Held(m, c.key)
  <2>1. r = RemoveAt(m.cookies, Place(m, c.key))
    BY <1>0, <1>1 DEF Replaced
  <2>2. Place(m, c.key) \in 1..Len(m.cookies)
    BY <1>0, <1>1, PlaceIs
  <2>3. r \in Seq(Cookie) /\ Within(r, m.cookies)
    BY <1>0, <2>1, <2>2, RemoveWithin
  <2>4. Listed(r)
    BY <2>3, WithinKeeps
  <2>q. QED
    BY <2>3, <2>4 DEF Within
<1>2. CASE ~Held(m, c.key)
  BY <1>0, <1>2 DEF Added
<1>q. QED
  BY <1>1, <1>2

LEMMA MinIs ==
  ASSUME NEW a \in Nat, NEW b \in Nat
  PROVE  Min({a, b}) \in 0..b /\ (Min({a, b}) = 0 => a = 0 \/ b = 0)
<1>1. \E x \in {a, b} : \A y \in {a, b} : x <= y
  OBVIOUS
<1>2. Min({a, b}) \in {a, b} /\ \A y \in {a, b} : Min({a, b}) <= y
  BY <1>1 DEF Min
<1>q. QED
  BY <1>2

(* What is saved is sent, and had a lifetime.                                *)
Kept(m) == {c \in Range(m.cookies) : Fresh(c, now) /\ ~c.session}

LEMMA SavedKept ==
  ASSUME NEW m, Listed(m.cookies), m.params.room \in Nat
  PROVE  Listed(Saved(m)) /\ Range(Saved(m)) \subseteq Kept(m)
<1> DEFINE s == m.cookies
           I == {i \in DOMAIN s : ~IsCookieExpired(s[i]) /\ ~s[i].session}
           t == Chosen(s, I)
           n == Min({m.params.room, Len(t)})
<1>1. s \in Seq(Cookie) /\ I \in SUBSET (DOMAIN s) /\ \A i \in I : s[i] \in Kept(m)
  BY DEF Listed, Kept, Range, Fresh, IsCookieExpired
<1>2. Saved(m) = SubSeq(t, 1, n)
  BY DEF Saved
<1> HIDE DEF s, I
<1>3. t \in Seq(Cookie) /\ Within(t, s)
  BY <1>1, ChosenWithin
<1>4. Range(t) \subseteq Kept(m)
  <2>1. /\ t \in Seq(Cookie) /\ Len(t) = Cardinality(I)
        /\ \A i \in 1..Cardinality(I) : Nth(I, i) \in I /\ t[i] = s[Nth(I, i)]
    BY <1>1, ChosenIs
  <2> HIDE DEF t
  <2>2. \A i \in DOMAIN t : t[i] \in Kept(m)
    BY <1>1, <2>1
  <2>q. QED
    BY <2>2 DEF Range
<1> HIDE DEF t
<1>5. Listed(t)
  BY <1>3, WithinKeeps DEF s
<1>7. n \in 0..Len(t)
  BY <1>3, MinIs
<1> HIDE DEF n
<1>8. SubSeq(t, 1, n) \in Seq(Cookie) /\ Within(SubSeq(t, 1, n), t)
  BY <1>3, <1>7, PrefixWithin
<1>q. QED
  BY <1>2, <1>4, <1>5, <1>8, WithinKeeps

LEMMA ReadListed ==
  ASSUME NEW m, NEW file, Listed(file)
  PROVE  LET r == <<>> \o Chosen(file, Short(m, file))
         IN  Listed(r) /\ Range(r) \subseteq Range(file)
<1>1. file \in Seq(Cookie) /\ Short(m, file) \in SUBSET (DOMAIN file)
  BY DEF Listed, Short
<1> DEFINE t == Chosen(file, Short(m, file))
<1>2. t \in Seq(Cookie) /\ Within(t, file)
  BY <1>1, ChosenWithin
<1> HIDE DEF t
<1>3. Listed(t) /\ Range(t) \subseteq Range(file)
  BY <1>2, WithinKeeps
<1>4. <<>> \o t = t
  BY <1>2, ConcatEmptySeq
<1>q. QED
  BY <1>3, <1>4 DEF t

-----------------------------------------------------------------------------
(* What the manager's functions do to the list and to the files.             *)

Stored(x) == x \in Absentee \/ Listed(x)
Filed(f) == f \in [Path -> Seq(Cookie) \cup Absentee] /\ \A p \in Path : Stored(f[p])
Stocked(m) == Filed(m.files) /\ Listed(m.cookies)
Idle(m) == m.initialized \in BOOLEAN /\ (~m.initialized => m.cookies = <<>>)

(* A manager nobody has initialised, or that was shut down for good.         *)
Quiet(m) == ~m.initialized => m.params.path = None

(* From m to d no file got another content, or none but f, which is empty,   *)
(* or has what was kept, or what it had: if nothing was there to be written, *)
(* or writing failed.                                                        *)
Same(d, m) == \A q \in Path : Content(d.files[q]) = Content(m.files[q])
SameBut(d, m, f) == \A q \in Path : q # f => Content(d.files[q]) = Content(m.files[q])
Emptied(d, m, f) == SameBut(d, m, f) /\ (f # None => Content(d.files[f]) = {})
Saves(d, m, f) ==
  /\ SameBut(d, m, f)
  /\ f # None => \/ Content(d.files[f]) \subseteq Kept(m)
                 \/ Content(d.files[f]) = Content(m.files[f]) /\ (m.cookies = <<>> \/ faulty)

(* What is in the file in use.                                               *)
Found(m) == IF m.params.path = None THEN {} ELSE Content(m.files[m.params.path])

LEMMA ContentFacts ==
  /\ Content(Absent) = {} /\ Content(Torn) = {} /\ Content(<<>>) = {}
  /\ Stored(Absent) /\ Stored(Torn) /\ Stored(<<>>)
BY EmptyListed DEF Content, Absentee, Stored

LEMMA FileWritten ==
  ASSUME NEW f, Filed(f), NEW p \in Path, NEW x, Stored(x)
  PROVE  Filed([f EXCEPT ![p] = x])
<1> DEFINE g == [f EXCEPT ![p] = x]
<1>1. x \in Seq(Cookie) \cup Absentee
  BY DEF Stored, Listed
<1>2. g \in [Path -> Seq(Cookie) \cup Absentee] /\ \A q \in Path : g[q] = IF q = p THEN x ELSE f[q]
  BY <1>1 DEF Filed
<1> HIDE DEF g
<1>3. \A q \in Path : Stored(g[q])
  BY <1>2 DEF Filed
<1>4. Filed(g)
  BY <1>2, <1>3 DEF Filed
<1>q. QED
  BY <1>4 DEF g

(* A manager that differs in the file in use.                                *)
WithFile(m, x) == [m EXCEPT !.files[m.params.path] = x]

LEMMA FileSet ==
  ASSUME NEW m, Good(m), Stocked(m), m.params.path # None, NEW x, Stored(x),
         NEW d, d = WithFile(m, x)
  PROVE  /\ Stocked(d) /\ d.files[m.params.path] = x /\ SameBut(d, m, m.params.path)
         /\ d.cookies = m.cookies /\ d.params = m.params /\ m.params.path \in Path
<1>1. m.params.path \in Path /\ DOMAIN m.files = Path
  BY ParamsFacts DEF Good, Shaped
<1> DEFINE f == [m.files EXCEPT ![m.params.path] = x]
<1>2. d.files = f /\ d.cookies = m.cookies /\ d.params = m.params
  BY DEF Good, Shaped, WithFile
<1>3. Filed(f)
  BY <1>1, FileWritten DEF Stocked
<1>4. f[m.params.path] = x /\ \A q \in Path : q # m.params.path => f[q] = m.files[q]
  BY <1>1
<1> HIDE DEF f
<1>q. QED
  BY <1>1, <1>2, <1>3, <1>4 DEF Stocked, SameBut

LEMMA ClearStocked ==
  ASSUME NEW m, Good(m), Stocked(m)
  PROVE  Stocked(ClearCookies(m))
<1> DEFINE d == ClearCookies(m)
<1>1. d.cookies = <<>> /\ d.files = m.files
  BY ClearGood
<1> HIDE DEF d
<1>2. Stocked(d)
  BY <1>1, EmptyListed DEF Stocked
<1>q. QED
  BY <1>2 DEF d

LEMMA RemoveStocked ==
  ASSUME NEW m, Good(m), Stocked(m), NEW d, d = RemoveCookies(m)
  PROVE  Stocked(d) /\ Emptied(d, m, m.params.path)
<1>1. CASE m.params.path = None
  <2>1. d = ClearCookies(m)
    BY <1>1 DEF DeleteCookiesFile, RemoveCookies
  <2>2. d.files = m.files
    BY <2>1, ClearGood
  <2>q. QED
    BY <1>1, <2>1, <2>2, ClearStocked DEF Emptied, SameBut
<1>2. CASE m.params.path # None
  <2> DEFINE e == DeleteCookiesFile(m)
  <2>1. e = [m EXCEPT !.files[m.params.path] = Absent]
    BY <1>2 DEF DeleteCookiesFile
  <2> HIDE DEF e
  <2>0. e = WithFile(m, Absent)
    BY <2>1 DEF WithFile
  <2>2. /\ Stocked(e) /\ e.files[m.params.path] = Absent
        /\ SameBut(e, m, m.params.path)
    BY <1>2, <2>0, FileSet, ContentFacts
  <2>3. d = [e EXCEPT !.cookies = <<>>]
    BY DEF RemoveCookies, ClearCookies, e
  <2>4. DOMAIN e = DOMAIN m
    BY <2>1 DEF Good, Shaped
  <2>5. d.files = e.files /\ d.cookies = <<>>
    BY <2>3, <2>4 DEF Good, Shaped
  <2>q. QED
    BY <2>2, <2>5, EmptyListed, ContentFacts DEF Stocked, Emptied, SameBut
<1>q. QED
  BY <1>1, <1>2

LEMMA WriteStocked ==
  ASSUME NEW m, Good(m), Stocked(m), NEW d \in WriteCookiesToFile(m)
  PROVE  Stocked(d) /\ Saves(d, m, m.params.path)
<1>1. m.params.room \in Nat /\ Listed(m.cookies)
  BY DEF Good, Shaped, Params, Stocked
<1>2. Listed(Saved(m)) /\ Range(Saved(m)) \subseteq Kept(m)
  BY <1>1, SavedKept
<1>3. Stored(Saved(m)) /\ Content(Saved(m)) \subseteq Kept(m)
  BY <1>2 DEF Stored, Content
<1>4. CASE ~Writes(m)
  <2>1. d = m /\ (m.params.path # None => m.cookies = <<>>)
    BY <1>4 DEF Writes, WriteCookiesToFile
  <2>q. QED
    BY <2>1 DEF Saves, SameBut
<1>5. CASE Writes(m)
  <2>1. m.params.path # None
    BY <1>5 DEF Writes
  <2>2. \/ d = WithFile(m, Saved(m))
        \/ faulty /\ d = m
        \/ d = WithFile(m, Torn)
    BY <1>5 DEF WriteCookiesToFile, WithFile
  <2>3. CASE faulty /\ d = m
    BY <2>3 DEF Saves, SameBut
  <2>4. ASSUME NEW x, Stored(x), Content(x) \subseteq Kept(m), d = WithFile(m, x)
        PROVE  Stocked(d) /\ Saves(d, m, m.params.path)
    <3>1. Stocked(d) /\ d.files[m.params.path] = x /\ SameBut(d, m, m.params.path)
      BY <2>1, <2>4, FileSet
    <3>q. QED
      BY <2>4, <3>1 DEF Saves
  <2>5. Stored(Torn) /\ Content(Torn) \subseteq Kept(m)
    BY ContentFacts
  <2>q. QED
    BY <1>3, <2>2, <2>3, <2>4, <2>5
<1>q. QED
  BY <1>4, <1>5

(* Reading into an empty list: nothing but what was in the file comes.       *)
LEMMA ReadStocked ==
  ASSUME NEW m, Good(m), Stocked(m), m.cookies = <<>>, NEW d, d = ReadCookiesFromFile(m)
  PROVE  /\ Stocked(d) /\ d.initialized = m.initialized /\ d.params = m.params
         /\ Same(d, m) /\ Range(d.cookies) \subseteq Found(m)
<1>1. CASE m.params.path = None \/ m.files[m.params.path] = Absent
  BY <1>1, EmptyListed DEF ReadCookiesFromFile, Same
<1>2. CASE /\ m.params.path # None /\ m.files[m.params.path] # Absent
           /\ m.files[m.params.path] = Torn
  <2>1. d = RemoveCookies(m)
    BY <1>2 DEF ReadCookiesFromFile
  <2>2. Stocked(d) /\ Emptied(d, m, m.params.path)
    BY <2>1, RemoveStocked
  <2>3. d.cookies = <<>> /\ d.initialized = m.initialized /\ d.params = m.params
    BY <2>1, RemoveGood
  <2>4. Same(d, m)
    BY <1>2, <2>2, ContentFacts DEF Emptied, SameBut, Same
  <2>q. QED
    BY <2>2, <2>3, <2>4, EmptyListed
<1>3. CASE /\ m.params.path # None /\ m.files[m.params.path] # Absent
           /\ m.files[m.params.path] # Torn
  <2> DEFINE file == m.files[m.params.path]
             list == <<>> \o Chosen(file, Short(m, file))
  <2>1. m.params.path \in Path
    BY <1>3, ParamsFacts DEF Good, Shaped
  <2>2. Listed(file) /\ Found(m) = Range(file)
    BY <1>3, <2>1 DEF Stocked, Filed, Stored, Absentee, Found, Content
  <2>3. d = [m EXCEPT !.cookies = list]
    BY <1>3 DEF ReadCookiesFromFile
  <2> HIDE DEF file
  <2>4. Listed(list) /\ Range(list) \subseteq Range(file)
    BY <2>2, ReadListed
  <2> HIDE DEF list
  <2>5. d.cookies = list /\ d.files = m.files /\ d.initialized = m.initialized /\ d.params = m.params
    BY <2>3 DEF Good, Shaped
  <2>q. QED
    BY <2>2, <2>4, <2>5 DEF Stocked, Same
<1>q. QED
  BY <1>1, <1>2, <1>3

LEMMA InitializeStocked ==
  ASSUME NEW m, Good(m), m.params.count # 0, Stocked(m), m.cookies = <<>>, ~m.initialized,
         NEW d, d = Initialize(m)
  PROVE  /\ Stocked(d) /\ d.initialized = TRUE /\ d.params = m.params
         /\ Same(d, m) /\ Range(d.cookies) \subseteq Found(m)
<1> DEFINE e == [m EXCEPT !.initialized = TRUE, !.buffer = Allocated(m)]
<1>1. /\ DOMAIN e = DOMAIN m /\ e.params = m.params /\ e.files = m.files /\ e.cookies = m.cookies
      /\ e.initialized = TRUE /\ e.buffer = Allocated(m)
  BY DEF Good, Shaped
<1>2. Allocated(m) = m.params.size
  BY DEF Allocated, Good, Fits
<1>3. d = ReadCookiesFromFile(e)
  BY DEF Initialize
<1> HIDE DEF e
<1>4. Good(e)
  BY <1>1, <1>2 DEF Good, Shaped, Fits, Clean
<1>5. Stocked(e) /\ Found(e) = Found(m)
  BY <1>1 DEF Stocked, Found
<1>6. /\ Stocked(d) /\ d.initialized = e.initialized /\ d.params = e.params
      /\ Same(d, e) /\ Range(d.cookies) \subseteq Found(e)
  BY <1>1, <1>3, <1>4, <1>5, ReadStocked
<1>q. QED
  BY <1>1, <1>5, <1>6 DEF Same

LEMMA ShutdownStocked ==
  ASSUME NEW m, Good(m), Stocked(m), Idle(m), NEW d \in Shutdown(m)
  PROVE  Stocked(d) /\ d.cookies = <<>> /\ ~d.initialized /\ Saves(d, m, m.params.path)
<1>1. CASE ~m.initialized
  BY <1>1 DEF Shutdown, Idle, Saves, SameBut
<1>2. CASE m.initialized
  <2> DEFINE c == [m EXCEPT !.initialized = FALSE, !.buffer = 0]
  <2>1. /\ DOMAIN c = DOMAIN m /\ c.params = m.params /\ c.files = m.files
        /\ c.cookies = m.cookies /\ c.initialized = FALSE /\ c.buffer = 0
    BY DEF Good, Shaped
  <2>2. PICK e : /\ d = ClearCookies(e)
                 /\ e \in IF c.params.count # 0 THEN WriteCookiesToFile(c) ELSE {RemoveCookies(c)}
    BY <1>2 DEF Shutdown
  <2> HIDE DEF c
  <2>3. Good(c) /\ Stocked(c) /\ Kept(c) = Kept(m)
    BY <2>1 DEF Good, Shaped, Fits, Clean, Stocked, Kept
  <2>4. Good(e) /\ e.initialized = FALSE
    BY <2>1, <2>2, <2>3, WriteGood, RemoveGood
  <2>5. Stocked(e) /\ Saves(e, c, c.params.path)
    <3>1. CASE c.params.count # 0
      BY <2>2, <2>3, <3>1, WriteStocked
    <3>2. CASE c.params.count = 0
      <4>1. Stocked(e) /\ Emptied(e, c, c.params.path)
        BY <2>2, <2>3, <3>2, RemoveStocked
      <4>q. QED
        BY <4>1 DEF Emptied, Saves
    <3>q. QED
      BY <3>1, <3>2
  <2>6. Stocked(d)
    BY <2>2, <2>4, <2>5, ClearStocked
  <2>7. d.cookies = <<>> /\ d.initialized = FALSE /\ d.files = e.files
    BY <2>2, <2>4, ClearGood
  <2>8. Saves(d, m, m.params.path)
    BY <2>1, <2>3, <2>5, <2>7 DEF Saves, SameBut
  <2>q. QED
    BY <2>6, <2>7, <2>8
<1>q. QED
  BY <1>1, <1>2 DEF Idle

LEMMA ResetStocked ==
  ASSUME NEW m, Good(m), Stocked(m), Idle(m), NEW p \in Params, NEW d, d = Reset(m, p)
  PROVE  /\ Stocked(d) /\ Idle(d) /\ d.files = m.files
         /\ Kept(d) \subseteq Kept(m)
         /\ p.count # 0 /\ d.cookies = <<>> => m.cookies = <<>>
<1> DEFINE n == Min({p.count, Len(m.cookies)})
<1>1. d.files = m.files /\ d.initialized = m.initialized /\ d.cookies = SubSeq(m.cookies, 1, n)
  BY DEF Reset, Good, Shaped
<1>2. m.cookies \in Seq(Cookie) /\ p.count \in Nat /\ Len(m.cookies) \in Nat
  BY DEF Stocked, Listed, Params
<1>3. n \in 0..Len(m.cookies) /\ (n = 0 => p.count = 0 \/ Len(m.cookies) = 0)
  BY <1>2, MinIs
<1> HIDE DEF n
<1>4. SubSeq(m.cookies, 1, n) \in Seq(Cookie) /\ Within(SubSeq(m.cookies, 1, n), m.cookies)
  BY <1>2, <1>3, PrefixWithin
<1>5. Listed(d.cookies) /\ Range(d.cookies) \subseteq Range(m.cookies)
  BY <1>1, <1>4, WithinKeeps DEF Stocked
<1>6. m.cookies = <<>> => d.cookies = <<>>
  <2> SUFFICES ASSUME m.cookies = <<>> PROVE d.cookies = <<>>
    OBVIOUS
  <2>1. DOMAIN d.cookies = {}
    BY <1>1, <1>4, EmptySeq DEF Within
  <2>q. QED
    BY <1>1, <1>4, <2>1, EmptySeq
<1>7. p.count # 0 /\ d.cookies = <<>> => m.cookies = <<>>
  <2> SUFFICES ASSUME p.count # 0, d.cookies = <<>> PROVE m.cookies = <<>>
    OBVIOUS
  <2>1. 1 \in 1..(Len(m.cookies) + 1)
    BY <1>2
  <2>2. Len(d.cookies) = IF 1 <= n THEN n - 1 + 1 ELSE 0
    BY <1>1, <1>2, <1>3, <2>1, SubSeqFacts
  <2>3. n = 0
    BY <1>3, <2>2
  <2>q. QED
    BY <1>2, <1>3, <2>3, EmptySeq
<1>q. QED
  BY <1>1, <1>5, <1>6, <1>7 DEF Stocked, Idle, Kept

LEMMA DisabledStocked ==
  ASSUME NEW m, Good(m), Stocked(m), Idle(m), NEW d, d = Disabled(m)
  PROVE  /\ Stocked(d) /\ Idle(d) /\ d.cookies = <<>>
         /\ Emptied(d, m, m.params.path)
         /\ d.params.path = m.params.path /\ d.initialized = m.initialized
<1> DEFINE e == RemoveCookies(m)
<1>1. Good(e) /\ e.cookies = <<>> /\ e.initialized = m.initialized /\ e.params = m.params
  BY RemoveGood
<1>2. d = [e EXCEPT !.params.count = 0] /\ Stocked(e) /\ Emptied(e, m, m.params.path)
  BY RemoveStocked DEF Disabled
<1> HIDE DEF e
<1>3. /\ d.cookies = <<>> /\ d.files = e.files /\ d.initialized = m.initialized
      /\ d.params = [e.params EXCEPT !.count = 0]
  BY <1>1, <1>2 DEF Good, Shaped
<1>4. d.params.path = m.params.path
  BY <1>1, <1>3, ParamsFacts DEF Good, Shaped
<1>q. QED
  BY <1>1, <1>2, <1>3, <1>4 DEF Stocked, Idle, Emptied, SameBut

(* Whatever parameters come, what is then in memory is in the file in use,   *)
(* and that file has what was in memory, or what it had.                     *)
LEMMA SetStocked ==
  ASSUME NEW m, Good(m), Stocked(m), Idle(m), NEW p \in Params, p.count # 0,
         NEW d \in SetParametersAndInitialize(m, p)
  PROVE  /\ Stocked(d) /\ Idle(d) /\ d.initialized /\ d.params = p
         /\ Range(d.cookies) \subseteq Found(d) /\ Saves(d, m, p.path)
<1> DEFINE r == Reset(m, p)
<1>1. PICK e \in Shutdown(r) : d = Initialize(e)
  BY DEF SetParametersAndInitialize
<1>2. Good(r) /\ r.params = p
  BY ResetGood
<1>3. /\ Stocked(r) /\ Idle(r) /\ r.files = m.files
      /\ Kept(r) \subseteq Kept(m) /\ (r.cookies = <<>> => m.cookies = <<>>)
  BY ResetStocked
<1> HIDE DEF r
<1>4. Good(e) /\ e.params = p
  BY <1>2, ShutdownGood
<1>5. Stocked(e) /\ e.cookies = <<>> /\ ~e.initialized /\ Saves(e, r, p.path)
  BY <1>2, <1>3, ShutdownStocked
<1>6. /\ Stocked(d) /\ d.initialized = TRUE /\ d.params = p
      /\ Same(d, e) /\ Range(d.cookies) \subseteq Found(e)
  BY <1>1, <1>4, <1>5, InitializeStocked
<1>7. p.path \in Path \cup {None}
  BY ParamsFacts
<1>8. Found(e) = Found(d)
  BY <1>4, <1>6, <1>7 DEF Found, Same
<1>9. Saves(d, m, p.path)
  BY <1>3, <1>5, <1>6, <1>7 DEF Saves, Same, SameBut
<1>q. QED
  BY <1>6, <1>8, <1>9 DEF Idle

LEMMA NothingListed ==
  ASSUME NEW s \in Seq(Cookie), Range(s) = {}
  PROVE  s = <<>>
<1> SUFFICES ASSUME s # <<>> PROVE FALSE
  OBVIOUS
<1>1. Len(s) \in Nat \ {0} /\ DOMAIN s = 1..Len(s)
  BY EmptySeq
<1>2. 1 \in DOMAIN s
  BY <1>1
<1>q. QED
  BY <1>2 DEF Range

(* Reading and sending headers may initialise the manager, with no file.     *)
LEMMA ReadyStocked ==
  ASSUME NEW m, Good(m), Stocked(m), Idle(m), Quiet(m), NEW d \in Ready(m)
  PROVE  /\ Stocked(d) /\ Idle(d) /\ Quiet(d) /\ Same(d, m) /\ d.params.path = m.params.path
         /\ d = m \/ d.cookies = <<>>
<1>1. Default \in Params /\ Default.path = None /\ Default.count # 0
  BY ParamsAssumption DEF Params
<1>2. CASE d = m
  BY <1>2 DEF Same
<1>3. CASE d # m
  <2>1. ~m.initialized /\ d \in SetParametersAndInitialize(m, Default)
    BY <1>3 DEF Ready
  <2>2. /\ Stocked(d) /\ Idle(d) /\ d.initialized /\ d.params = Default
        /\ Range(d.cookies) \subseteq Found(d) /\ Saves(d, m, None)
    BY <1>1, <2>1, SetStocked
  <2>3. d.cookies = <<>>
    <3>1. Range(d.cookies) = {} /\ d.cookies \in Seq(Cookie)
      BY <1>1, <2>2 DEF Found, Stocked, Listed
    <3>q. QED
      BY <3>1, NothingListed
  <2>4. Same(d, m)
    BY <2>2, NameAssumption DEF Saves, SameBut, Same
  <2>q. QED
    BY <1>1, <2>1, <2>2, <2>3, <2>4 DEF Quiet
<1>q. QED
  BY <1>2, <1>3

LEMMA NewStocked ==
  ASSUME NEW f, Filed(f), NEW d, d = New(f)
  PROVE  /\ Stocked(d) /\ Idle(d) /\ Quiet(d) /\ d.cookies = <<>> /\ d.files = f
         /\ d.params.path = None
BY EmptyListed, ParamsAssumption DEF New, Stocked, Idle, Quiet

-----------------------------------------------------------------------------
(* What is sent before and after.                                            *)

Due(m, t) == IF m.params.count = 0 \/ ~m.initialized THEN {}
             ELSE {c \in Range(m.cookies) : Fresh(c, t)}

LEMMA DueFacts ==
  ASSUME NEW m, NEW t
  PROVE  /\ Due(m, t) \subseteq Range(m.cookies)
         /\ m.cookies = <<>> => Due(m, t) = {}
BY EmptyListed DEF Due

(* What is kept for a later session was sent.                                *)
LEMMA KeptDue ==
  ASSUME NEW m, Good(m), Idle(m)
  PROVE  /\ \A c \in Kept(m) : c \in Due(m, now) /\ ~c.session
<1>1. CASE m.params.count = 0 \/ ~m.initialized
  <2>1. m.cookies = <<>>
    BY <1>1 DEF Good, Clean, Idle
  <2>q. QED
    BY <2>1, EmptyListed DEF Kept
<1>2. CASE ~(m.params.count = 0 \/ ~m.initialized)
  BY <1>2 DEF Kept, Due
<1>q. QED
  BY <1>1, <1>2

(* What a header does to a manager that accepts it.                          *)
LEMMA HeaderStocked ==
  ASSUME NEW m, Good(m), Stocked(m), Idle(m), NEW c \in Cookie, Accepts(m, c),
         NEW d, d = ProcessCookieHeader(m, c)
  PROVE  /\ Stocked(d) /\ Idle(d)
         /\ d.params = m.params /\ d.files = m.files /\ d.initialized = m.initialized
         /\ \/ Due(d, now) \subseteq Due(m, now)
            \/ c \in Due(d, now) /\ Due(d, now) \subseteq Due(m, now) \cup {c}
<1> DEFINE r == IF Held(m, c.key) THEN Replaced(m, c) ELSE Added(m, c)
<1>1. /\ d.params = m.params /\ d.files = m.files /\ d.cookies = r
      /\ d.initialized = m.initialized
  BY DEF ProcessCookieHeader, Good, Shaped
<1>2. m.initialized = TRUE /\ m.params.count \in Nat /\ m.params.count # 0
  BY DEF Accepts, Idle, Good, Shaped, Params
<1>3. Filed(m.files) /\ Listed(m.cookies)
  BY DEF Stocked
<1>4. /\ Due(m, now) = {x \in Range(m.cookies) : Fresh(x, now)}
      /\ Due(d, now) = {x \in Range(d.cookies) : Fresh(x, now)}
  BY <1>1, <1>2 DEF Due
<1> HIDE DEF r
<1>5. CASE Fresh(c, now)
  <2>1. /\ Listed(r) /\ \E i \in DOMAIN r : r[i] = c
        /\ \A i \in DOMAIN r : r[i] = c \/ \E j \in DOMAIN m.cookies : r[i] = m.cookies[j]
    BY <1>2, <1>3, <1>5, GivenList DEF r
  <2>2. c \in Range(r) /\ Range(r) \subseteq Range(m.cookies) \cup {c}
    BY <2>1 DEF Range
  <2>q. QED
    BY <1>1, <1>2, <1>3, <1>4, <1>5, <2>1, <2>2 DEF Stocked, Idle
<1>6. CASE ~Fresh(c, now)
  <2>1. /\ Listed(r)
        /\ \A i \in DOMAIN r : \E j \in DOMAIN m.cookies : r[i] = m.cookies[j]
    BY <1>3, <1>6, WithdrawnList DEF r
  <2>2. Range(r) \subseteq Range(m.cookies)
    BY <2>1 DEF Range
  <2>q. QED
    BY <1>1, <1>2, <1>3, <1>4, <2>1, <2>2 DEF Stocked, Idle
<1>q. QED
  BY <1>5, <1>6

LEMMA HeadersAreCookies ==
  ASSUME now \in Nat, NEW c \in Headers
  PROVE  c \in Cookie
<1>1. PICK k \in Key, v \in Value, s \in BOOLEAN, a \in Age :
        c = [key |-> k, value |-> v, session |-> s, expires |-> IF s THEN 0 ELSE now + a]
  BY DEF Headers
<1>2. (IF s THEN 0 ELSE now + a) \in Nat
  BY TimeAssumption
<1>q. QED
  BY <1>1, <1>2 DEF Cookie

-----------------------------------------------------------------------------
(* What each action does to the manager, and to what it sends.               *)

(* The inductive invariant.                                                  *)
IInv == /\ Good(cm) /\ Stocked(cm) /\ Idle(cm) /\ Quiet(cm)
        /\ now \in Nat /\ faulty \in Faults

Stocks == Stocked(cm') /\ Idle(cm') /\ Quiet(cm') /\ faulty' = faulty

(* The steps of CookieStore, in the terms of this module.                    *)
SamePath == cm'.params.path = cm.params.path
Loses  == Due(cm', now') \subseteq Due(cm, now) /\ Same(cm', cm) /\ SamePath
Gives  == \E c \in Cookie : /\ c \in Due(cm', now')
                            /\ Due(cm', now') \subseteq Due(cm, now) \cup {c}
                            /\ Same(cm', cm) /\ SamePath
Clears == Due(cm', now') = {} /\ Emptied(cm', cm, cm.params.path) /\ SamePath
Ends   == Due(cm', now') = {} /\ Saves(cm', cm, cm.params.path) /\ cm'.params.path = None
Uses   == /\ Due(cm', now') \subseteq Found(cm')
          /\ Saves(cm', cm, cm'.params.path) /\ cm'.params.path \in Path \cup {None}
Dies   == /\ Due(cm', now') = {} /\ cm'.params.path = None /\ faulty
          /\ \E f \in Path \cup {None} : Emptied(cm', cm, f)

LEMMA HeaderStep ==
  ASSUME IInv, NEW c \in Headers, NEW m \in Ready(cm), cm' = ProcessCookieHeader(m, c),
         now' = now, faulty' = faulty
  PROVE  Stocks /\ (Loses \/ Gives)
<1>1. /\ Good(m) /\ Stocked(m) /\ Idle(m) /\ Quiet(m) /\ (m = cm \/ m.cookies = <<>>)
      /\ Same(m, cm) /\ m.params.path = cm.params.path
  BY ReadyGood, ReadyStocked DEF IInv
<1>2. c \in Cookie
  BY HeadersAreCookies DEF IInv
<1>3. Due(m, now) \subseteq Due(cm, now)
  BY <1>1, DueFacts
<1>4. CASE ~Accepts(m, c)
  <2>1. cm' = m
    BY <1>4 DEF ProcessCookieHeader
  <2>q. QED
    BY <1>1, <1>3, <2>1 DEF Stocks, Loses, SamePath
<1>5. CASE Accepts(m, c)
  <2>1. /\ Stocked(cm') /\ Idle(cm')
        /\ cm'.params = m.params /\ cm'.files = m.files /\ cm'.initialized = m.initialized
        /\ \/ Due(cm', now) \subseteq Due(m, now)
           \/ c \in Due(cm', now) /\ Due(cm', now) \subseteq Due(m, now) \cup {c}
    BY <1>1, <1>2, <1>5, HeaderStocked
  <2>2. Quiet(cm') /\ Same(cm', cm) /\ SamePath
    BY <1>1, <2>1 DEF Quiet, Same, SamePath
  <2>q. QED
    BY <1>2, <1>3, <2>1, <2>2 DEF Stocks, Loses, Gives
<1>q. QED
  BY <1>4, <1>5

LEMMA NextStep ==
  ASSUME IInv, [Next]_vars
  PROVE  Stocks /\ (Loses \/ Gives \/ Clears \/ Ends \/ Uses \/ Dies)
<1>0. /\ Good(cm) /\ Stocked(cm) /\ Idle(cm) /\ Quiet(cm)
      /\ (cm'.cookies = <<>> => Due(cm', now') = {})
  BY DueFacts DEF IInv
<1>1. CASE OnHeadersRead
  BY <1>1, HeaderStep DEF OnHeadersRead
<1>2. CASE AddCookie
  <2>1. PICK c \in Headers : cm' = ProcessCookieHeader(cm, c) /\ now' = now /\ faulty' = faulty
    BY <1>2 DEF AddCookie
  <2>2. CASE cm.params.count = 0 \/ cm.initialized
    <3>1. cm \in Ready(cm)
      BY <2>2 DEF Ready
    <3>q. QED
      BY <2>1, <3>1, HeaderStep
  <2>3. CASE ~(cm.params.count = 0 \/ cm.initialized)
    <3>1. cm' = cm
      BY <2>1, <2>3 DEF ProcessCookieHeader, Accepts
    <3>q. QED
      BY <1>0, <2>1, <3>1 DEF Stocks, Loses, Same, SamePath
  <2>q. QED
    BY <2>2, <2>3
<1>3. CASE OnHeadersSend
  <2>1. cm' \in Ready(cm) /\ now' = now /\ faulty' = faulty
    BY <1>3 DEF OnHeadersSend
  <2>2. /\ Stocked(cm') /\ Idle(cm') /\ Quiet(cm') /\ (cm' = cm \/ cm'.cookies = <<>>)
        /\ Same(cm', cm) /\ SamePath
    BY <1>0, <2>1, ReadyStocked DEF SamePath
  <2>q. QED
    BY <1>0, <2>1, <2>2 DEF Stocks, Loses
<1>4. CASE RemoveAll
  <2>1. cm' = RemoveCookies(cm) /\ faulty' = faulty
    BY <1>4 DEF RemoveAll
  <2>2. Stocked(cm') /\ Emptied(cm', cm, cm.params.path)
    BY <1>0, <2>1, RemoveStocked
  <2>3. cm'.cookies = <<>> /\ cm'.initialized = cm.initialized /\ cm'.params = cm.params
    BY <1>0, <2>1, RemoveGood
  <2>q. QED
    BY <1>0, <2>1, <2>2, <2>3 DEF Stocks, Idle, Quiet, Clears, SamePath
<1>5. CASE Exit
  <2>1. PICK m \in Shutdown(cm) : cm' = New(m.files) /\ faulty' = faulty
    BY <1>5 DEF Exit
  <2>2. Filed(m.files) /\ Saves(m, cm, cm.params.path)
    BY <1>0, ShutdownStocked DEF Stocked
  <2>3. /\ Stocked(cm') /\ Idle(cm') /\ Quiet(cm') /\ cm'.cookies = <<>>
        /\ cm'.files = m.files /\ cm'.params.path = None
    BY <2>1, <2>2, NewStocked
  <2>4. Saves(cm', cm, cm.params.path)
    BY <2>2, <2>3 DEF Saves, SameBut
  <2>q. QED
    BY <1>0, <2>1, <2>3, <2>4 DEF Stocks, Ends
<1>6. CASE Die
  <2>1. cm' = New(cm.files) /\ faulty' = faulty /\ faulty
    BY <1>6 DEF Die
  <2>2. /\ Stocked(cm') /\ Idle(cm') /\ Quiet(cm') /\ cm'.cookies = <<>>
        /\ cm'.files = cm.files /\ cm'.params.path = None
    BY <1>0, <2>1, NewStocked DEF Stocked
  <2>3. Emptied(cm', cm, None)
    BY <2>2 DEF Emptied, SameBut
  <2>q. QED
    BY <1>0, <2>1, <2>2, <2>3 DEF Stocks, Dies
<1>7. CASE DieWriting
  <2>1. PICK m \in {cm} \cup {Reset(cm, p) : p \in Parameters}, f \in {<<>>, Torn} :
          m.params.count # 0 /\ Writes(m) /\ cm' = New([m.files EXCEPT ![m.params.path] = f])
    BY <1>7 DEF DieWriting
  <2>2. faulty' = faulty /\ faulty
    BY <1>7 DEF DieWriting
  <2>3. Filed(m.files) /\ m.params \in Params /\ m.files = cm.files
    <3>1. CASE m = cm
      BY <1>0, <3>1 DEF Stocked, Good, Shaped
    <3>2. ASSUME NEW p \in Parameters, m = Reset(cm, p)
          PROVE  Filed(m.files) /\ m.params \in Params /\ m.files = cm.files
      <4>1. p \in Params
        BY ParamsAssumption
      <4>2. Stocked(Reset(cm, p)) /\ Reset(cm, p).files = cm.files
        BY <1>0, <4>1, ResetStocked
      <4>3. Reset(cm, p).params = p
        BY <1>0 DEF Reset, Good, Shaped
      <4>q. QED
        BY <3>2, <4>1, <4>2, <4>3 DEF Stocked
    <3>q. QED
      BY <2>1, <3>1, <3>2
  <2>4. m.params.path \in Path
    BY <2>1, <2>3, ParamsFacts DEF Writes
  <2>5. Stored(f) /\ Content(f) = {}
    BY <2>1, ContentFacts
  <2> DEFINE g == [m.files EXCEPT ![m.params.path] = f]
  <2>6. Filed(g) /\ g[m.params.path] = f /\ \A q \in Path : q # m.params.path => g[q] = cm.files[q]
    <3>1. Filed(g)
      BY <2>3, <2>4, <2>5, FileWritten
    <3>2. DOMAIN m.files = Path
      BY <2>3 DEF Filed
    <3>3. g[m.params.path] = f /\ \A q \in Path : q # m.params.path => g[q] = m.files[q]
      BY <2>4, <3>2
    <3>q. QED
      BY <2>3, <3>1, <3>3
  <2>7. cm' = New(g)
    BY <2>1
  <2> HIDE DEF g
  <2>8. /\ Stocked(cm') /\ Idle(cm') /\ Quiet(cm') /\ cm'.cookies = <<>>
        /\ cm'.files = g /\ cm'.params.path = None
    BY <2>6, <2>7, NewStocked
  <2>9. Emptied(cm', cm, m.params.path)
    BY <2>5, <2>6, <2>8 DEF Emptied, SameBut
  <2>q. QED
    BY <1>0, <2>2, <2>4, <2>8, <2>9 DEF Stocks, Dies
<1>8. ASSUME NEW p \in Parameters, SetCookieUsage(p)
      PROVE  Stocks /\ (Clears \/ Uses)
  <2>1. cm' \in SetParametersAndInitialize(cm, p) /\ faulty' = faulty /\ p \in Params
    BY <1>8, ParamsAssumption DEF SetCookieUsage
  <2>2. CASE p.count = 0
    <3>1. cm' = Disabled(cm)
      BY <2>1, <2>2 DEF SetParametersAndInitialize
    <3>2. /\ Stocked(cm') /\ Idle(cm') /\ cm'.cookies = <<>>
          /\ Emptied(cm', cm, cm.params.path)
          /\ cm'.params.path = cm.params.path /\ cm'.initialized = cm.initialized
      BY <1>0, <3>1, DisabledStocked
    <3>q. QED
      BY <1>0, <2>1, <3>2 DEF Stocks, Quiet, Clears, SamePath
  <2>3. CASE p.count # 0
    <3>1. /\ Stocked(cm') /\ Idle(cm') /\ cm'.initialized /\ cm'.params = p
          /\ Range(cm'.cookies) \subseteq Found(cm') /\ Saves(cm', cm, p.path)
      BY <1>0, <2>1, <2>3, SetStocked
    <3>2. Due(cm', now') \subseteq Found(cm')
      BY <3>1, DueFacts
    <3>3. p.path \in Path \cup {None}
      BY <2>1, ParamsFacts
    <3>q. QED
      BY <2>1, <3>1, <3>2, <3>3 DEF Stocks, Quiet, Uses
  <2>q. QED
    BY <2>2, <2>3
<1>9. CASE Tick \/ UNCHANGED vars
  <2>1. cm' = cm /\ faulty' = faulty /\ now' \in Nat /\ now' >= now
    BY <1>9 DEF Tick, vars, IInv
  <2>2. \A c \in Range(cm.cookies) : c.expires \in Nat
    <3>1. cm.cookies \in Seq(Cookie)
      BY <1>0 DEF Stocked, Listed
    <3>2. \A c \in Range(cm.cookies) : c \in Cookie
      BY <3>1 DEF Range
    <3>3. \A c \in Cookie : c.expires \in Nat
      BY DEF Cookie
    <3>q. QED
      BY <3>2, <3>3
  <2>3. \A c \in Range(cm.cookies) : Fresh(c, now') => Fresh(c, now)
    BY <2>1, <2>2 DEF Fresh, IInv
  <2>4. Due(cm', now') \subseteq Due(cm, now)
    BY <2>1, <2>3 DEF Due
  <2>q. QED
    BY <1>0, <2>1, <2>4 DEF Stocks, Loses, Same, SamePath
<1>q. QED
  BY <1>1, <1>2, <1>3, <1>4, <1>5, <1>6, <1>7, <1>8, <1>9 DEF Next

LEMMA InitIInv == Init => IInv
<1> SUFFICES ASSUME Init PROVE IInv
  OBVIOUS
<1> DEFINE f == [p \in Path |-> Absent]
<1>1. Filed(f)
  BY DEF Filed, Stored, Absentee
<1>2. cm = New(f) /\ now = 0 /\ faulty \in Faults
  BY DEF Init
<1> HIDE DEF f
<1>3. Stocked(cm) /\ Idle(cm) /\ Quiet(cm)
  BY <1>1, <1>2, NewStocked
<1>q. QED
  BY <1>2, <1>3, InitGood DEF IInv

LEMMA NextIInv == IInv /\ [Next]_vars => IInv'
<1> SUFFICES ASSUME IInv, [Next]_vars PROVE IInv'
  OBVIOUS
<1>1. Stocks
  BY NextStep
<1>2. Good(cm)'
  BY NextGood DEF IInv
<1>3. now' \in Nat
  <2>1. now \in Nat
    BY DEF IInv
  <2>q. QED
    BY <2>1 DEF Next, vars, OnHeadersRead, AddCookie, OnHeadersSend, RemoveAll, Exit, Die, DieWriting, Tick, SetCookieUsage
<1>4. Stocked(cm)' /\ Idle(cm)' /\ Quiet(cm)' /\ (faulty \in Faults)'
  BY <1>1 DEF Stocks, IInv, Stocked, Filed, Stored, Listed, Unique, Absentee, Idle, Quiet
<1>q. QED
  BY <1>2, <1>3, <1>4 DEF IInv

LEMMA AlwaysIInv == Spec => []IInv
BY InitIInv, NextIInv, PTL DEF Spec

(* Whatever is set, saved, read and lost in whatever order, the manager and  *)
(* its files are what they should be: the buffer, the list and every file.   *)
THEOREM TypeCorrect == Spec => []TypeOK
<1>1. IInv => TypeOK
  <2> SUFFICES ASSUME IInv PROVE TypeOK
    OBVIOUS
  <2>1. cm.params \in Params /\ cm.params.size \in Nat
    BY DEF IInv, Good, Shaped, Params
  <2>2. cm.buffer \in Nat
    BY <2>1 DEF IInv, Good, Fits
  <2>q. QED
    BY <2>1, <2>2 DEF IInv, TypeOK, Stocked, Filed, Listed, Idle
<1>q. QED
  BY <1>1, AlwaysIInv, PTL

(* No name is in the list twice: ProcessCookieHeader, which replaces the     *)
(* first match only, is never wrong, as what ReadCookiesFromFile appends was *)
(* one list once and is appended to an empty one.                            *)
THEOREM NoNameTwice == Spec => []UniqueCookies
<1>1. IInv => UniqueCookies
  BY DEF IInv, Stocked, Listed, Unique, UniqueCookies
<1>q. QED
  BY <1>1, AlwaysIInv, PTL

-----------------------------------------------------------------------------
(* Cookies with no name twice among them, and what CookieStore sees of them. *)
OneEach(C) == C \subseteq Cookie /\ \A c, d \in C : c.key = d.key => c = d
Jars == [Key -> Cookie \cup {None}]
JarOf(C) == [k \in Key |-> Known(C, k)]
NoJar == [k \in Key |-> None]
PartOf(a, b) == \A k \in Key : a[k] \in {None, b[k]}

LEMMA JarIs ==
  ASSUME NEW C, OneEach(C)
  PROVE  /\ JarOf(C) \in Jars
         /\ \A k \in Key : \A c \in Cookie : JarOf(C)[k] = c <=> c \in C /\ c.key = k
<1>1. ASSUME NEW k \in Key
      PROVE  /\ Known(C, k) \in Cookie \cup {None}
             /\ \A c \in Cookie : Known(C, k) = c <=> c \in C /\ c.key = k
  <2> DEFINE N == {c \in C : c.key = k}
  <2>1. Known(C, k) = IF N = {} THEN None ELSE CHOOSE c \in N : TRUE
    BY DEF Known
  <2>2. N \subseteq Cookie /\ \A c, d \in N : c = d
    BY DEF OneEach
  <2>3. \A c : c \in N <=> c \in C /\ c.key = k
    OBVIOUS
  <2> HIDE DEF N
  <2>4. CASE N = {}
    BY <2>1, <2>3, <2>4, NameAssumption
  <2>5. CASE N # {}
    <3>1. Known(C, k) \in N
      BY <2>1, <2>5
    <3>q. QED
      BY <2>2, <2>3, <3>1
  <2>q. QED
    BY <2>4, <2>5
<1>2. \A k \in Key : JarOf(C)[k] = Known(C, k)
  BY DEF JarOf
<1>3. JarOf(C) \in Jars
  BY <1>1 DEF JarOf, Jars
<1>q. QED
  BY <1>1, <1>2, <1>3

LEMMA JarPart ==
  ASSUME NEW C, OneEach(C), NEW D, OneEach(D), C \subseteq D
  PROVE  PartOf(JarOf(C), JarOf(D))
<1> SUFFICES ASSUME NEW k \in Key, JarOf(C)[k] # None PROVE JarOf(C)[k] = JarOf(D)[k]
  BY DEF PartOf
<1>1. JarOf(C)[k] \in Cookie
  BY JarIs DEF Jars
<1>q. QED
  BY <1>1, JarIs

LEMMA NothingJar == JarOf({}) = NoJar /\ NoJar \in Jars
BY DEF JarOf, Known, NoJar, Jars

LEMMA ListedOneEach ==
  ASSUME NEW s, Listed(s), NEW C, C \subseteq Range(s)
  PROVE  OneEach(C)
<1>1. \A c \in C : \E i \in DOMAIN s : c = s[i]
  BY DEF Range
<1>2. \A i \in DOMAIN s : s[i] \in Cookie
  BY DEF Listed
<1>3. \A i, j \in DOMAIN s : s[i].key = s[j].key => i = j
  BY DEF Listed, Unique
<1>q. QED
  BY <1>1, <1>2, <1>3 DEF OneEach

LEMMA StockedOneEach ==
  ASSUME NEW m, Stocked(m)
  PROVE  /\ \A t : OneEach(Due(m, t))
         /\ \A q \in Path : OneEach(Content(m.files[q]))
<1>1. \A t : OneEach(Due(m, t))
  BY DueFacts, ListedOneEach DEF Stocked
<1>2. ASSUME NEW q \in Path
      PROVE  OneEach(Content(m.files[q]))
  <2>1. CASE m.files[q] \in Absentee
    BY <2>1 DEF Content, OneEach
  <2>2. CASE m.files[q] \notin Absentee
    <3>1. Listed(m.files[q]) /\ Content(m.files[q]) = Range(m.files[q])
      BY <2>2 DEF Stocked, Filed, Stored, Content
    <3>q. QED
      BY <3>1, ListedOneEach
  <2>q. QED
    BY <2>1, <2>2
<1>q. QED
  BY <1>1, <1>2

-----------------------------------------------------------------------------
(* The store's variables and actions, in the terms of this module.           *)
JarNow == [k \in Key |-> Sent(k)]
CopiesNow == [p \in Path |-> [k \in Key |-> Known(Content(cm.files[p]), k)]]
Lasts == [key : Key, value : Value, session : {FALSE}, expires : Nat]
ToSaveNow == [k \in Key |-> IF JarNow[k] \in Lasts THEN JarNow[k] ELSE None]

LEMMA NowIs ==
  /\ JarNow = JarOf(Due(cm, now))
  /\ DOMAIN CopiesNow = Path /\ \A q \in Path : CopiesNow[q] = JarOf(Content(cm.files[q]))
<1>1. GetCookieTextForURL(cm) = Due(cm, now)
  BY DEF GetCookieTextForURL, IsCookieExpired, Due, Fresh
<1>q. QED
  BY <1>1 DEF JarNow, CopiesNow, JarOf, Sent

LEMMA NextIs ==
  /\ JarNow' = JarOf(Due(cm', now'))
  /\ DOMAIN CopiesNow' = Path /\ \A q \in Path : CopiesNow'[q] = JarOf(Content(cm'.files[q]))
<1>1. GetCookieTextForURL(cm)' = Due(cm', now')
  BY DEF GetCookieTextForURL, IsCookieExpired, Due, Fresh
<1>2. JarNow' = JarOf(Due(cm', now'))
  BY <1>1 DEF JarNow, JarOf, Sent, Known
<1>3. CopiesNow' = [p \in Path |-> [k \in Key |-> Known(Content(cm'.files[p]), k)]]
  BY DEF CopiesNow, Known, Content, Absentee
<1>q. QED
  BY <1>2, <1>3 DEF JarOf

LEMMA StoreInit ==
  Store!Init <=> /\ JarNow = NoJar /\ cm.params.path = None
                 /\ CopiesNow = [f \in Path |-> NoJar] /\ faulty \in BOOLEAN
BY DEF Store!Init, Store!Empty, JarNow, CopiesNow, NoJar

LEMMA StoreLose ==
  Store!Lose <=> /\ JarNow' \in Jars /\ PartOf(JarNow', JarNow)
                 /\ cm'.params.path = cm.params.path /\ CopiesNow' = CopiesNow /\ faulty' = faulty
BY DEF Store!Lose, Store!Part, Store!Jars, JarNow, CopiesNow, Jars, PartOf

LEMMA StoreGive ==
  ASSUME NEW k \in Key
  PROVE  Store!Give(k) <=>
           /\ JarNow' \in Jars /\ JarNow'[k] # None
           /\ \A j \in Key \ {k} : JarNow'[j] \in {None, JarNow[j]}
           /\ cm'.params.path = cm.params.path /\ CopiesNow' = CopiesNow /\ faulty' = faulty
BY DEF Store!Give, Store!Jars, JarNow, CopiesNow, Jars

LEMMA StoreClear ==
  Store!Clear <=>
    /\ JarNow' = NoJar
    /\ CopiesNow' = [g \in Path |-> IF g = cm.params.path THEN NoJar ELSE CopiesNow[g]]
    /\ cm'.params.path = cm.params.path /\ faulty' = faulty
BY DEF Store!Clear, Store!Without, Store!Empty, JarNow, CopiesNow, NoJar

SavesNow(f) ==
  /\ CopiesNow' \in [Path -> Jars]
  /\ \A g \in Path \ {f} : CopiesNow'[g] = CopiesNow[g]
  /\ f \in Path => \/ CopiesNow'[f] \in Jars /\ PartOf(CopiesNow'[f], ToSaveNow)
                   \/ CopiesNow'[f] = CopiesNow[f] /\ (faulty \/ JarNow = NoJar)

LEMMA StoreSave ==
  ASSUME NEW f
  PROVE  Store!Save(f) <=> SavesNow(f)
BY DEF Store!Save, Store!Part, Store!Jars, Store!ToSave, Store!Empty, SavesNow,
       JarNow, CopiesNow, ToSaveNow, Lasts, Jars, NoJar, PartOf

LEMMA StoreEnd ==
  Store!End <=> /\ Store!Save(cm.params.path) /\ JarNow' = NoJar
                /\ cm'.params.path = None /\ faulty' = faulty
BY DEF Store!End, Store!Empty, JarNow, NoJar

LEMMA StoreUse ==
  ASSUME NEW f
  PROVE  Store!Use(f) <=>
           /\ Store!Save(f) /\ cm'.params.path = f /\ faulty' = faulty
           /\ JarNow' \in Jars /\ PartOf(JarNow', IF f \in Path THEN CopiesNow'[f] ELSE NoJar)
BY DEF Store!Use, Store!Part, Store!Jars, Store!Named, Store!Empty, JarNow, CopiesNow, Jars, NoJar, PartOf

LEMMA StoreDie ==
  Store!Die <=>
    /\ faulty /\ JarNow' = NoJar /\ cm'.params.path = None /\ faulty' = faulty
    /\ \E f \in Path \cup {None} :
         CopiesNow' = [g \in Path |-> IF g = f THEN NoJar ELSE CopiesNow[g]]
BY DEF Store!Die, Store!Without, Store!Empty, JarNow, CopiesNow, NoJar

-----------------------------------------------------------------------------
(* Each step of the manager is one of the store.                             *)

LEMMA NowTyped ==
  ASSUME IInv
  PROVE  /\ JarNow \in Jars /\ CopiesNow \in [Path -> Jars]
         /\ OneEach(Due(cm, now)) /\ \A q \in Path : OneEach(Content(cm.files[q]))
<1>1. OneEach(Due(cm, now)) /\ \A q \in Path : OneEach(Content(cm.files[q]))
  BY StockedOneEach DEF IInv
<1>2. JarNow \in Jars
  BY <1>1, NowIs, JarIs
<1>3. \A q \in Path : JarOf(Content(cm.files[q])) \in Jars
  BY <1>1, JarIs
<1>4. CopiesNow = [q \in Path |-> CopiesNow[q]]
  BY DEF CopiesNow
<1>5. CopiesNow \in [Path -> Jars]
  BY <1>3, <1>4, NowIs
<1>q. QED
  BY <1>1, <1>2, <1>5

LEMMA NextTyped ==
  ASSUME Stocked(cm')
  PROVE  /\ JarNow' \in Jars /\ CopiesNow' \in [Path -> Jars]
         /\ OneEach(Due(cm', now')) /\ \A q \in Path : OneEach(Content(cm'.files[q]))
<1>1. OneEach(Due(cm', now')) /\ \A q \in Path : OneEach(Content(cm'.files[q]))
  BY StockedOneEach
<1>2. JarNow' \in Jars
  BY <1>1, NextIs, JarIs
<1>3. \A q \in Path : JarOf(Content(cm'.files[q])) \in Jars
  BY <1>1, JarIs
<1>4. CopiesNow' = [q \in Path |-> CopiesNow'[q]]
  BY DEF CopiesNow
<1>5. CopiesNow' \in [Path -> Jars]
  BY <1>3, <1>4, NextIs
<1>q. QED
  BY <1>1, <1>2, <1>5

(* Copies of files whose content did not change, or has gone.                *)
LEMMA SameCopies ==
  ASSUME IInv, Stocked(cm'), Same(cm', cm)
  PROVE  CopiesNow' = CopiesNow
<1>1. \A q \in Path : CopiesNow'[q] = CopiesNow[q]
  BY NowIs, NextIs DEF Same
<1>q. QED
  BY <1>1, NowTyped, NextTyped

LEMMA EmptiedCopies ==
  ASSUME IInv, Stocked(cm'), NEW f \in Path \cup {None}, Emptied(cm', cm, f)
  PROVE  CopiesNow' = [g \in Path |-> IF g = f THEN NoJar ELSE CopiesNow[g]]
<1>1. \A q \in Path : CopiesNow'[q] = IF q = f THEN NoJar ELSE CopiesNow[q]
  <2> SUFFICES ASSUME NEW q \in Path
               PROVE  CopiesNow'[q] = IF q = f THEN NoJar ELSE CopiesNow[q]
    OBVIOUS
  <2>1. CASE q = f
    <3>1. Content(cm'.files[q]) = {}
      BY <2>1, NameAssumption DEF Emptied
    <3>q. QED
      BY <2>1, <3>1, NextIs, NothingJar
  <2>2. CASE q # f
    BY <2>2, NowIs, NextIs DEF Emptied, SameBut
  <2>q. QED
    BY <2>1, <2>2
<1>q. QED
  BY <1>1, NextTyped

(* What is kept of what is sent is what is to be saved.                      *)
LEMMA KeptSaved ==
  ASSUME IInv, NEW C, C \subseteq Kept(cm), OneEach(C)
  PROVE  PartOf(JarOf(C), ToSaveNow)
<1> SUFFICES ASSUME NEW k \in Key, JarOf(C)[k] # None PROVE JarOf(C)[k] = ToSaveNow[k]
  BY DEF PartOf
<1> DEFINE c == JarOf(C)[k]
<1>1. c \in Cookie /\ c \in C /\ c.key = k
  <2>1. c \in Cookie
    BY JarIs DEF Jars
  <2>q. QED
    BY <2>1, JarIs
<1> HIDE DEF c
<1>2. c \in Due(cm, now) /\ ~c.session
  BY <1>1, KeptDue DEF IInv
<1>3. JarNow[k] = c
  BY <1>1, <1>2, NowTyped, NowIs, JarIs
<1>4. c \in Lasts
  BY <1>1, <1>2 DEF Cookie, Lasts
<1>5. ToSaveNow[k] = c
  BY <1>3, <1>4 DEF ToSaveNow
<1>q. QED
  BY <1>5 DEF c

LEMMA SavesSave ==
  ASSUME IInv, Stocked(cm'), NEW f \in Path \cup {None}, Saves(cm', cm, f)
  PROVE  SavesNow(f)
<1>1. \A g \in Path \ {f} : CopiesNow'[g] = CopiesNow[g]
  BY NowIs, NextIs DEF Saves, SameBut
<1>2. ASSUME f \in Path
      PROVE  \/ CopiesNow'[f] \in Jars /\ PartOf(CopiesNow'[f], ToSaveNow)
             \/ CopiesNow'[f] = CopiesNow[f] /\ (faulty \/ JarNow = NoJar)
  <2>1. \/ Content(cm'.files[f]) \subseteq Kept(cm)
        \/ Content(cm'.files[f]) = Content(cm.files[f]) /\ (cm.cookies = <<>> \/ faulty)
    BY <1>2, NameAssumption DEF Saves
  <2>2. CASE Content(cm'.files[f]) \subseteq Kept(cm)
    <3>1. OneEach(Content(cm'.files[f])) /\ CopiesNow'[f] \in Jars
      BY <1>2, NextTyped
    <3>2. CopiesNow'[f] = JarOf(Content(cm'.files[f]))
      BY <1>2, NextIs
    <3>q. QED
      BY <2>2, <3>1, <3>2, KeptSaved
  <2>3. CASE Content(cm'.files[f]) = Content(cm.files[f]) /\ (cm.cookies = <<>> \/ faulty)
    <3>1. CopiesNow'[f] = CopiesNow[f]
      BY <1>2, <2>3, NowIs, NextIs
    <3>2. cm.cookies = <<>> => JarNow = NoJar
      BY DueFacts, NowIs, NothingJar
    <3>q. QED
      BY <2>3, <3>1, <3>2
  <2>q. QED
    BY <2>1, <2>2, <2>3
<1>q. QED
  BY <1>1, <1>2, NextTyped DEF SavesNow

LEMMA RefineInit == Init => Store!Init
<1> SUFFICES ASSUME Init
             PROVE  /\ JarNow = NoJar /\ cm.params.path = None
                    /\ CopiesNow = [f \in Path |-> NoJar] /\ faulty \in BOOLEAN
  BY StoreInit
<1> DEFINE g == [p \in Path |-> Absent]
<1>1. cm = New(g) /\ faulty \in BOOLEAN
  BY FaultAssumption DEF Init
<1>2. Filed(g) /\ \A q \in Path : g[q] = Absent
  BY DEF Filed, Stored, Absentee
<1> HIDE DEF g
<1>3. cm.cookies = <<>> /\ cm.files = g /\ cm.params.path = None /\ Stocked(cm)
  BY <1>1, <1>2, NewStocked
<1>4. JarNow = NoJar
  BY <1>3, DueFacts, NowIs, NothingJar
<1>5. \A q \in Path : CopiesNow[q] = NoJar
  BY <1>2, <1>3, NowIs, ContentFacts, NothingJar
<1>6. CopiesNow = [q \in Path |-> CopiesNow[q]]
  BY DEF CopiesNow
<1>q. QED
  BY <1>1, <1>3, <1>4, <1>5, <1>6

LEMMA RefineNext == IInv /\ [Next]_vars => [Store!Next]_(Store!svars)
<1> SUFFICES ASSUME IInv, [Next]_vars PROVE Store!Next
  OBVIOUS
<1>1. Stocked(cm') /\ faulty' = faulty
  BY NextStep DEF Stocks
<1>2. cm.params.path \in Path \cup {None}
  BY ParamsFacts DEF IInv, Good, Shaped
<1>3. Due(cm', now') = {} => JarNow' = NoJar
  BY NextIs, NothingJar
<1>4. CASE Loses
  <2>1. CopiesNow' = CopiesNow
    BY <1>1, <1>4, SameCopies DEF Loses
  <2>2. JarNow' \in Jars /\ PartOf(JarNow', JarNow)
    BY <1>1, <1>4, NowTyped, NextTyped, NowIs, NextIs, JarPart DEF Loses
  <2>3. Store!Lose
    BY <1>1, <1>4, <2>1, <2>2, StoreLose DEF Loses, SamePath
  <2>q. QED
    BY <2>3 DEF Store!Next
<1>5. CASE Gives
  <2>1. PICK c \in Cookie : /\ c \in Due(cm', now')
                            /\ Due(cm', now') \subseteq Due(cm, now) \cup {c}
                            /\ Same(cm', cm) /\ SamePath
    BY <1>5 DEF Gives
  <2>2. c.key \in Key /\ c # None
    BY NameAssumption DEF Cookie
  <2>3. CopiesNow' = CopiesNow
    BY <1>1, <2>1, SameCopies
  <2>4. JarNow' \in Jars /\ JarNow'[c.key] = c
    BY <1>1, <2>1, <2>2, NextTyped, NextIs, JarIs
  <2>5. ASSUME NEW j \in Key \ {c.key}, JarNow'[j] # None
        PROVE  JarNow'[j] = JarNow[j]
    <3>1. JarNow'[j] \in Cookie
      BY <1>1, <2>5, NextTyped DEF Jars
    <3>2. JarNow'[j] \in Due(cm', now') /\ JarNow'[j].key = j
      BY <1>1, <3>1, NextTyped, NextIs, JarIs
    <3>3. JarNow'[j] \in Due(cm, now)
      BY <2>1, <2>5, <3>2
    <3>q. QED
      BY <3>1, <3>2, <3>3, NowTyped, NowIs, JarIs
  <2>6. Store!Give(c.key)
    BY <1>1, <2>1, <2>2, <2>3, <2>4, <2>5, StoreGive DEF SamePath
  <2>q. QED
    BY <2>2, <2>6 DEF Store!Next
<1>6. CASE Clears
  <2>1. CopiesNow' = [g \in Path |-> IF g = cm.params.path THEN NoJar ELSE CopiesNow[g]]
    BY <1>1, <1>2, <1>6, EmptiedCopies DEF Clears
  <2>2. Store!Clear
    BY <1>1, <1>3, <1>6, <2>1, StoreClear DEF Clears, SamePath
  <2>q. QED
    BY <2>2 DEF Store!Next
<1>7. CASE Ends
  <2>1. Store!Save(cm.params.path)
    BY <1>1, <1>2, <1>7, SavesSave, StoreSave DEF Ends
  <2>2. Store!End
    BY <1>1, <1>3, <1>7, <2>1, StoreEnd DEF Ends
  <2>q. QED
    BY <2>2 DEF Store!Next
<1>8. CASE Uses
  <2> DEFINE f == cm'.params.path
  <2>1. f \in Path \cup {None}
    BY <1>8 DEF Uses
  <2>2. Store!Save(f)
    BY <1>1, <1>8, <2>1, SavesSave, StoreSave DEF Uses
  <2>3. JarNow' \in Jars
    BY <1>1, NextTyped
  <2>4. CASE f = None
    <3>1. JarNow' = NoJar
      BY <1>3, <1>8, <2>4 DEF Uses, Found
    <3>2. PartOf(JarNow', NoJar)
      BY <3>1 DEF PartOf
    <3>3. f \notin Path
      BY <2>4, NameAssumption
    <3>4. Store!Use(f)
      BY <1>1, <2>2, <2>3, <3>2, <3>3, StoreUse
    <3>q. QED
      BY <2>1, <3>4 DEF Store!Next
  <2>5. CASE f # None
    <3>1. f \in Path
      BY <2>1, <2>5
    <3>2. Due(cm', now') \subseteq Content(cm'.files[f])
      BY <1>8, <2>5 DEF Uses, Found
    <3>3. PartOf(JarNow', CopiesNow'[f])
      BY <1>1, <3>1, <3>2, NextTyped, NextIs, JarPart
    <3>4. Store!Use(f)
      BY <1>1, <2>2, <2>3, <3>1, <3>3, StoreUse
    <3>q. QED
      BY <2>1, <3>4 DEF Store!Next
  <2>q. QED
    BY <2>4, <2>5
<1>9. CASE Dies
  <2>1. PICK f \in Path \cup {None} : Emptied(cm', cm, f)
    BY <1>9 DEF Dies
  <2>2. CopiesNow' = [g \in Path |-> IF g = f THEN NoJar ELSE CopiesNow[g]]
    BY <1>1, <2>1, EmptiedCopies
  <2>3. Store!Die
    BY <1>1, <1>3, <1>9, <2>2, StoreDie DEF Dies
  <2>q. QED
    BY <2>3 DEF Store!Next
<1>q. QED
  BY <1>4, <1>5, <1>6, <1>7, <1>8, <1>9, NextStep

(* Within a session what is sent for a name is what was given last, or       *)
(* nothing.  A session starts with what the file it names holds, or less,    *)
(* and that is what was sent, with a lifetime, when the file was last        *)
(* written: over changes of parameters, failed writes, evictions, expiry and *)
(* crashes nothing older gets into a file, nothing of another file and no    *)
(* session cookie.  A file is not written, and keeps what it had, when       *)
(* nothing was sent, and otherwise only if writing failed or the process     *)
(* died.                                                                     *)
THEOREM StoreImplemented == Spec => ImplementsStore
<1>1. Init => Store!Init
  BY RefineInit
<1>2. IInv /\ [Next]_vars => [Store!Next]_(Store!svars)
  BY RefineNext
<1>q. QED
  BY <1>1, <1>2, AlwaysIInv, PTL DEF Spec, ImplementsStore, Store!Spec
=============================================================================
