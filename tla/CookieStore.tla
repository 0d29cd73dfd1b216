----------------------------- MODULE CookieStore -----------------------------
(***************************************************************************)
(* What a cookie manager owes to servers and pages, however it keeps its   *)
(* cookies.  Within a session what is sent for a name is what was given    *)
(* last, or nothing.  From one session to the next it is what the file in  *)
(* use holds, or nothing; and a file holds what was sent when it was last  *)
(* written, as far as it had a lifetime.  So what was given before comes   *)
(* back only from a file that was not written since: because another was   *)
(* in use, the process died, writing failed, or nothing was sent when the  *)
(* session ended, and then nothing is written.                             *)
(***************************************************************************)
CONSTANTS
  Key,     \* names of cookies, each with its domain and path
  Cookie,  \* what a server may give for a name
  Lasting, \* the cookies that have a lifetime, and outlive a session
  File,    \* the files that may be named
  None     \* no cookie; no file

VARIABLES
  jar,     \* what is sent for each name
  file,    \* the file in use
  copies,  \* what each file holds
  faulty   \* whether files may fail to be written and sessions to be ended

svars == <<jar, file, copies, faulty>>

Empty == [k \in Key |-> None]
Jars  == [Key -> Cookie \cup {None}]

(* a is b, or a part of it.                                                  *)
Part(a, b) == a \in Jars /\ \A k \in Key : a[k] \in {None, b[k]}

ToSave == [k \in Key |-> IF jar[k] \in Lasting THEN jar[k] ELSE None]
Without(f) == [g \in File |-> IF g = f THEN Empty ELSE copies[g]]
Named(f, c) == IF f \in File THEN c[f] ELSE Empty

Init == jar = Empty /\ file = None /\ copies = [f \in File |-> Empty] /\ faulty \in BOOLEAN

(* A cookie is given; others may have to make room for it.                   *)
Give(k) ==
  /\ jar' \in Jars /\ jar'[k] # None
  /\ \A j \in Key \ {k} : jar'[j] \in {None, jar[j]}
  /\ UNCHANGED <<file, copies, faulty>>

(* Cookies expire or are withdrawn by their server.                          *)
Lose == Part(jar', jar) /\ UNCHANGED <<file, copies, faulty>>

(* Cookies are removed, with those in the file in use.                       *)
Clear == jar' = Empty /\ copies' = Without(file) /\ UNCHANGED <<file, faulty>>

(* What is sent, and is to last, is written to file f.                       *)
Save(f) ==
  /\ copies' \in [File -> Jars]
  /\ \A g \in File \ {f} : copies'[g] = copies[g]
  /\ f \in File => \/ Part(copies'[f], ToSave)
                   \/ copies'[f] = copies[f] /\ (faulty \/ jar = Empty)

(* A session ends: cookies go to the file in use.                            *)
End == Save(file) /\ jar' = Empty /\ file' = None /\ UNCHANGED faulty

(* Another file is named: it gets the cookies of the session that ends, not  *)
(* the file that was in use, and a session begins with what it then holds.   *)
Use(f) == Save(f) /\ file' = f /\ Part(jar', Named(f, copies')) /\ UNCHANGED faulty

(* The process dies, perhaps while a file is written.                        *)
Die ==
  /\ faulty /\ \E f \in File \cup {None} : copies' = Without(f)
  /\ jar' = Empty /\ file' = None /\ UNCHANGED faulty

Next == \/ Lose \/ Clear \/ End \/ Die
        \/ \E k \in Key : Give(k)
        \/ \E f \in File \cup {None} : Use(f)

Spec == Init /\ [][Next]_svars
=============================================================================
