-------------------------- MODULE MCHttpTransport --------------------------
(* An instance of HttpTransport for TLC: an upload and a download, a pool of *)
(* one connection and room for two form elements.                            *)
EXTENDS HttpTransport
CONSTANTS j1, j2, r1

SomeMethods == [j \in Job |-> IF j = j1 THEN {"POST"} ELSE {"GET", "HEAD", "OPTIONS"}]
SomeCodings == [j \in Job |-> IF j = j1 THEN {"identity", "gzip"} ELSE {"deflate", "raw"}]
SomeForms   == { <<"data">>, <<"data", "data", "data">>, <<"data", "unreadable">> }
=============================================================================
