------------------------- MODULE MCKerberosTickets --------------------------
(* Small instances of KerberosTickets. *)
EXTENDS KerberosTickets

CONSTANTS g1, g2, g3, alice, mail, search

TwoKdcs == <<"first", "second">>

\* Three handshakes of one account, two of them to one server.
OneAccount == [h \in {g1, g2, g3} |-> alice]
TwoServers == [h \in {g1, g2, g3} |-> IF h = g3 THEN search ELSE mail]
OneServer == [h \in {g1, g2, g3} |-> mail]
=============================================================================
