-------------------------- MODULE MCKerberosClient --------------------------
(* Small instances of KerberosClient. *)
EXTENDS KerberosClient

CONSTANTS north, south, west

\* Honest forests: every way to refer and every clock.  And a network that answers anything.
AllSetups ==
    {f \in Forest : IF f.honest THEN \A r \in Realms : f.referral[r] # r
                    ELSE /\ f.named = north /\ f.home = north /\ f.holder = south
                         /\ f.referral = [r \in Realms |-> None] /\ f.clock = [r \in Realms |-> 0]
                         /\ f.preauth /\ f.password}
=============================================================================
