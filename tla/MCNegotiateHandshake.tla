------------------------ MODULE MCNegotiateHandshake ------------------------
(* Small instances of NegotiateHandshake. *)
EXTENDS NegotiateHandshake

CONSTANTS c1, c2

\* Every client, account and honest server, but for what makes no difference: what a server that
\* does not challenge would do, and what concerns a ticket that is not offered.
HonestSetups ==
    {s \in [client : Client, server : Server, account : Account] :
        /\ s.server.honest /\ s.server.holdsKey
        /\ s.client.scheme = "NTLM" =>
              /\ s.account.kdc = "serves" /\ s.server.chooses = "Kerberos"
              /\ ~s.server.skewed /\ ~s.server.asksMic
        /\ s.server.chooses = "Ntlm" => ~s.server.skewed
        /\ ~s.server.challenges =>
              /\ s.account.password /\ s.account.kdc = "serves" /\ s.server.chooses = "Kerberos"
              /\ ~s.server.skewed /\ ~s.server.asksMic /\ ~s.server.binds}

\* A MAPI client with a ticket or without one, and a server that answers anything.
OtherSetups ==
    {s \in [client : Client, server : Server, account : Account] :
        /\ ~s.server.honest /\ ~s.client.search
        /\ s.server.challenges /\ s.server.chooses = "Ntlm" /\ ~s.server.skewed
        /\ ~s.server.asksMic /\ ~s.server.binds /\ s.account.password /\ s.account.kdc # "refuses"}

AllSetups == HonestSetups \cup OtherSetups
=============================================================================
