------------------------- MODULE NegotiateHandshake -------------------------
(***************************************************************************)
(* Driving a handshake over HTTP: crates/mapi-client/src/handshake.rs, the *)
(* handshake of crates/mapi-client/src/transport/negotiated.rs and the one *)
(* of discovery/negotiated.rs.                                             *)
(*                                                                         *)
(* A connection pool carries the legs, and any leg may travel on any of    *)
(* its connections.  A server authenticates connections: it keeps for each *)
(* what the handshake there has come to.  An honest one behaves as         *)
(* Exchange was measured to; any other answers what it likes, short of     *)
(* what takes a service key it does not hold.  One client handshakes at a  *)
(* time, as often as MaxRequests; what its handshakes share is the cache   *)
(* of tickets, here the one ticket of this server (KerberosTickets has the *)
(* cache itself).                                                          *)
(***************************************************************************)
EXTENDS Negotiate, FiniteSets

CONSTANTS
    Setups,         \* what a run of the program may meet: see SetupAssumption
    Connections,    \* the pool's connections to the server
    MaxAttempts,    \* MAX_ATTEMPTS
    MaxLegs,        \* MAX_LEGS
    MaxRequests,    \* bound: requests made one after the other
    None            \* no connection

Client == [scheme : {"NTLM", "Negotiate"},
           search : BOOLEAN]            \* Autodiscover's request, which rides on every leg

Server == [honest : BOOLEAN,
           holdsKey : BOOLEAN,          \* the service key the KDC's tickets are made for
           challenges : BOOLEAN,        \* it wants authentication, and offers the scheme
           chooses : Mechanisms,        \* what it makes of a ticket
           skewed : BOOLEAN,            \* its clock is not the KDC's
           asksMic : BOOLEAN,           \* it wants a mechListMIC
           binds : BOOLEAN]             \* it is reached over TLS, and requires the channel binding

Account == [password : BOOLEAN,         \* the one the server knows
            kdc : {"serves", "unavailable", "refuses"}]

ASSUME SetupAssumption == Setups \subseteq [client : Client, server : Server, account : Account]
ASSUME BoundsAssumption ==
    /\ MaxAttempts \in Nat \ {0} /\ MaxLegs \in Nat /\ MaxRequests \in Nat
    /\ None \notin Connections

VARIABLES
    setup,
    \* Transport::authenticate and attempt
    pc, attempt,
    legs,           \* turns of the loop of legs
    out,            \* the Authorization value of the next request
    answered,       \* the connection of the reply before
    \* Negotiation
    handshake,
    pending,        \* a ticket is to be asked for on the first 401
    offered,        \* the ticket offered
    unavailable,    \* why Kerberos is not on offer
    \* what the client keeps
    authentication, \* Transport::authentication
    believed,       \* the lane is believed authenticated
    ticket,         \* the cached ticket: none, good, or under a key the server no longer holds
    leftAlone,      \* the KDC is believed to have no ticket
    outcome, requests,
    \* the server
    context,        \* what the handshake on each connection has come to
    executed,       \* how often it has run this request
    proof,          \* what the two sides of this handshake have proved by
    refusedBefore   \* the request before was refused

negotiation == <<handshake, pending, offered, unavailable>>
serverVars == <<context, executed, proof>>
vars == <<setup, pc, attempt, legs, out, answered, negotiation, authentication, believed, ticket,
          leftAlone, outcome, requests, serverVars, refusedBefore>>

client == setup.client
server == setup.server
account == setup.account

Contexts == {"none", "challenged", "chosen", "skewed", "signed", "authenticated"}

NoReport == [mechanism |-> "none", why |-> "none"]

Init ==
    /\ setup \in Setups
    /\ pc = "begin" /\ attempt = 1 /\ legs = 0 /\ out = NoMessage /\ answered = None
    /\ handshake = NewHandshake(setup.client.scheme, FALSE)
    /\ pending = FALSE /\ offered = "none" /\ unavailable = FALSE
    /\ authentication = NoReport /\ believed = FALSE /\ leftAlone = FALSE
    /\ ticket \in {"none", "good"}
    /\ outcome = "none" /\ requests = 1
    /\ context = [c \in Connections |-> "none"] /\ executed = 0 /\ proof = {}
    /\ refusedBefore = FALSE

-----------------------------------------------------------------------------
(* The server *)

\* A reply: its status, its value for the scheme, and the connection's context after it.
Reply(status, value, next) == [status |-> status, value |-> value, next |-> next]

StartOver == Reply(401, Bare, "none")

Completed(mech, token, mic) == Value("token", "other", mech, token, mic)

\* The NTLM challenge, and the answer to what answers it.
Challenge ==
    Reply(401, Value("token", IF server.asksMic THEN "request-mic" ELSE "other", "Ntlm",
                     [kind |-> "challenge", of |-> 0], Absent), "challenged")

Accepts(value) == Reply(200, value, "authenticated")

\* What an honest server says to m on a connection where the handshake has come to c.
HonestReplies(m, c) ==
    LET bound == m.bound \/ ~server.binds
        signed == [kind |-> "kerberos", of |-> m.of]
        Right == CASE m.kind = "ntlm-negotiate" -> m.first \/ c = "chosen"
                   [] m.kind = "ntlm-authenticate" ->
                        /\ c = "challenged" /\ account.password /\ bound
                        /\ server.asksMic /\ client.scheme = "Negotiate" => m.mic # Absent
                   [] m.kind = "ap-req" -> bound /\ (m.first \/ c = "skewed")
                   [] m.kind = "complete" -> c = "signed"
                   [] OTHER -> FALSE
        ForKerberos == m.kind = "ap-req" /\ server.chooses = "Kerberos" /\ offered = "good" IN
    IF ~server.challenges THEN {Reply(200, NoValue, c)} ELSE
    CASE ~Right -> {StartOver}
      [] Right /\ m.kind = "ntlm-negotiate" -> {Challenge}
      [] Right /\ m.kind = "ntlm-authenticate" ->
           {Accepts(NoValue), Accepts(Completed("none", Absent, Absent)),
            Accepts(Completed("none", Absent, m.mic))}
      [] ForKerberos /\ Right /\ server.skewed /\ m.of = 1 ->
           {Reply(401, Completed("Kerberos", [kind |-> "skew", of |-> 0], Absent), "skewed")}
      [] ForKerberos /\ Right /\ m.of = 2 ->
           {Reply(401, Completed("none", [kind |-> "ap-rep", of |-> 2], signed), "signed")}
      [] ForKerberos /\ Right /\ ~server.skewed /\ m.of # 2 ->
           {Accepts(Completed("Kerberos", [kind |-> "ap-rep", of |-> m.of], Absent))}
      [] Right /\ m.kind = "ap-req" /\ server.chooses = "Ntlm" ->
           {Reply(401, Value("token", "request-mic", "Ntlm", Absent, Absent), "chosen")}
      [] Right /\ m.kind = "complete" -> {Accepts(NoValue), Accepts(Bare)}
      [] OTHER -> {StartOver}

\* What any other server may say: with the service key, anything; without it, what takes no key.
KeyedValues ==
    {NoValue, Bare, Garbled} \cup
    {Value("token", state, mech, token, mic) :
        state \in NegStates, mech \in Mechanisms \cup {"none", "other"}, token \in Tokens, mic \in Mics}

KeylessValues ==
    {v \in KeyedValues : /\ v.token.kind = "ap-rep" => v.token.of <= 0
                         /\ v.mic.kind = "kerberos" => v.mic.of <= 0}

KeyedReplies == {Reply(status, v, "none") : status \in {200, 401}, v \in KeyedValues}
KeylessReplies == {Reply(status, v, "none") : status \in {200, 401}, v \in KeylessValues}

\* Replies to what the client sends on connection c.
Replies(c) ==
    CASE server.honest -> HonestReplies(out, context[c])
      [] ~server.honest /\ server.holdsKey -> KeyedReplies
      [] OTHER -> KeylessReplies

\* The server answers on connection c, and runs the request if it carried one and is let in.
Serves(c, reply, body) ==
    /\ context' = [context EXCEPT ![c] = reply.next]
    /\ executed' = IF body /\ reply.status # 401 THEN executed + 1 ELSE executed
    /\ proof' = proof
         \cup (IF handshake.sent > 0 /\ Proves(handshake, reply.value.token) THEN {"Kerberos"} ELSE {})
         \cup (IF out.kind = "ntlm-authenticate" /\ reply.status # 401 THEN {"Ntlm"} ELSE {})

-----------------------------------------------------------------------------
(* Negotiation *)

\* bind: once, and only over a connection that has a certificate.
Bound(h) == [h EXCEPT !.bound = @ \/ server.binds]

\* begin: a ticket is to be asked for, unless it is known that there is none.
Pends == client.scheme = "Negotiate" /\ ~(ticket = "none" /\ leftAlone)

Begin ==
    /\ pc = "begin"
    /\ LET fresh == NewHandshake(client.scheme, FALSE) IN
       /\ pending' = Pends
       /\ unavailable' = (client.scheme = "Negotiate" /\ ~Pends)
       /\ IF Pends THEN handshake' = fresh /\ out' = NoMessage
                   ELSE LET opening == Initial(fresh) IN
                        handshake' = opening.h /\ out' = opening.out
    /\ offered' = "none" /\ proof' = {} /\ legs' = 0
    /\ pc' = "first"
    /\ UNCHANGED <<setup, attempt, answered, authentication, believed, ticket, leftAlone, outcome,
                   requests, context, executed, refusedBefore>>

-----------------------------------------------------------------------------
(* How an attempt ends *)

Ends(how) == outcome' = how /\ pc' = "done"

\* The server, or the handshake, refused: the ticket offered is forgotten.
Refused ==
    /\ Ends("refused")
    /\ ticket' = IF offered # "none" THEN "none" ELSE ticket

MovedNever(c) == FALSE          \* mutant: where a reply came from is not looked at

\* A 401 on another connection than the one before it says nothing.  The last attempt's is believed.
Moved(c) == attempt < MaxAttempts /\ answered # None /\ c # answered

StartAgainUncounted ==          \* mutant: the attempts are not counted
    pc' = "begin" /\ UNCHANGED <<attempt, outcome, ticket>>

StartAgain ==
    /\ attempt' = attempt + 1 /\ pc' = "begin"
    /\ UNCHANGED <<outcome, ticket>>

-----------------------------------------------------------------------------
(* The legs *)

\* Answers a 401's value: the next leg, or a refusal.
Answer(value) ==
    LET next == Advance(Bound(handshake), value) IN
    IF next.ok
      THEN /\ handshake' = next.h /\ out' = next.out
           /\ pc' = "leg"
           /\ UNCHANGED <<outcome, ticket>>
      ELSE Refused /\ UNCHANGED <<handshake, out>>

\* The first 401 is answered: by the deferred opening, which is bound, or as any other.
Respond(c, value) ==
    /\ answered' = c /\ legs' = 0
    /\ Answer(value)
    /\ UNCHANGED <<pending, offered, unavailable, leftAlone>>

\* choose: with a ticket in hand, it is offered.
Offer(c, held) ==
    LET opening == Initial(Bound(NewHandshake("Negotiate", TRUE))) IN
    /\ pending' = FALSE /\ offered' = held /\ ticket' = held
    /\ handshake' = opening.h /\ out' = opening.out
    /\ answered' = c /\ legs' = 0
    /\ pc' = "leg"
    /\ UNCHANGED <<unavailable, leftAlone, outcome>>

\* choose: with none to be had, NTLM's opening goes on a leg of its own.
Fallback ==
    LET opening == Initial(handshake) IN
    /\ pending' = FALSE /\ unavailable' = TRUE /\ leftAlone' = TRUE
    /\ handshake' = opening.h /\ out' = opening.out
    /\ pc' = "first"
    /\ UNCHANGED <<offered, ticket, answered, legs, outcome>>

\* choose: the scheme is not offered, or a KDC refused the credential.  No ticket to forget.
Unchosen ==
    /\ Ends("refused")
    /\ UNCHANGED <<negotiation, ticket, leftAlone, out, answered, legs>>

Choose(c, value) ==
    CASE value.form = "absent" -> Unchosen
      [] value.form # "absent" /\ ticket # "none" -> Offer(c, ticket)
      [] OTHER -> CASE account.kdc = "serves" -> Offer(c, "good")
                    [] account.kdc = "unavailable" -> Fallback
                    [] account.kdc = "refuses" -> Unchosen

\* The reply to the first leg, on connection c.
FirstReply(c, reply) ==
    CASE reply.status # 401 ->
           /\ IF client.search THEN Ends("answered") ELSE pc' = "plain" /\ UNCHANGED outcome
           /\ out' = NoMessage
           /\ UNCHANGED <<negotiation, ticket, leftAlone, answered, legs>>
      [] reply.status = 401 /\ pending -> Choose(c, reply.value)
      [] OTHER -> Respond(c, reply.value)

\* The first leg, without the request but for Autodiscover's.
First ==
    /\ pc = "first"
    /\ \E c \in Connections : \E reply \in Replies(c) :
         Serves(c, reply, client.search) /\ FirstReply(c, reply)
    /\ UNCHANGED <<setup, attempt, authentication, believed, requests, refusedBefore>>

\* A server that did not challenge gets the request as it is.
Plain ==
    /\ pc = "plain"
    /\ \E c \in Connections : \E reply \in Replies(c) :
         /\ Serves(c, reply, TRUE)
         /\ believed' = (reply.status # 401)
         /\ Ends(IF reply.status = 401 THEN "refused" ELSE "answered")
    /\ UNCHANGED <<setup, attempt, legs, out, answered, negotiation, authentication, ticket,
                   leftAlone, requests, refusedBefore>>

\* finish: how it authenticated, and why not with Kerberos.
Report(h) ==
    [mechanism |-> h.mechanism,
     why |-> CASE h.mechanism = "Kerberos" \/ client.scheme = "NTLM" -> "none"
               [] offered # "none" -> "the server chose NTLM"
               [] OTHER -> IF unavailable THEN "no ticket" ELSE "not built for it"]

\* The last token checks out, and the connection with it.
Finished(h) ==
    /\ Ends("answered")
    /\ handshake' = h
    /\ authentication' = IF client.search THEN authentication ELSE Report(h)
    /\ believed' = ~client.search
    /\ UNCHANGED <<attempt, ticket>>

FinishAgain(value) ==           \* mutant: a last token that does not check out starts it over
    LET last == Finish(handshake, value) IN
    CASE last.ok -> Finished(last.h)
      [] ~last.ok /\ attempt < MaxAttempts ->
           StartAgain /\ UNCHANGED <<handshake, authentication, believed>>
      [] OTHER -> Refused /\ UNCHANGED <<attempt, handshake, authentication, believed>>

\* The reply that is not a 401 ends the handshake, if its last token checks out.
FinishLeg(value) ==
    LET last == Finish(handshake, value) IN
    IF last.ok THEN Finished(last.h)
    ELSE Refused /\ UNCHANGED <<attempt, handshake, authentication, believed>>

\* The reply to a leg, on connection c.
LegReply(c, reply) ==
    CASE reply.status # 401 ->
           FinishLeg(reply.value) /\ UNCHANGED <<legs, out, answered>>
      [] reply.status = 401 /\ Moved(c) ->
           StartAgain /\ UNCHANGED <<legs, out, answered, handshake, authentication, believed>>
      [] reply.status = 401 /\ ~Moved(c) /\ (handshake.state = "complete" \/ legs = MaxLegs) ->
           /\ Refused
           /\ UNCHANGED <<attempt, legs, out, answered, handshake, authentication, believed>>
      [] OTHER ->
           /\ answered' = c /\ legs' = legs + 1
           /\ Answer(reply.value)
           /\ UNCHANGED <<attempt, authentication, believed>>

\* A leg that carries the request.
Leg ==
    /\ pc = "leg"
    /\ \E c \in Connections : \E reply \in Replies(c) :
         Serves(c, reply, TRUE) /\ LegReply(c, reply)
    /\ UNCHANGED <<setup, pending, offered, unavailable, leftAlone, requests, refusedBefore>>

\* A leg is not answered at all: the request fails, and nothing is learnt of the ticket.
Lost ==
    /\ pc \in {"first", "plain", "leg"}
    /\ Ends("failed")
    /\ UNCHANGED <<setup, attempt, legs, out, answered, negotiation, authentication, believed,
                   ticket, leftAlone, requests, serverVars, refusedBefore>>

-----------------------------------------------------------------------------
(* Between requests *)

\* The next request goes on a lane that is not authenticated; meanwhile the service may have been
\* given another key, and connections close.
Again ==
    /\ pc = "done" /\ requests < MaxRequests
    /\ requests' = requests + 1
    /\ pc' = "begin" /\ attempt' = 1 /\ outcome' = "none" /\ believed' = FALSE
    /\ executed' = 0 /\ answered' = None
    /\ context' = [c \in Connections |-> "none"]
    /\ \/ ticket = "good" /\ ticket' = "stale"
       \/ UNCHANGED ticket
    /\ leftAlone' \in {leftAlone, FALSE}
    /\ refusedBefore' = (outcome = "refused")
    /\ UNCHANGED <<setup, legs, out, negotiation, authentication, proof>>

Over == pc = "done" /\ requests = MaxRequests /\ UNCHANGED vars

-----------------------------------------------------------------------------
Handshaking == Begin \/ First \/ Plain \/ Leg
Next == Handshaking \/ Lost \/ Again \/ Over

Spec == Init /\ [][Next]_vars

\* Every post ends, by the request timeout if not before.
FairSpec == Spec /\ WF_vars(Handshaking)

-----------------------------------------------------------------------------
(* Properties *)

\* MapiClient::authentication says what happened: Kerberos only when the server has proved, in this
\* handshake and to its last AP-REQ, that it holds the service key, whatever it said before and
\* whichever mechanism it named; NTLM only when the account was proved by it; and a ticket that
\* could not be had only when none could (handshake.rs:34-51, 307-343).
ReportIsTrue ==
    (outcome = "answered" /\ handshake.state = "complete" /\ ~client.search) =>
        /\ authentication.mechanism \in proof
        /\ authentication.why = "no ticket" => account.kdc = "unavailable"

\* A server that knows the account lets it in: a refusal before the last attempt means that the
\* service was given another key since its ticket was issued, which a second request does not meet
\* again.  Nothing is claimed of a refusal in the last attempt, which is only reached when the pool
\* moved each one before it (handshake.rs:53-79, 290-293).
GoodCredentialGetsIn ==
    (outcome = "refused" /\ server.honest /\ account.password /\ account.kdc # "refuses") =>
        attempt = MaxAttempts \/ (offered = "stale" /\ ~refusedBefore)

\* The request rides on every leg, and the server runs it once at most: nothing that has been
\* answered is sent again.
RunsOnce == executed <= 1

\* Every handshake ends, whatever the server answers and wherever the pool takes it.
EveryHandshakeEnds == (pc = "begin") ~> (pc = "done")

=============================================================================
