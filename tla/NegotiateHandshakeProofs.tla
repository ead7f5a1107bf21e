---------------------- MODULE NegotiateHandshakeProofs ----------------------
(***************************************************************************)
(* Proofs about NegotiateHandshake, for every client, server and account,  *)
(* any number of connections, attempts, legs and requests, and whatever a  *)
(* server answers.                                                         *)
(***************************************************************************)
EXTENDS NegotiateHandshake, TLAPS

(* Nothing has run the request while there is still a leg to send. *)
RunsInv == executed \in {0, 1} /\ (pc # "done" => executed = 0)

LEMMA RunsInit == Init => RunsInv
  BY DEF Init, RunsInv

LEMMA RunsNext == RunsInv /\ [Next]_vars => RunsInv'
<1> SUFFICES ASSUME RunsInv, [Next]_vars
             PROVE  RunsInv'
  OBVIOUS
<1> USE DEF RunsInv
<1>1. CASE Begin
  BY <1>1 DEF Begin
<1>2. CASE First
  <2>1. PICK c \in Connections : \E reply \in Replies(c) :
          Serves(c, reply, client.search) /\ FirstReply(c, reply)
    BY <1>2 DEF First
  <2>2. PICK reply \in Replies(c) : Serves(c, reply, client.search) /\ FirstReply(c, reply)
    BY <2>1
  <2>3. pc = "first"
    BY <1>2 DEF First
  <2>4. CASE reply.status = 401
    BY <2>2, <2>3, <2>4 DEF Serves
  <2>5. CASE reply.status # 401
    BY <2>2, <2>3, <2>5 DEF Serves, FirstReply, Ends
  <2> QED  BY <2>4, <2>5
<1>3. CASE Plain
  BY <1>3 DEF Plain, Serves, Ends
<1>4. CASE Leg
  <2>1. PICK c \in Connections : \E reply \in Replies(c) :
          Serves(c, reply, TRUE) /\ LegReply(c, reply)
    BY <1>4 DEF Leg
  <2>2. PICK reply \in Replies(c) : Serves(c, reply, TRUE) /\ LegReply(c, reply)
    BY <2>1
  <2>3. pc = "leg"
    BY <1>4 DEF Leg
  <2>4. CASE reply.status = 401
    BY <2>2, <2>3, <2>4 DEF Serves
  <2>5. CASE reply.status # 401
    BY <2>2, <2>3, <2>5 DEF Serves, LegReply, FinishLeg, Finished, Refused, Ends
  <2> QED  BY <2>4, <2>5
<1>5. CASE Lost
  BY <1>5 DEF Lost, serverVars
<1>6. CASE Again
  BY <1>6 DEF Again
<1>7. CASE UNCHANGED vars
  BY <1>7 DEF vars, serverVars
<1> QED  BY <1>1, <1>2, <1>3, <1>4, <1>5, <1>6, <1>7 DEF Next, Handshaking, Over

\* However often the pool moves a handshake and whatever a server answers, the request is run once at
\* most, though every leg carries it (handshake.rs, attempt and finish).
THEOREM RequestRunsOnce == Spec => []RunsOnce
<1>1. RunsInv => RunsOnce
  BY DEF RunsInv, RunsOnce
<1> QED  BY <1>1, RunsInit, RunsNext, PTL DEF Spec

-----------------------------------------------------------------------------
(* What a handshake has proved *)

(* A handshake under way either offered a ticket, and sent an AP-REQ, or is NTLM's from its start. *)
Sound(h) ==
    /\ h \in Handshakes
    /\ h.scheme = "NTLM" => ~h.side
    /\ h.state # "ready" /\ h.side => h.sent > 0
    /\ h.state # "ready" /\ ~h.side => h.mechanism = "Ntlm"

(* h after an answer: it has the server's proof only from what it had or what the answer carried. *)
Grows(h, token, next) ==
    /\ Sound(next)
    /\ next.proven => h.proven \/ (h.sent > 0 /\ Proves(h, token))

LEMMA OpeningSound ==
    ASSUME NEW h, Sound(h)
    PROVE  /\ Sound(Initial(h).h)
           /\ Initial(h).h.proven => h.proven
           /\ h.state # "complete" => Initial(h).h.state # "complete"
<1>1. CASE h.state # "ready"
  BY <1>1 DEF Initial, Refuse
<1>2. CASE h.state = "ready" /\ h.side
  <2>1. Initial(h).h = [h EXCEPT !.state = "awaiting", !.sent = 1]
    BY <1>2 DEF Initial, Send
  <2>2. Initial(h).h \in Handshakes
    <3>1. 1 \in 0..2
      OBVIOUS
    <3> QED  BY <2>1, <3>1 DEF Sound, Handshakes
  <2> QED  BY <1>2, <2>1, <2>2 DEF Sound, Handshakes
<1>3. CASE h.state = "ready" /\ ~h.side
  <2>1. Initial(h).h = [h EXCEPT !.state = "awaiting", !.mechanism = "Ntlm", !.negotiate = TRUE]
    BY <1>3 DEF Initial, Send
  <2>2. Initial(h).h \in Handshakes
    BY <2>1 DEF Sound, Handshakes, Mechanisms
  <2> QED  BY <1>3, <2>1, <2>2 DEF Sound, Handshakes
<1> QED  BY <1>1, <1>2, <1>3

LEMMA BoundSound ==
    ASSUME NEW h, Sound(h)
    PROVE  /\ Sound(Bound(h))
           /\ Bound(h).sent = h.sent /\ Bound(h).proven = h.proven /\ Bound(h).side = h.side
           /\ Bound(h).state = h.state
  BY DEF Sound, Handshakes, Bound, Mechanisms

(* The last NTLM message completes a handshake, and no other completes one that is NTLM's. *)
LEMMA AuthenticateSound ==
    ASSUME NEW h, NEW token, NEW required, Sound(h), h.state = "awaiting", h.mechanism = "Ntlm",
           NEW next, next = Authenticate(h, token, required), next.ok
    PROVE  /\ Grows(h, token, next.h)
           /\ next.out.kind = "ntlm-authenticate"
  BY DEF Sound, Handshakes, Authenticate, Grows, Send, Refuse, Message, Mechanisms

LEMMA AdvanceSound ==
    ASSUME NEW h, NEW v, Sound(h),
           NEW next, next = Advance(h, v), next.ok
    PROVE  /\ Grows(h, v.token, next.h)
           /\ next.h.state = "complete" /\ next.h.mechanism = "Ntlm" =>
                 next.out.kind = "ntlm-authenticate"
<1>1. h.state = "awaiting"
  BY DEF Advance, Refuse
<1>2. CASE h.scheme = "NTLM"
  <2>1. h.mechanism = "Ntlm"
    BY <1>1, <1>2 DEF Sound, Handshakes
  <2>2. next = Authenticate(h, v.token, FALSE)
    BY <1>1, <1>2 DEF Advance, Refuse
  <2> QED  BY <1>1, <2>1, <2>2, AuthenticateSound
<1>3. CASE h.scheme = "Negotiate" /\ Select(h, v) = "Kerberos"
  <2>1. h.side
    BY <1>1, <1>3 DEF Select, Sound, Handshakes
  <2> DEFINE k == [h EXCEPT !.mechanism = "Kerberos"]
  <2>2. next = KerberosAnswer(k, v)
    BY <1>1, <1>3 DEF Advance, Refuse
  <2>3. k \in Handshakes /\ k.mechanism = "Kerberos" /\ k.side /\ k.sent = h.sent
        /\ k.proven = h.proven /\ k.state = h.state /\ k.scheme = h.scheme
    BY <2>1 DEF Sound, Handshakes, Mechanisms
  <2>4. h.sent > 0
    BY <1>1, <2>1 DEF Sound
  <2> HIDE DEF k
  <2>5. /\ next.h \in Handshakes /\ next.h.mechanism = "Kerberos" /\ next.h.side
        /\ next.h.sent > 0 /\ next.h.scheme = h.scheme
        /\ next.h.proven => h.proven \/ Proves(k, v.token)
    <3>1. CASE Retries(k, v.token)
      <4>1. next.h = [k EXCEPT !.sent = 2]
        BY <2>2, <3>1 DEF KerberosAnswer, Retries, Proves, Send, Refuse
      <4>2. 2 \in 0..2
        OBVIOUS
      <4> QED  BY <2>3, <4>1, <4>2 DEF Handshakes
    <3>2. CASE ~Retries(k, v.token)
      <4>1. /\ Proves(k, v.token)
            /\ next.h = [k EXCEPT !.proven = TRUE, !.state = "complete"]
        BY <2>2, <3>2 DEF KerberosAnswer, Send, Refuse
      <4> QED  BY <2>3, <2>4, <4>1 DEF Handshakes
    <3> QED  BY <3>1, <3>2
  <2>6. Sound(next.h)
    BY <1>3, <2>5 DEF Sound
  <2>7. next.h.proven => h.proven \/ Proves(h, v.token)
    BY <2>3, <2>5 DEF Proves
  <2> QED  BY <2>4, <2>5, <2>6, <2>7 DEF Grows
<1>4. CASE h.scheme = "Negotiate" /\ Select(h, v) = "Ntlm"
  <2> DEFINE k == [h EXCEPT !.mechanism = "Ntlm"]
  <2>1. next = NtlmAnswer(k, v)
    BY <1>1, <1>4 DEF Advance, Refuse
  <2>2. k \in Handshakes /\ k.mechanism = "Ntlm" /\ k.side = h.side /\ k.sent = h.sent
        /\ k.proven = h.proven /\ k.state = h.state /\ k.scheme = h.scheme
    BY DEF Sound, Handshakes, Mechanisms
  <2>3. Sound(k)
    BY <2>2 DEF Sound
  <2> HIDE DEF k
  <2>4. CASE ~k.negotiate
    <3>1. next.h = [k EXCEPT !.negotiate = TRUE]
      BY <2>1, <2>4 DEF NtlmAnswer, Send, Refuse
    <3>2. next.h \in Handshakes
      BY <2>2, <3>1 DEF Handshakes
    <3> QED  BY <1>1, <2>2, <2>3, <3>1, <3>2 DEF Grows, Sound, Handshakes
  <2>5. CASE k.negotiate
    <3>0. /\ next.h = [k EXCEPT !.state = "complete", !.signs = (v.token.kind = "challenge")]
          /\ next.out.kind = "ntlm-authenticate"
      BY <2>1, <2>5 DEF NtlmAnswer, Authenticate, Send, Refuse, Message
    <3>1. /\ next.h.side = k.side /\ next.h.sent = k.sent /\ next.h.proven = k.proven
          /\ next.h.scheme = k.scheme /\ next.h.mechanism = k.mechanism /\ next.h \in Handshakes
      BY <2>2, <3>0 DEF Handshakes
    <3> QED  BY <1>1, <2>2, <2>3, <3>0, <3>1 DEF Grows, Sound
  <2> QED  BY <2>4, <2>5
<1> QED  BY <1>1, <1>2, <1>3, <1>4 DEF Advance, Select, Refuse, Sound, Handshakes, Mechanisms

(* A last token that checks out leaves the mechanism that proved it. *)
LEMMA FinishSound ==
    ASSUME NEW h, NEW v, Sound(h),
           NEW next, next = Finish(h, v), next.ok
    PROVE  /\ Grows(h, v.token, next.h)
           /\ \/ next.h.mechanism = "Kerberos" /\ next.h.proven
              \/ next.h.mechanism = "Ntlm" /\ h.mechanism = "Ntlm" /\ h.state = "complete"
<1>1. CASE h.side /\ h.mechanism # "Ntlm"
  <2>1. next = KerberosFinish(h, v)
    BY <1>1 DEF Finish
  <2>2. /\ h.state # "ready"
        /\ h.proven \/ Proves(h, v.token)
        /\ next.h = [h EXCEPT !.mechanism = "Kerberos", !.state = "complete", !.proven = TRUE]
    BY <2>1 DEF KerberosFinish, Send, Refuse
  <2> QED  BY <1>1, <2>2 DEF Sound, Grows, Handshakes, Mechanisms
<1>2. CASE ~(h.side /\ h.mechanism # "Ntlm")
  <2>1. h.state = "complete" /\ next.h = h
    BY <1>2 DEF Finish, Send, Refuse
  <2> QED  BY <1>2, <2>1 DEF Sound, Grows
<1> QED  BY <1>1, <1>2

LEMMA FreshSound ==
    ASSUME NEW scheme \in {"NTLM", "Negotiate"}, NEW offers \in BOOLEAN, offers => scheme = "Negotiate"
    PROVE  LET h == NewHandshake(scheme, offers) IN
           Sound(h) /\ ~h.proven /\ h.state = "ready"
<1>1. 0 \in 0..2
  OBVIOUS
<1> QED  BY <1>1 DEF Sound, NewHandshake, Handshakes, Mechanisms

-----------------------------------------------------------------------------
(* What is reported *)

ReportInv ==
    /\ setup \in Setups
    /\ Sound(handshake)
    /\ handshake.proven => "Kerberos" \in proof
    /\ leftAlone \/ unavailable => account.kdc = "unavailable"
    /\ pc \in {"first", "plain"} => handshake.state # "complete"
    /\ pc = "leg" /\ handshake.state = "complete" /\ handshake.mechanism = "Ntlm" =>
          out.kind = "ntlm-authenticate"
    /\ outcome = "answered" => pc = "done"
    /\ ReportIsTrue

LEMMA SchemeType == ASSUME setup \in Setups PROVE client.scheme \in {"NTLM", "Negotiate"}
  BY SetupAssumption DEF client, Client

LEMMA ReportInit == Init => ReportInv
<1> SUFFICES ASSUME Init PROVE ReportInv
  OBVIOUS
<1>1. client.scheme \in {"NTLM", "Negotiate"}
  BY SchemeType DEF Init
<1>2. Sound(handshake) /\ ~handshake.proven /\ handshake.state = "ready"
  BY <1>1, FreshSound DEF Init, client
<1> QED  BY <1>2 DEF Init, ReportInv, ReportIsTrue

(* A reply's proof stays, and an answer to it has no other. *)
LEMMA ProofKept ==
    ASSUME ReportInv, NEW c, NEW reply, NEW body, Serves(c, reply, body),
           NEW next, Grows(handshake, reply.value.token, next)
    PROVE  next.proven => "Kerberos" \in proof'
  BY DEF ReportInv, Serves, Grows

LEMMA AnswerReports ==
    ASSUME ReportInv, NEW c, NEW reply, NEW body, Serves(c, reply, body), Answer(reply.value),
           UNCHANGED <<setup, unavailable, leftAlone>>, outcome # "answered"
    PROVE  ReportInv'
<1> DEFINE next == Advance(Bound(handshake), reply.value)
<1>1. CASE next.ok
  <2>1. Sound(Bound(handshake)) /\ Bound(handshake).sent = handshake.sent
        /\ Bound(handshake).proven = handshake.proven
    BY BoundSound DEF ReportInv
  <2>2. /\ Grows(Bound(handshake), reply.value.token, next.h)
        /\ next.h.state = "complete" /\ next.h.mechanism = "Ntlm" =>
              next.out.kind = "ntlm-authenticate"
    BY <1>1, <2>1, AdvanceSound
  <2>3. Grows(handshake, reply.value.token, next.h)
    BY <2>1, <2>2 DEF Grows, Proves
  <2>4. next.h.proven => "Kerberos" \in proof'
    BY <2>3, ProofKept
  <2>5. handshake' = next.h /\ out' = next.out /\ pc' = "leg" /\ outcome' = outcome
    BY <1>1 DEF Answer
  <2> QED  BY <2>2, <2>3, <2>4, <2>5 DEF ReportInv, ReportIsTrue, Grows, account
<1>2. CASE ~next.ok
  <2>1. UNCHANGED handshake /\ pc' = "done" /\ outcome' = "refused"
    BY <1>2 DEF Answer, Refused, Ends
  <2> QED  BY <2>1 DEF ReportInv, ReportIsTrue, account, Serves
<1> QED  BY <1>1, <1>2

LEMMA ChooseReports ==
    ASSUME ReportInv, NEW c, NEW reply, NEW body, Serves(c, reply, body), Choose(c, reply.value),
           UNCHANGED setup, outcome # "answered", pc = "first"
    PROVE  ReportInv'
<1>1. ASSUME NEW held, Offer(c, held)
      PROVE  ReportInv'
  <2> DEFINE fresh == NewHandshake("Negotiate", TRUE)
  <2>1. Sound(fresh) /\ ~fresh.proven /\ fresh.state = "ready"
    BY FreshSound
  <2>2. /\ Sound(Bound(fresh)) /\ ~Bound(fresh).proven /\ Bound(fresh).state = "ready"
    BY <2>1, BoundSound
  <2>3. /\ Sound(handshake') /\ ~handshake'.proven /\ handshake'.state # "complete"
    BY <1>1, <2>2, OpeningSound DEF Offer
  <2> QED  BY <1>1, <2>3 DEF Offer, ReportInv, ReportIsTrue, account
<1>2. CASE account.kdc = "unavailable" /\ Fallback
  <2>1. /\ Sound(handshake')
        /\ handshake'.proven => handshake.proven
    BY <1>2, OpeningSound DEF Fallback, ReportInv
  <2>2. handshake'.state # "complete"
    BY <1>2, OpeningSound DEF Fallback, ReportInv
  <2> QED  BY <1>2, <2>1, <2>2 DEF Fallback, ReportInv, ReportIsTrue, account, Serves
<1>3. CASE Unchosen
  BY <1>3 DEF Unchosen, Ends, negotiation, ReportInv, ReportIsTrue, account, Serves
<1>4. account.kdc \in {"serves", "unavailable", "refuses"}
  BY SetupAssumption DEF ReportInv, account, Account
<1> QED  BY <1>1, <1>2, <1>3, <1>4 DEF Choose

LEMMA FinishReports ==
    ASSUME ReportInv, NEW c, NEW reply, NEW body, Serves(c, reply, body), reply.status # 401,
           FinishLeg(reply.value), pc = "leg", UNCHANGED <<setup, unavailable, leftAlone, offered>>
    PROVE  ReportInv'
<1> DEFINE last == Finish(handshake, reply.value)
<1>1. CASE last.ok
  <2>1. /\ Grows(handshake, reply.value.token, last.h)
        /\ \/ last.h.mechanism = "Kerberos" /\ last.h.proven
           \/ last.h.mechanism = "Ntlm" /\ handshake.mechanism = "Ntlm"
              /\ handshake.state = "complete"
    BY <1>1, FinishSound DEF ReportInv
  <2>2. last.h.proven => "Kerberos" \in proof'
    BY <2>1, ProofKept
  <2>3. last.h.mechanism \in proof'
    <3>1. CASE last.h.mechanism = "Kerberos" /\ last.h.proven
      BY <2>2, <3>1
    <3>2. CASE last.h.mechanism = "Ntlm" /\ handshake.mechanism = "Ntlm"
               /\ handshake.state = "complete"
      BY <3>2 DEF ReportInv, Serves
    <3> QED  BY <2>1, <3>1, <3>2
  <2>4. Finished(last.h)
    BY <1>1 DEF FinishLeg
  <2>5. Report(last.h).mechanism = last.h.mechanism
    BY DEF Report
  <2>6. Report(last.h).why = "no ticket" => unavailable
    BY DEF Report
  <2>7. ReportIsTrue'
    BY <2>3, <2>4, <2>5, <2>6 DEF Finished, ReportIsTrue, ReportInv, client, account
  <2> QED  BY <2>1, <2>2, <2>4, <2>7 DEF Finished, Ends, ReportInv, Grows, account
<1>2. CASE ~last.ok
  <2>1. UNCHANGED handshake /\ pc' = "done" /\ outcome' = "refused"
    BY <1>2 DEF FinishLeg, Refused, Ends
  <2> QED  BY <2>1 DEF ReportInv, ReportIsTrue, account, Serves
<1> QED  BY <1>1, <1>2

LEMMA ReportNext == ReportInv /\ [Next]_vars => ReportInv'
<1> SUFFICES ASSUME ReportInv, [Next]_vars
             PROVE  ReportInv'
  OBVIOUS
<1>1. CASE Begin
  <2> DEFINE fresh == NewHandshake(client.scheme, FALSE)
  <2>1. Sound(fresh) /\ ~fresh.proven /\ fresh.state = "ready"
    BY SchemeType, FreshSound DEF ReportInv
  <2>2. /\ Sound(Initial(fresh).h) /\ ~Initial(fresh).h.proven
        /\ Initial(fresh).h.state # "complete"
    BY <2>1, OpeningSound
  <2> HIDE DEF fresh
  <2>3. handshake' = fresh \/ handshake' = Initial(fresh).h
    BY <1>1 DEF Begin, fresh
  <2>4. unavailable' => leftAlone
    BY <1>1 DEF Begin, Pends
  <2>5. Sound(handshake') /\ ~handshake'.proven /\ handshake'.state # "complete"
    BY <2>1, <2>2, <2>3
  <2> QED  BY <1>1, <2>4, <2>5 DEF Begin, ReportInv, ReportIsTrue, account
<1>2. CASE First
  <2>1. PICK c \in Connections : \E reply \in Replies(c) :
          Serves(c, reply, client.search) /\ FirstReply(c, reply)
    BY <1>2 DEF First
  <2>2. PICK reply \in Replies(c) : Serves(c, reply, client.search) /\ FirstReply(c, reply)
    BY <2>1
  <2>3. pc = "first" /\ outcome # "answered" /\ UNCHANGED setup
    BY <1>2 DEF First, ReportInv
  <2>4. CASE reply.status # 401
    BY <2>2, <2>3, <2>4
      DEF FirstReply, Ends, negotiation, ReportInv, ReportIsTrue, client, account, Serves
  <2>5. CASE Choose(c, reply.value)
    BY <2>2, <2>3, <2>5, ChooseReports
  <2>6. CASE Respond(c, reply.value)
    BY <2>2, <2>3, <2>6, AnswerReports DEF Respond
  <2> QED  BY <2>2, <2>4, <2>5, <2>6 DEF FirstReply
<1>3. CASE Plain
  <2>1. PICK c \in Connections : \E reply \in Replies(c) : Serves(c, reply, TRUE)
    BY <1>3 DEF Plain
  <2>2. proof \subseteq proof'
    BY <2>1 DEF Serves
  <2>3. pc = "plain" /\ pc' = "done" /\ UNCHANGED <<setup, negotiation, leftAlone>>
    BY <1>3 DEF Plain, Ends
  <2> QED  BY <2>2, <2>3 DEF negotiation, ReportInv, ReportIsTrue, account
<1>4. CASE Leg
  <2>1. PICK c \in Connections : \E reply \in Replies(c) :
          Serves(c, reply, TRUE) /\ LegReply(c, reply)
    BY <1>4 DEF Leg
  <2>2. PICK reply \in Replies(c) : Serves(c, reply, TRUE) /\ LegReply(c, reply)
    BY <2>1
  <2>3. pc = "leg" /\ outcome # "answered" /\ UNCHANGED <<setup, offered, unavailable, leftAlone>>
    BY <1>4 DEF Leg, ReportInv
  <2>4. CASE reply.status # 401 /\ FinishLeg(reply.value)
    BY <2>2, <2>3, <2>4, FinishReports
  <2>5. CASE StartAgain /\ UNCHANGED handshake
    BY <2>2, <2>3, <2>5 DEF StartAgain, ReportInv, ReportIsTrue, account, Serves
  <2>6. CASE Refused /\ UNCHANGED handshake
    BY <2>2, <2>3, <2>6 DEF Refused, Ends, ReportInv, ReportIsTrue, account, Serves
  <2>7. CASE Answer(reply.value)
    BY <2>2, <2>3, <2>7, AnswerReports
  <2> QED  BY <2>2, <2>4, <2>5, <2>6, <2>7 DEF LegReply
<1>5. CASE Lost
  BY <1>5 DEF Lost, Ends, negotiation, serverVars, ReportInv, ReportIsTrue, account
<1>6. CASE Again
  <2>1. /\ pc' = "begin" /\ outcome' = "none"
        /\ UNCHANGED <<setup, handshake, unavailable, proof>>
    BY <1>6 DEF Again, negotiation
  <2>2. leftAlone' => leftAlone
    BY <1>6 DEF Again
  <2> QED  BY <2>1, <2>2 DEF ReportInv, ReportIsTrue, account
<1>7. CASE UNCHANGED vars
  BY <1>7 DEF vars, negotiation, serverVars, ReportInv, ReportIsTrue, client, account
<1> QED  BY <1>1, <1>2, <1>3, <1>4, <1>5, <1>6, <1>7 DEF Next, Handshaking, Over

\* Whatever a server answers, and wherever the pool takes its legs, what the program is told of a
\* handshake is what was proved in it (handshake.rs finish; negotiate-auth handshake.rs finish).
THEOREM TrueReport == Spec => []ReportIsTrue
<1>1. ReportInv => ReportIsTrue
  BY DEF ReportInv
<1> QED  BY <1>1, ReportInit, ReportNext, PTL DEF Spec

-----------------------------------------------------------------------------
(* Who is let in *)

(* A server that knows the account, and a KDC that does not refuse it. *)
Good == server.honest /\ account.password /\ account.kdc # "refuses"

(* The channel binding is there if it is asked for. *)
Binds(m) == m.bound \/ ~server.binds

(* The first message is still to be chosen, or it is NTLM's. *)
AtFirst(h, m) ==
    IF pending
      THEN client.scheme = "Negotiate" /\ h = NewHandshake("Negotiate", FALSE) /\ m = NoMessage
      ELSE /\ h.scheme = client.scheme /\ h.state = "awaiting"
           /\ h.mechanism = "Ntlm" /\ h.negotiate /\ ~h.side
           /\ m.kind = "ntlm-negotiate" /\ m.first

(* Where a leg stands: the handshake, what the client says next, what the connection of the last reply *)
(* has come to, and how many legs there were. *)
Authenticating(h, m, at) ==
    /\ m.kind = "ntlm-authenticate" /\ Binds(m) /\ (client.scheme = "Negotiate" => m.mic # Absent)
    /\ m.mic # Absent => m.mic.kind = "ntlm"
    /\ h.state = "complete" /\ h.mechanism = "Ntlm" /\ h.signs
    /\ at = "challenged"

Offering(h, m, n) ==
    /\ m.kind = "ap-req" /\ m.first /\ m.of = 1 /\ Binds(m)
    /\ h.scheme = "Negotiate" /\ h.state = "awaiting" /\ h.side
    /\ h.mechanism = "none" /\ h.sent = 1 /\ ~h.negotiate
    /\ client.scheme = "Negotiate" /\ offered \in {"good", "stale"} /\ n = 0

Retrying(h, m, at, n) ==
    /\ m.kind = "ap-req" /\ ~m.first /\ m.of = 2 /\ Binds(m)
    /\ h.scheme = "Negotiate" /\ h.state = "awaiting" /\ h.side
    /\ h.mechanism = "Kerberos" /\ h.sent = 2
    /\ server.chooses = "Kerberos" /\ server.skewed /\ offered = "good" /\ n = 1
    /\ at = "skewed"

Chosen(h, m, at, n) ==
    /\ m.kind = "ntlm-negotiate" /\ ~m.first
    /\ client.scheme = "Negotiate" /\ h.scheme = "Negotiate" /\ h.state = "awaiting" /\ h.side
    /\ h.mechanism = "Ntlm" /\ h.negotiate /\ n = 1
    /\ at = "chosen"

Completing(h, m, at) ==
    /\ m.kind = "complete"
    /\ h.state = "complete" /\ h.side /\ h.mechanism = "Kerberos" /\ h.proven
    /\ at = "signed"

Stands(h, m, at, n) ==
    \/ Authenticating(h, m, at) \/ Offering(h, m, n) \/ Retrying(h, m, at, n) \/ Chosen(h, m, at, n)
    \/ Completing(h, m, at)

(* A ticket that was refused is forgotten: the request after has none, or a new one. *)
Forgetting ==
    client.scheme = "Negotiate" =>
        /\ pc \in {"first", "leg"} /\ offered = "none" /\ ~pending => ticket = "none"
        /\ outcome = "refused" => ticket = "none"
        /\ refusedBefore => ticket # "stale" /\ (pc # "begin" => offered # "stale")

GetsTypes ==
    /\ DOMAIN context = Connections /\ attempt \in 1..MaxAttempts
    /\ ticket \in {"none", "good", "stale"} /\ offered \in {"none", "good", "stale"}
    /\ outcome # "none" => pc = "done"
    /\ pc = "first" => offered = "none"

GetsIn ==
    /\ pc = "first" => AtFirst(handshake, out)
    /\ pc = "plain" => ~server.challenges
    /\ pc = "leg" =>
         /\ answered \in Connections /\ server.challenges /\ ~pending
         /\ Stands(handshake, out, context[answered], legs)
    /\ Forgetting
    /\ GoodCredentialGetsIn

GetsInv == GetsTypes /\ (Good => GetsIn)

LEMMA ValueIs ==
    ASSUME NEW form, NEW state, NEW mech, NEW token, NEW mic, NEW v, v = Value(form, state, mech, token, mic)
    PROVE  v.form = form /\ v.state = state /\ v.mech = mech /\ v.token = token /\ v.mic = mic
BY DEF Value

LEMMA ReplyIs ==
    ASSUME NEW status, NEW value, NEW next, NEW r, r = Reply(status, value, next)
    PROVE  r.status = status /\ r.value = value /\ r.next = next
BY DEF Reply

(* A token or a MIC of some kind. *)
Kind(kind, of) == [kind |-> kind, of |-> of]

LEMMA KindIs == ASSUME NEW kind, NEW of, NEW t, t = Kind(kind, of) PROVE t.kind = kind /\ t.of = of
BY DEF Kind

(* What an honest server that challenges says. *)
StartsOver(r) == r.status = 401 /\ r.value.form = "bare"
Challenges(r) ==
    /\ r.status = 401 /\ r.next = "challenged"
    /\ r.value.form = "token" /\ r.value.state # "reject" /\ r.value.mech = "Ntlm"
    /\ r.value.token.kind = "challenge"
ChoosesNtlm(r) ==
    /\ r.status = 401 /\ r.next = "chosen"
    /\ r.value.form = "token" /\ r.value.state # "reject" /\ r.value.mech = "Ntlm"
IsSkewed(r) ==
    /\ r.status = 401 /\ r.next = "skewed"
    /\ r.value.form = "token" /\ r.value.mech = "Kerberos" /\ r.value.token.kind = "skew"
Signs(r) ==
    /\ r.status = 401 /\ r.next = "signed"
    /\ r.value.form = "token" /\ r.value.mech = "none"
    /\ r.value.token = Kind("ap-rep", 2) /\ r.value.mic = Kind("kerberos", 2)
AcceptsTicket(r) ==
    /\ r.status # 401
    /\ r.value.form = "token" /\ r.value.state # "reject" /\ r.value.mech = "Kerberos"
    /\ r.value.token = Kind("ap-rep", 1) /\ r.value.mic = Absent
AcceptsNtlm(r) ==
    /\ r.status # 401
    /\ r.value.form = "absent" \/
         (r.value.form = "token" /\ r.value.state # "reject" /\ (r.value.mic = Absent \/ r.value.mic = out.mic))
AcceptsSigned(r) == r.status # 401 /\ r.value.form \in {"absent", "bare"} /\ r.value.mic = Absent

LEMMA StartOverSays == ASSUME NEW r, r = StartOver PROVE StartsOver(r)
BY DEF StartOver, Reply, Bare, Value, StartsOver

LEMMA ChallengeSays == ASSUME NEW r, r = Challenge PROVE Challenges(r)
BY DEF Challenge, Reply, Value, Challenges

(* The replies to each message. *)
LEMMA ToNothing ==
    ASSUME server.honest, server.challenges, NEW c, NEW r \in Replies(c), out.kind = "none"
    PROVE  StartsOver(r)
<1>1. r \in HonestReplies(out, context[c]) BY DEF Replies
<1>2. r = StartOver BY <1>1 DEF HonestReplies
<1> QED BY <1>2, StartOverSays

LEMMA ToNegotiate ==
    ASSUME server.honest, server.challenges, NEW c, NEW r \in Replies(c), out.kind = "ntlm-negotiate"
    PROVE  Challenges(r) \/ (StartsOver(r) /\ ~out.first /\ context[c] # "chosen")
<1>1. r \in HonestReplies(out, context[c]) BY DEF Replies
<1>2. r = Challenge \/ (r = StartOver /\ ~(out.first \/ context[c] = "chosen")) BY <1>1 DEF HonestReplies
<1> QED BY <1>2, StartOverSays, ChallengeSays

LEMMA ToAuthenticate ==
    ASSUME Good, server.challenges, NEW c, NEW r \in Replies(c), out.kind = "ntlm-authenticate", Binds(out),
           client.scheme = "Negotiate" => out.mic # Absent
    PROVE  AcceptsNtlm(r) \/ (StartsOver(r) /\ context[c] # "challenged")
<1>1. r \in HonestReplies(out, context[c]) BY DEF Replies, Good
<1>2. \/ r \in {Accepts(NoValue), Accepts(Completed("none", Absent, Absent)), Accepts(Completed("none", Absent, out.mic))}
      \/ r = StartOver /\ context[c] # "challenged"
  BY <1>1 DEF HonestReplies, Good, Binds
<1>3. \A mic : AcceptsNtlm(Accepts(Completed("none", Absent, mic))) <=> mic \in {Absent, out.mic}
  BY DEF Accepts, Completed, Reply, Value, AcceptsNtlm
<1>4. AcceptsNtlm(Accepts(NoValue)) BY DEF Accepts, NoValue, Reply, Value, AcceptsNtlm
<1> QED BY <1>2, <1>3, <1>4, StartOverSays

LEMMA ToTicket ==
    ASSUME server.honest, server.challenges, NEW c, NEW r \in Replies(c), out.kind = "ap-req", out.first, out.of = 1,
           Binds(out), setup \in Setups, offered \in {"good", "stale"}
    PROVE  \/ ChoosesNtlm(r)
           \/ IsSkewed(r) /\ server.chooses = "Kerberos" /\ server.skewed /\ offered = "good"
           \/ AcceptsTicket(r)
           \/ StartsOver(r) /\ offered = "stale"
<1>1. r \in HonestReplies(out, context[c]) BY DEF Replies
<1>2. server.chooses \in {"Kerberos", "Ntlm"} BY SetupAssumption DEF server, Server, Mechanisms
<1>3. \/ r = Reply(401, Value("token", "request-mic", "Ntlm", Absent, Absent), "chosen")
      \/ /\ r = Reply(401, Completed("Kerberos", [kind |-> "skew", of |-> 0], Absent), "skewed")
         /\ server.chooses = "Kerberos" /\ server.skewed /\ offered = "good"
      \/ r = Accepts(Completed("Kerberos", [kind |-> "ap-rep", of |-> 1], Absent))
      \/ r = StartOver /\ offered = "stale"
  BY <1>1, <1>2 DEF HonestReplies, Binds
<1>4. ChoosesNtlm(Reply(401, Value("token", "request-mic", "Ntlm", Absent, Absent), "chosen"))
  BY DEF ChoosesNtlm, Reply, Value
<1>5. IsSkewed(Reply(401, Completed("Kerberos", [kind |-> "skew", of |-> 0], Absent), "skewed"))
  BY DEF IsSkewed, Reply, Completed, Value
<1>6. AcceptsTicket(Accepts(Completed("Kerberos", [kind |-> "ap-rep", of |-> 1], Absent)))
  BY DEF AcceptsTicket, Accepts, Reply, Completed, Value, Kind
<1> QED BY <1>3, <1>4, <1>5, <1>6, StartOverSays

LEMMA ToRetry ==
    ASSUME server.honest, server.challenges, NEW c, NEW r \in Replies(c), out.kind = "ap-req", ~out.first, out.of = 2,
           Binds(out), server.chooses = "Kerberos", server.skewed, offered = "good"
    PROVE  Signs(r) \/ (StartsOver(r) /\ context[c] # "skewed")
<1>1. r \in HonestReplies(out, context[c]) BY DEF Replies
<1>2. \/ r = Reply(401, Completed("none", [kind |-> "ap-rep", of |-> 2], [kind |-> "kerberos", of |-> 2]), "signed")
      \/ r = StartOver /\ context[c] # "skewed"
  BY <1>1 DEF HonestReplies, Binds
<1>3. Signs(Reply(401, Completed("none", [kind |-> "ap-rep", of |-> 2], [kind |-> "kerberos", of |-> 2]), "signed"))
  BY DEF Signs, Reply, Completed, Value, Kind
<1> QED BY <1>2, <1>3, StartOverSays

LEMMA ToComplete ==
    ASSUME server.honest, server.challenges, NEW c, NEW r \in Replies(c), out.kind = "complete"
    PROVE  AcceptsSigned(r) \/ (StartsOver(r) /\ context[c] # "signed")
<1>1. r \in HonestReplies(out, context[c]) BY DEF Replies
<1>2. r \in {Accepts(NoValue), Accepts(Bare)} \/ (r = StartOver /\ context[c] # "signed") BY <1>1 DEF HonestReplies
<1>3. AcceptsSigned(Accepts(NoValue)) BY DEF AcceptsSigned, Accepts, NoValue, Reply, Value
<1>4. AcceptsSigned(Accepts(Bare)) BY DEF AcceptsSigned, Accepts, Bare, Reply, Value
<1> QED BY <1>2, <1>3, <1>4, StartOverSays

LEMMA BoundIs ==
    ASSUME NEW h \in Handshakes, NEW b, b = Bound(h)
    PROVE  /\ b \in Handshakes /\ (b.bound \/ ~server.binds)
           /\ b.scheme = h.scheme /\ b.state = h.state /\ b.mechanism = h.mechanism /\ b.negotiate = h.negotiate
           /\ b.signs = h.signs /\ b.side = h.side /\ b.sent = h.sent /\ b.proven = h.proven
<1>1. b.bound = (h.bound \/ server.binds) BY DEF Bound, Handshakes
<1>2. h.bound \in BOOLEAN BY DEF Handshakes
<1>3. b.bound \in BOOLEAN /\ (b.bound \/ ~server.binds) BY <1>1, <1>2
<1> QED BY <1>3 DEF Bound, Handshakes

(* What the client makes of each reply. *)
LEMMA MessageIs ==
    ASSUME NEW kind, NEW first, NEW of, NEW bound, NEW mic, NEW m, m = Message(kind, first, of, bound, mic)
    PROVE  m.kind = kind /\ m.first = first /\ m.of = of /\ m.bound = bound /\ m.mic = mic
BY DEF Message

LEMMA NtlmAnswersChallenge ==
    ASSUME NEW h \in Handshakes, h.state = "awaiting", h.mechanism = "Ntlm", h.bound \/ ~server.binds,
           h.scheme = client.scheme, NEW required, NEW token, token.kind = "challenge",
           NEW next, next = Authenticate(h, token, required)
    PROVE  next.ok /\ Authenticating(next.h, next.out, "challenged")
<1>1. next = Send([h EXCEPT !.state = "complete", !.signs = TRUE],
                  Message("ntlm-authenticate", FALSE, 0, h.bound,
                          IF h.scheme = "Negotiate" THEN [kind |-> "ntlm", of |-> 0] ELSE Absent))
  BY DEF Authenticate
<1>2. PICK m : m = next.out OBVIOUS
<1>3. /\ m.kind = "ntlm-authenticate" /\ m.bound = h.bound
      /\ m.mic = IF h.scheme = "Negotiate" THEN [kind |-> "ntlm", of |-> 0] ELSE Absent
  BY <1>1, <1>2 DEF Send, Message
<1>4. [kind |-> "ntlm", of |-> 0] # Absent /\ [kind |-> "ntlm", of |-> 0].kind = "ntlm" BY DEF Absent
<1>5. next.ok /\ next.h = [h EXCEPT !.state = "complete", !.signs = TRUE] BY <1>1 DEF Send
<1>6. h \in Handshakes /\ h.mechanism = "Ntlm" OBVIOUS
<1>7. next.h.state = "complete" /\ next.h.signs /\ next.h.mechanism = "Ntlm" BY <1>5, <1>6 DEF Handshakes
<1> QED BY <1>2, <1>3, <1>4, <1>5, <1>7 DEF Authenticating, Binds

(* A challenge is answered, by a handshake that is NTLM's or a server's choice of NTLM. *)
LEMMA ChallengeAnswered ==
    ASSUME NEW h \in Handshakes, h.state = "awaiting", h.mechanism = "Ntlm", h.negotiate, h.bound \/ ~server.binds,
           h.scheme = client.scheme, NEW r, Challenges(r), NEW next, next = Advance(h, r.value)
    PROVE  next.ok /\ Authenticating(next.h, next.out, r.next)
<1>1. PICK v : v = r.value OBVIOUS
<1>2. /\ v.form = "token" /\ v.state # "reject" /\ v.mech = "Ntlm" /\ v.token.kind = "challenge"
      /\ r.next = "challenged"
  BY <1>1 DEF Challenges
<1>3. CASE h.scheme = "NTLM"
  <2>1. next = Authenticate(h, v.token, FALSE) BY <1>1, <1>2, <1>3 DEF Advance
  <2> QED BY <1>2, <2>1, NtlmAnswersChallenge
<1>4. CASE h.scheme # "NTLM"
  <2>1. PICK k : k = [h EXCEPT !.mechanism = "Ntlm"] OBVIOUS
  <2>2. /\ k \in Handshakes /\ k.state = "awaiting" /\ k.mechanism = "Ntlm" /\ k.negotiate /\ k.bound = h.bound
        /\ k.scheme = client.scheme
    BY <2>1 DEF Handshakes, Mechanisms
  <2>3. next = NtlmAnswer(k, v)
    BY <1>1, <1>2, <1>4, <2>1 DEF Advance, Select
  <2>4. PICK required : next = Authenticate(k, v.token, required) BY <1>2, <2>2, <2>3 DEF NtlmAnswer
  <2> QED BY <1>2, <2>2, <2>4, NtlmAnswersChallenge
<1> QED BY <1>3, <1>4

LEMMA ChoiceAnswered ==
    ASSUME NEW h \in Handshakes, Offering(h, out, legs), NEW b, b = Bound(h), NEW r, ChoosesNtlm(r),
           NEW next, next = Advance(b, r.value)
    PROVE  next.ok /\ Chosen(next.h, next.out, r.next, 1)
<1>1. PICK v : v = r.value OBVIOUS
<1>2. v.form = "token" /\ v.state # "reject" /\ v.mech = "Ntlm" /\ r.next = "chosen" BY <1>1 DEF ChoosesNtlm
<1>3. /\ b \in Handshakes /\ b.scheme = "Negotiate" /\ b.state = "awaiting" /\ b.side /\ ~b.negotiate
  BY BoundIs DEF Offering
<1>4. PICK k : k = [b EXCEPT !.mechanism = "Ntlm"] OBVIOUS
<1>5. /\ k \in Handshakes /\ k.scheme = "Negotiate" /\ k.state = "awaiting" /\ k.side /\ ~k.negotiate
      /\ k.mechanism = "Ntlm"
  BY <1>3, <1>4 DEF Handshakes, Mechanisms
<1>6. next = NtlmAnswer(k, v) BY <1>1, <1>2, <1>3, <1>4 DEF Advance, Select
<1>7. next = Send([k EXCEPT !.negotiate = TRUE], Message("ntlm-negotiate", FALSE, 0, FALSE, Absent))
  BY <1>2, <1>5, <1>6 DEF NtlmAnswer
<1>8. next.ok /\ next.h = [k EXCEPT !.negotiate = TRUE] /\ next.out = Message("ntlm-negotiate", FALSE, 0, FALSE, Absent)
  BY <1>7 DEF Send
<1>9. /\ next.h.scheme = "Negotiate" /\ next.h.state = "awaiting" /\ next.h.side /\ next.h.negotiate
      /\ next.h.mechanism = "Ntlm"
  BY <1>5, <1>8 DEF Handshakes
<1>10. client.scheme = "Negotiate" BY DEF Offering
<1>11. PICK m : m = Message("ntlm-negotiate", FALSE, 0, FALSE, Absent) OBVIOUS
<1>12. m.kind = "ntlm-negotiate" /\ ~m.first BY <1>11 DEF Message
<1>13. next.out.kind = "ntlm-negotiate" /\ ~next.out.first BY <1>8, <1>11, <1>12
<1> QED BY <1>2, <1>8, <1>9, <1>13, <1>10 DEF Chosen

LEMMA SkewAnswered ==
    ASSUME NEW h \in Handshakes, Offering(h, out, legs), NEW b, b = Bound(h), NEW r, IsSkewed(r),
           server.chooses = "Kerberos", server.skewed, offered = "good", NEW next, next = Advance(b, r.value)
    PROVE  next.ok /\ Retrying(next.h, next.out, r.next, 1)
<1>1. PICK v : v = r.value OBVIOUS
<1>2. v.form = "token" /\ v.mech = "Kerberos" /\ v.token.kind = "skew" /\ r.next = "skewed" BY <1>1 DEF IsSkewed
<1>3. /\ b \in Handshakes /\ b.scheme = "Negotiate" /\ b.state = "awaiting" /\ b.side /\ b.sent = 1
      /\ (b.bound \/ ~server.binds)
  BY BoundIs DEF Offering
<1>4. PICK k : k = [b EXCEPT !.mechanism = "Kerberos"] OBVIOUS
<1>5. /\ k \in Handshakes /\ k.scheme = "Negotiate" /\ k.state = "awaiting" /\ k.side /\ k.sent = 1
      /\ k.mechanism = "Kerberos" /\ k.bound = b.bound
  BY <1>3, <1>4 DEF Handshakes, Mechanisms
<1>6. next = KerberosAnswer(k, v) BY <1>1, <1>2, <1>3, <1>4 DEF Advance, Select
<1>7. next = Send([k EXCEPT !.sent = 2], ApReq(k)) BY <1>2, <1>5, <1>6 DEF KerberosAnswer, Retries, Proves
<1>8. k.sent + 1 = 2 /\ k.sent # 0 BY <1>5
<1>9. ApReq(k) = Message("ap-req", k.sent = 0, k.sent + 1, k.bound, Absent) BY DEF ApReq
<1>10. (k.sent = 0) = FALSE BY <1>8
<1>11. ApReq(k) = Message("ap-req", FALSE, 2, k.bound, Absent) BY <1>8, <1>9, <1>10
<1>12. next.ok /\ next.h = [k EXCEPT !.sent = 2] /\ next.out = Message("ap-req", FALSE, 2, k.bound, Absent)
  BY <1>7, <1>11 DEF Send
<1>13. /\ next.h.scheme = "Negotiate" /\ next.h.state = "awaiting" /\ next.h.side /\ next.h.sent = 2
      /\ next.h.mechanism = "Kerberos"
  BY <1>5, <1>12 DEF Handshakes
<1>14. next.out.kind = "ap-req" /\ ~next.out.first /\ next.out.of = 2 /\ next.out.bound = b.bound
  BY <1>5, <1>12 DEF Message
<1> QED BY <1>2, <1>3, <1>12, <1>13, <1>14 DEF Retrying, Binds

LEMMA SignatureAnswered ==
    ASSUME NEW h \in Handshakes, NEW m, NEW at, NEW n, Retrying(h, m, at, n), NEW b, b = Bound(h), NEW r, Signs(r),
           NEW next, next = Advance(b, r.value)
    PROVE  next.ok /\ Completing(next.h, next.out, r.next)
<1>1. PICK v : v = r.value OBVIOUS
<1>2. /\ v.form = "token" /\ v.mech = "none" /\ v.token = Kind("ap-rep", 2) /\ v.mic = Kind("kerberos", 2)
      /\ r.next = "signed"
  BY <1>1 DEF Signs
<1>3. /\ b \in Handshakes /\ b.scheme = "Negotiate" /\ b.state = "awaiting" /\ b.side /\ b.sent = 2
      /\ b.mechanism = "Kerberos"
  BY BoundIs DEF Retrying
<1>4. PICK k : k = [b EXCEPT !.mechanism = "Kerberos"] OBVIOUS
<1>5. /\ k \in Handshakes /\ k.state = "awaiting" /\ k.side /\ k.sent = 2 /\ k.mechanism = "Kerberos"
  BY <1>3, <1>4 DEF Handshakes, Mechanisms
<1>6. next = KerberosAnswer(k, v) BY <1>1, <1>2, <1>3, <1>4 DEF Advance, Select
<1>7. v.token.kind = "ap-rep" /\ v.token.of = 2 /\ v.mic.kind = "kerberos" /\ v.mic.of = 2 /\ v.mic # Absent
  BY <1>2 DEF Kind, Absent
<1>8. next = Send([k EXCEPT !.proven = TRUE, !.state = "complete"],
                  Message("complete", FALSE, k.sent, FALSE, [kind |-> "kerberos", of |-> k.sent]))
  BY <1>5, <1>6, <1>7 DEF KerberosAnswer, Retries, Proves, Verifies
<1>9. /\ next.ok /\ next.h = [k EXCEPT !.proven = TRUE, !.state = "complete"]
      /\ next.out.kind = "complete"
  BY <1>8 DEF Send, Message
<1>10. next.h.state = "complete" /\ next.h.side /\ next.h.mechanism = "Kerberos" /\ next.h.proven
  BY <1>5, <1>9 DEF Handshakes
<1> QED BY <1>2, <1>9, <1>10 DEF Completing

(* The last token of a success checks out. *)
LEMMA TicketFinishes ==
    ASSUME NEW h, NEW m, NEW n, Offering(h, m, n), NEW r, AcceptsTicket(r)
    PROVE  Finish(h, r.value).ok
<1>1. PICK v : v = r.value OBVIOUS
<1>2. /\ v.form = "token" /\ v.state # "reject" /\ v.mech = "Kerberos"
      /\ v.token.kind = "ap-rep" /\ v.token.of = 1 /\ v.mic = Absent
  BY <1>1 DEF AcceptsTicket, Kind
<1>3. Finish(h, v) = KerberosFinish(h, v) BY DEF Finish, Offering
<1> QED BY <1>1, <1>2, <1>3 DEF Offering, KerberosFinish, Select, Proves, Send

LEMMA NtlmFinishes ==
    ASSUME NEW h, NEW at, Authenticating(h, out, at), NEW r, AcceptsNtlm(r)
    PROVE  Finish(h, r.value).ok
<1>1. PICK v : v = r.value OBVIOUS
<1>2. v.form = "absent" \/ (v.form = "token" /\ v.state # "reject" /\ (v.mic = Absent \/ v.mic = out.mic))
  BY <1>1 DEF AcceptsNtlm
<1>3. v.form = "absent" \/ (v.form = "token" /\ v.state # "reject" /\ (v.mic # Absent => v.mic.kind = "ntlm"))
  BY <1>2 DEF Authenticating
<1> QED BY <1>1, <1>3 DEF Authenticating, Finish, Send

LEMMA SignedFinishes ==
    ASSUME NEW h, NEW m, NEW at, Completing(h, m, at), NEW r, AcceptsSigned(r)
    PROVE  Finish(h, r.value).ok
<1>1. PICK v : v = r.value OBVIOUS
<1>2. v.form \in {"absent", "bare"} /\ v.mic = Absent BY <1>1 DEF AcceptsSigned
<1>3. Finish(h, v) = KerberosFinish(h, v) BY DEF Finish, Completing
<1> QED BY <1>1, <1>2, <1>3 DEF Completing, KerberosFinish, Send

(* Every step keeps the types. *)
LEMMA GetsInit == Init => GetsInv
<1> SUFFICES ASSUME Init PROVE GetsInv OBVIOUS
<1>1. 1 \in 1..MaxAttempts BY BoundsAssumption
<1>2. GetsTypes BY <1>1 DEF Init, GetsTypes
<1>3. GetsIn BY DEF Init, GetsIn, Forgetting, GoodCredentialGetsIn
<1> QED BY <1>2, <1>3 DEF GetsInv

LEMMA AnswerTypes ==
    ASSUME GetsTypes, NEW value, Answer(value), outcome = "none"
    PROVE  /\ ticket' \in {"none", "good", "stale"}
           /\ outcome' # "none" => pc' = "done"
           /\ pc' # "first"
<1>1. CASE Refused BY <1>1 DEF Refused, Ends, GetsTypes
<1>2. CASE pc' = "leg" /\ UNCHANGED <<outcome, ticket>> BY <1>2 DEF GetsTypes
<1> QED BY <1>1, <1>2 DEF Answer

LEMMA TypesNext == ASSUME ReportInv, GetsTypes, [Next]_vars PROVE GetsTypes'
<1>0. ASSUME NEW c, NEW reply, NEW body, Serves(c, reply, body)
      PROVE  DOMAIN context' = Connections
  BY <1>0 DEF Serves, GetsTypes
<1>1. CASE Begin
  BY <1>1 DEF Begin, GetsTypes
<1>2. CASE First
  <2>0. PICK c \in Connections : \E reply \in Replies(c) :
          Serves(c, reply, client.search) /\ FirstReply(c, reply)
    BY <1>2 DEF First
  <2>1. PICK reply \in Replies(c) : Serves(c, reply, client.search) /\ FirstReply(c, reply)
    BY <2>0
  <2>2. pc = "first" /\ offered = "none" /\ outcome = "none" /\ UNCHANGED attempt /\ DOMAIN context' = Connections
    BY <1>0, <1>2, <2>1 DEF First, GetsTypes
  <2>3. CASE reply.status # 401
    BY <2>1, <2>2, <2>3 DEF FirstReply, Ends, negotiation, GetsTypes
  <2>4. ASSUME NEW held \in {"good", "stale"}, Offer(c, held) PROVE GetsTypes'
    BY <2>2, <2>4 DEF Offer, GetsTypes
  <2>5. CASE Unchosen
    BY <2>2, <2>5 DEF Unchosen, Ends, negotiation, GetsTypes
  <2>6. CASE Fallback
    BY <2>2, <2>6 DEF Fallback, GetsTypes
  <2>7. CASE Choose(c, reply.value)
    <3>1. account.kdc \in {"serves", "unavailable", "refuses"}
      BY SetupAssumption DEF ReportInv, account, Account
    <3>2. CASE reply.value.form # "absent" /\ ticket # "none" /\ Offer(c, ticket)
      <4>1. ticket \in {"good", "stale"} BY <3>2 DEF GetsTypes
      <4> QED BY <2>4, <3>2, <4>1
    <3> QED BY <2>4, <2>5, <2>6, <2>7, <3>1, <3>2 DEF Choose
  <2>8. CASE Respond(c, reply.value)
    BY <2>2, <2>8, AnswerTypes DEF Respond, GetsTypes
  <2> QED BY <2>1, <2>3, <2>7, <2>8 DEF FirstReply
<1>3. CASE Plain
  <2>1. DOMAIN context' = Connections BY <1>0, <1>3 DEF Plain
  <2> QED BY <1>3, <2>1 DEF Plain, Ends, negotiation, GetsTypes
<1>4. CASE Leg
  <2>0. PICK c \in Connections : \E reply \in Replies(c) : Serves(c, reply, TRUE) /\ LegReply(c, reply)
    BY <1>4 DEF Leg
  <2>1. PICK reply \in Replies(c) : Serves(c, reply, TRUE) /\ LegReply(c, reply)
    BY <2>0
  <2>2. pc = "leg" /\ outcome = "none" /\ UNCHANGED offered /\ DOMAIN context' = Connections
    BY <1>0, <1>4, <2>1 DEF Leg, GetsTypes
  <2>3. CASE FinishLeg(reply.value)
    <3>1. CASE Refused /\ UNCHANGED attempt
      BY <2>2, <3>1 DEF Refused, Ends, GetsTypes
    <3>2. CASE Ends("answered") /\ UNCHANGED <<attempt, ticket>>
      BY <2>2, <3>2 DEF Ends, GetsTypes
    <3> QED BY <2>3, <3>1, <3>2 DEF FinishLeg, Finished
  <2>4. CASE Moved(c) /\ StartAgain
    <3>1. attempt + 1 \in 1..MaxAttempts BY <2>4, BoundsAssumption DEF Moved, GetsTypes
    <3> QED BY <2>2, <2>4, <3>1 DEF StartAgain, GetsTypes
  <2>5. CASE Refused /\ UNCHANGED attempt
    BY <2>2, <2>5 DEF Refused, Ends, GetsTypes
  <2>6. CASE Answer(reply.value) /\ UNCHANGED attempt
    BY <2>2, <2>6, AnswerTypes DEF GetsTypes
  <2> QED BY <2>1, <2>3, <2>4, <2>5, <2>6 DEF LegReply
<1>5. CASE Lost
  BY <1>5 DEF Lost, Ends, negotiation, serverVars, GetsTypes
<1>6. CASE Again
  <2>1. 1 \in 1..MaxAttempts BY BoundsAssumption
  <2> QED BY <1>6, <2>1 DEF Again, negotiation, GetsTypes
<1>7. CASE UNCHANGED vars
  BY <1>7 DEF vars, negotiation, serverVars, GetsTypes
<1> QED BY <1>1, <1>2, <1>3, <1>4, <1>5, <1>6, <1>7 DEF Next, Handshaking, Over

(* The first message that is NTLM's. *)
LEMMA NtlmInitial ==
    ASSUME NEW h, h \in Handshakes, h.state = "ready", ~h.side
    PROVE  /\ Initial(h).h.scheme = h.scheme /\ Initial(h).h.state = "awaiting" /\ Initial(h).h.mechanism = "Ntlm"
           /\ Initial(h).h.negotiate /\ ~Initial(h).h.side
           /\ Initial(h).out.kind = "ntlm-negotiate" /\ Initial(h).out.first
<1>1. Initial(h).h = [h EXCEPT !.state = "awaiting", !.mechanism = "Ntlm", !.negotiate = TRUE]
  BY DEF Initial, Send
<1>2. Initial(h).out = Message("ntlm-negotiate", TRUE, 0, FALSE, Absent) BY DEF Initial, Send
<1>3. PICK m : m = Message("ntlm-negotiate", TRUE, 0, FALSE, Absent) OBVIOUS
<1>4. m.kind = "ntlm-negotiate" /\ m.first BY <1>3 DEF Message
<1>5. Initial(h).out.kind = "ntlm-negotiate" /\ Initial(h).out.first BY <1>2, <1>3, <1>4
<1>6. h \in Handshakes /\ ~h.side OBVIOUS
<1>7. /\ Initial(h).h.scheme = h.scheme /\ Initial(h).h.state = "awaiting" /\ Initial(h).h.mechanism = "Ntlm"
      /\ Initial(h).h.negotiate /\ ~Initial(h).h.side
  BY <1>1, <1>6 DEF Handshakes
<1> QED BY <1>5, <1>7

LEMMA NtlmOpens ==
    ASSUME NEW scheme \in {"NTLM", "Negotiate"}, NEW h, h = NewHandshake(scheme, FALSE)
    PROVE  h \in Handshakes /\ h.scheme = scheme /\ h.state = "ready" /\ ~h.side
BY FreshSound DEF Sound, NewHandshake

(* The first message that is a ticket's. *)
LEMMA TicketInitial ==
    ASSUME NEW h, h \in Handshakes, h.scheme = "Negotiate", h.state = "ready", h.side, h.mechanism = "none",
           h.sent = 0, ~h.negotiate, h.bound \/ ~server.binds
    PROVE  /\ Initial(h).h.scheme = "Negotiate" /\ Initial(h).h.state = "awaiting" /\ Initial(h).h.side
           /\ Initial(h).h.mechanism = "none" /\ Initial(h).h.sent = 1 /\ ~Initial(h).h.negotiate
           /\ Initial(h).out.kind = "ap-req" /\ Initial(h).out.first /\ Initial(h).out.of = 1
           /\ Binds(Initial(h).out)
<1>1. Initial(h).h = [h EXCEPT !.state = "awaiting", !.sent = 1] BY DEF Initial, Send
<1>2. Initial(h).out = ApReq(h) BY DEF Initial, Send
<1>3. ApReq(h) = Message("ap-req", TRUE, 1, h.bound, Absent)
  <2>1. ApReq(h) = Message("ap-req", h.sent = 0, h.sent + 1, h.bound, Absent) BY DEF ApReq
  <2>2. h.sent + 1 = 1 OBVIOUS
  <2>3. (h.sent = 0) = TRUE OBVIOUS
  <2> QED BY <2>1, <2>2, <2>3
<1>4. PICK m : m = Message("ap-req", TRUE, 1, h.bound, Absent) OBVIOUS
<1>5. m.kind = "ap-req" /\ m.first /\ m.of = 1 /\ m.bound = h.bound BY <1>4 DEF Message
<1>6. Initial(h).out = m BY <1>2, <1>3, <1>4
<1>7. /\ Initial(h).out.kind = "ap-req" /\ Initial(h).out.first /\ Initial(h).out.of = 1
      /\ Initial(h).out.bound = h.bound
  BY <1>5, <1>6
<1>8. Binds(Initial(h).out) BY <1>7 DEF Binds
<1>9. /\ h \in Handshakes /\ h.scheme = "Negotiate" /\ h.side /\ h.mechanism = "none" /\ ~h.negotiate
  OBVIOUS
<1>10. /\ Initial(h).h.scheme = "Negotiate" /\ Initial(h).h.state = "awaiting" /\ Initial(h).h.side
       /\ Initial(h).h.mechanism = "none" /\ Initial(h).h.sent = 1 /\ ~Initial(h).h.negotiate
  BY <1>1, <1>9 DEF Handshakes
<1> QED BY <1>7, <1>8, <1>10

LEMMA TicketOpens ==
    ASSUME NEW f, f = NewHandshake("Negotiate", TRUE)
    PROVE  /\ f \in Handshakes /\ f.scheme = "Negotiate" /\ f.state = "ready" /\ f.side /\ f.mechanism = "none"
           /\ f.sent = 0 /\ ~f.negotiate
BY FreshSound DEF Sound, NewHandshake

(* How a step of a leg keeps what a good credential comes to. *)
LEMMA ContextIs ==
    ASSUME GetsTypes, NEW c \in Connections, NEW reply, NEW body, Serves(c, reply, body)
    PROVE  context'[c] = reply.next
BY DEF GetsTypes, Serves

(* The next leg is the right answer to the reply. *)
LEMMA NextLeg ==
    ASSUME GetsIn, GetsTypes, outcome = "none", pc' = "leg", UNCHANGED <<setup, offered, pending, ticket, refusedBefore>>,
           outcome' = "none", ~pending, server.challenges,
           NEW c \in Connections, answered' = c, pc \in {"first", "leg"},
           Stands(handshake, out, context[answered], legs)'
    PROVE  GetsIn'
<1>1. server'.challenges BY DEF server
<1>2. Forgetting' BY DEF GetsIn, Forgetting, client
<1>3. GoodCredentialGetsIn' BY DEF GoodCredentialGetsIn
<1> QED BY <1>1, <1>2, <1>3 DEF GetsIn

(* It is answered. *)
LEMMA Answers ==
    ASSUME GetsIn, outcome' = "answered", pc' = "done", UNCHANGED <<setup, ticket, offered, pending, refusedBefore>>,
           pc # "begin"
    PROVE  GetsIn'
BY DEF GetsIn, Forgetting, GoodCredentialGetsIn, client

(* The pool moved it, and it starts over. *)
LEMMA Restarts ==
    ASSUME GetsIn, StartAgain, outcome = "none", UNCHANGED <<setup, offered, refusedBefore>>, pc # "begin"
    PROVE  GetsIn'
BY DEF StartAgain, GetsIn, Forgetting, GoodCredentialGetsIn, client

(* It is refused for one of the two reasons there are. *)
LEMMA Refuses ==
    ASSUME GetsIn, Refused, attempt' = MaxAttempts \/ (offered = "stale" /\ client.scheme = "Negotiate"),
           pc = "leg", ~pending, UNCHANGED <<setup, offered, refusedBefore>>
    PROVE  GetsIn'
<1>1. client.scheme = "Negotiate" =>
        /\ offered = "none" => ticket = "none"
        /\ refusedBefore => ticket # "stale" /\ offered # "stale"
  BY DEF GetsIn, Forgetting
<1>2. pc' = "done" /\ outcome' = "refused" /\ ticket' = IF offered # "none" THEN "none" ELSE ticket
  BY DEF Refused, Ends
<1>3. Forgetting' BY <1>1, <1>2 DEF Forgetting, client
<1>4. GoodCredentialGetsIn' BY <1>1, <1>2 DEF GoodCredentialGetsIn
<1> QED BY <1>2, <1>3, <1>4 DEF GetsIn

LEMMA StandsStays ==
    ASSUME UNCHANGED <<setup, offered>>, NEW h, NEW m, NEW at, NEW n, Stands(h, m, at, n),
           handshake' = h, out' = m, (context[answered])' = at, legs' = n
    PROVE  Stands(handshake, out, context[answered], legs)'
<1>1. UNCHANGED <<setup, offered>> OBVIOUS
<1>2. CASE Authenticating(h, m, at)
  BY <1>1, <1>2 DEF Stands, Authenticating, Binds, client, server
<1>3. CASE Offering(h, m, n)
  BY <1>1, <1>3 DEF Stands, Offering, Binds, client, server
<1>4. CASE Retrying(h, m, at, n)
  BY <1>1, <1>4 DEF Stands, Retrying, Binds, client, server
<1>5. CASE Chosen(h, m, at, n)
  BY <1>1, <1>5 DEF Stands, Chosen, Binds, client, server
<1>6. CASE Completing(h, m, at)
  BY <1>1, <1>6 DEF Stands, Completing, Binds, client, server
<1> QED BY <1>2, <1>3, <1>4, <1>5, <1>6 DEF Stands

(* A bare challenge is no answer to anything. *)
LEMMA BareRefused == ASSUME NEW r, StartsOver(r), NEW h PROVE ~Advance(h, r.value).ok
BY DEF StartsOver, Advance, Refuse

LEMMA LegGets ==
    ASSUME ReportInv, GetsTypes, GetsIn, Good, pc = "leg", MaxLegs > 1,
           NEW c \in Connections, NEW reply \in Replies(c), Serves(c, reply, TRUE), LegReply(c, reply),
           UNCHANGED <<setup, pending, offered, refusedBefore>>
    PROVE  GetsIn'
<1>0. /\ outcome = "none" /\ answered \in Connections /\ server.challenges /\ ~pending /\ server.honest
      /\ Stands(handshake, out, context[answered], legs)
      /\ handshake \in Handshakes /\ setup \in Setups /\ answered # None
  BY BoundsAssumption DEF GetsTypes, GetsIn, Good, ReportInv, Sound
<1>a. context'[c] = reply.next BY ContextIs
<1>1. ASSUME reply.status # 401, Finish(handshake, reply.value).ok
      PROVE  GetsIn'
  <2>1. Ends("answered") /\ UNCHANGED ticket BY <1>1 DEF LegReply, FinishLeg, Finished
  <2> QED BY <2>1, Answers DEF Ends
<1>2. ASSUME reply.status = 401, Moved(c)
      PROVE  GetsIn'
  BY <1>0, <1>2, Restarts DEF LegReply
<1>3. ASSUME StartsOver(reply), c # answered \/ (offered = "stale" /\ client.scheme = "Negotiate")
      PROVE  GetsIn'
  <2>1. reply.status = 401 BY <1>3 DEF StartsOver
  <2>2. CASE ~Moved(c)
    <3>1. Refused /\ UNCHANGED attempt
      BY <1>3, <2>1, <2>2, BareRefused DEF LegReply, Answer
    <3>2. c # answered => attempt = MaxAttempts
      BY <1>0, <2>2, BoundsAssumption DEF Moved, GetsTypes
    <3> QED BY <1>0, <1>3, <3>1, <3>2, Refuses
  <2> QED BY <1>2, <2>1, <2>2
<1>4. ASSUME reply.status = 401, handshake.state = "awaiting", legs # MaxLegs,
             NEW next, next = Advance(Bound(handshake), reply.value), next.ok,
             Stands(next.h, next.out, reply.next, legs + 1)
      PROVE  GetsIn'
  <2>1. CASE ~Moved(c)
    <3>1. /\ answered' = c /\ legs' = legs + 1 /\ Answer(reply.value)
      BY <1>4, <2>1 DEF LegReply
    <3>2. handshake' = next.h /\ out' = next.out /\ pc' = "leg" /\ UNCHANGED <<outcome, ticket>>
      BY <1>4, <3>1 DEF Answer
    <3>3. (context[answered])' = reply.next BY <1>a, <3>1
    <3>4. Stands(handshake, out, context[answered], legs)'
      BY <1>4, <3>1, <3>2, <3>3, StandsStays
    <3> QED BY <1>0, <3>1, <3>2, <3>4, NextLeg
  <2> QED BY <1>2, <1>4, <2>1
<1>5. CASE Authenticating(handshake, out, context[answered])
  <2>1. AcceptsNtlm(reply) \/ (StartsOver(reply) /\ context[c] # "challenged")
    BY <1>0, <1>5, ToAuthenticate DEF Authenticating
  <2>2. CASE AcceptsNtlm(reply)
    BY <1>1, <1>5, <2>2, NtlmFinishes DEF AcceptsNtlm
  <2>3. CASE StartsOver(reply) /\ context[c] # "challenged"
    BY <1>3, <1>5, <2>3 DEF Authenticating
  <2> QED BY <2>1, <2>2, <2>3
<1>6. CASE Offering(handshake, out, legs)
  <2>1. \/ ChoosesNtlm(reply)
        \/ IsSkewed(reply) /\ server.chooses = "Kerberos" /\ server.skewed /\ offered = "good"
        \/ AcceptsTicket(reply)
        \/ StartsOver(reply) /\ offered = "stale"
    BY <1>0, <1>6, ToTicket DEF Offering
  <2>2. legs # MaxLegs /\ legs + 1 = 1 /\ handshake.state = "awaiting" /\ client.scheme = "Negotiate"
    BY <1>6 DEF Offering
  <2>3. PICK next : next = Advance(Bound(handshake), reply.value) OBVIOUS
  <2>4. CASE ChoosesNtlm(reply)
    <3>1. next.ok /\ Chosen(next.h, next.out, reply.next, 1) BY <1>0, <1>6, <2>3, <2>4, ChoiceAnswered
    <3>2. Stands(next.h, next.out, reply.next, 1) BY <3>1 DEF Stands
    <3> QED BY <1>4, <2>2, <2>3, <2>4, <3>1, <3>2 DEF ChoosesNtlm
  <2>5. CASE IsSkewed(reply) /\ server.chooses = "Kerberos" /\ server.skewed /\ offered = "good"
    <3>1. next.ok /\ Retrying(next.h, next.out, reply.next, 1) BY <1>0, <1>6, <2>3, <2>5, SkewAnswered
    <3>2. Stands(next.h, next.out, reply.next, 1) BY <3>1 DEF Stands
    <3> QED BY <1>4, <2>2, <2>3, <2>5, <3>1, <3>2 DEF IsSkewed
  <2>6. CASE AcceptsTicket(reply)
    BY <1>1, <1>6, <2>6, TicketFinishes DEF AcceptsTicket
  <2>7. CASE StartsOver(reply) /\ offered = "stale"
    BY <1>3, <2>2, <2>7
  <2> QED BY <2>1, <2>4, <2>5, <2>6, <2>7
<1>7. CASE Retrying(handshake, out, context[answered], legs)
  <2>1. Signs(reply) \/ (StartsOver(reply) /\ context[c] # "skewed")
    BY <1>0, <1>7, ToRetry DEF Retrying
  <2>2. legs # MaxLegs /\ legs + 1 = 2 /\ handshake.state = "awaiting" /\ context[answered] = "skewed"
    BY <1>7 DEF Retrying
  <2>3. CASE Signs(reply)
    <3>1. PICK next : next = Advance(Bound(handshake), reply.value) OBVIOUS
    <3>2. next.ok /\ Completing(next.h, next.out, reply.next) BY <1>0, <1>7, <2>3, <3>1, SignatureAnswered
    <3>3. Stands(next.h, next.out, reply.next, 2) BY <3>2 DEF Stands
    <3> QED BY <1>4, <2>2, <2>3, <3>1, <3>2, <3>3 DEF Signs
  <2>4. CASE StartsOver(reply) /\ context[c] # "skewed"
    BY <1>3, <2>2, <2>4
  <2> QED BY <2>1, <2>3, <2>4
<1>8. CASE Chosen(handshake, out, context[answered], legs)
  <2>1. Challenges(reply) \/ (StartsOver(reply) /\ ~out.first /\ context[c] # "chosen")
    BY <1>0, <1>8, ToNegotiate DEF Chosen
  <2>2. legs # MaxLegs /\ legs + 1 = 2 /\ handshake.state = "awaiting" /\ context[answered] = "chosen"
    BY <1>8 DEF Chosen
  <2>3. CASE Challenges(reply)
    <3>1. PICK b : b = Bound(handshake) OBVIOUS
    <3>2. /\ b \in Handshakes /\ b.state = "awaiting" /\ b.mechanism = "Ntlm" /\ b.negotiate
          /\ (b.bound \/ ~server.binds) /\ b.scheme = client.scheme
      BY <1>0, <1>8, <3>1, BoundIs DEF Chosen
    <3>3. PICK next : next = Advance(b, reply.value) OBVIOUS
    <3>4. next.ok /\ Authenticating(next.h, next.out, reply.next) BY <2>3, <3>2, <3>3, ChallengeAnswered
    <3>5. Stands(next.h, next.out, reply.next, 2) BY <3>4 DEF Stands
    <3> QED BY <1>4, <2>2, <2>3, <3>1, <3>3, <3>4, <3>5 DEF Challenges
  <2>4. CASE StartsOver(reply) /\ context[c] # "chosen"
    BY <1>3, <2>2, <2>4
  <2> QED BY <2>1, <2>3, <2>4
<1>9. CASE Completing(handshake, out, context[answered])
  <2>1. AcceptsSigned(reply) \/ (StartsOver(reply) /\ context[c] # "signed")
    BY <1>0, <1>9, ToComplete DEF Completing
  <2>2. CASE AcceptsSigned(reply)
    BY <1>1, <1>9, <2>2, SignedFinishes DEF AcceptsSigned
  <2>3. CASE StartsOver(reply) /\ context[c] # "signed"
    BY <1>3, <1>9, <2>3 DEF Completing
  <2> QED BY <2>1, <2>2, <2>3
<1> QED BY <1>0, <1>5, <1>6, <1>7, <1>8, <1>9 DEF Stands

LEMMA OfferGets ==
    ASSUME GetsTypes, GetsIn, pc = "first", pending, server.challenges,
           NEW c \in Connections, NEW held \in {"good", "stale"}, Offer(c, held), refusedBefore => held # "stale",
           UNCHANGED <<setup, refusedBefore>>
    PROVE  GetsIn'
<1>1. PICK f : f = NewHandshake("Negotiate", TRUE) OBVIOUS
<1>2. PICK h : h = Bound(f) OBVIOUS
<1>0. /\ f \in Handshakes /\ f.scheme = "Negotiate" /\ f.state = "ready" /\ f.side /\ f.mechanism = "none"
      /\ f.sent = 0 /\ ~f.negotiate
  BY <1>1, TicketOpens
<1>3. /\ h \in Handshakes /\ h.scheme = "Negotiate" /\ h.state = "ready" /\ h.side /\ h.mechanism = "none"
      /\ h.sent = 0 /\ ~h.negotiate /\ (h.bound \/ ~server.binds)
  BY <1>0, <1>2, BoundIs
<1>4. /\ handshake' = Initial(h).h /\ out' = Initial(h).out
      /\ pending' = FALSE /\ offered' = held /\ ticket' = held /\ answered' = c /\ legs' = 0 /\ pc' = "leg"
      /\ UNCHANGED <<setup, outcome, refusedBefore>>
  BY <1>1, <1>2 DEF Offer
<1>5. /\ handshake'.scheme = "Negotiate" /\ handshake'.state = "awaiting" /\ handshake'.side
      /\ handshake'.mechanism = "none" /\ handshake'.sent = 1 /\ ~handshake'.negotiate
      /\ out'.kind = "ap-req" /\ out'.first /\ out'.of = 1 /\ Binds(out')
  BY <1>3, <1>4, TicketInitial
<1>6. client.scheme = "Negotiate" BY DEF GetsIn, AtFirst
<1>7. Offering(handshake, out, legs)' BY <1>4, <1>5, <1>6 DEF Offering, Binds, client, server
<1>8. outcome = "none" BY DEF GetsTypes
<1>9. Forgetting' BY <1>4, <1>8 DEF Forgetting
<1>10. GoodCredentialGetsIn' BY <1>4, <1>8 DEF GoodCredentialGetsIn
<1> QED BY <1>4, <1>7, <1>9, <1>10 DEF GetsIn, Stands, server

LEMMA FallbackGets ==
    ASSUME GetsTypes, GetsIn, pc = "first", pending, ticket = "none", Fallback, UNCHANGED <<setup, refusedBefore>>
    PROVE  GetsIn'
<1>1. client.scheme = "Negotiate" /\ handshake = NewHandshake("Negotiate", FALSE) BY DEF GetsIn, AtFirst
<1>2. /\ handshake \in Handshakes /\ handshake.scheme = "Negotiate" /\ handshake.state = "ready"
      /\ ~handshake.side
  BY <1>1, NtlmOpens
<1>3. /\ handshake' = Initial(handshake).h /\ out' = Initial(handshake).out /\ pending' = FALSE /\ pc' = "first"
      /\ UNCHANGED <<setup, offered, ticket, outcome, refusedBefore>>
  BY DEF Fallback
<1>4. /\ handshake'.scheme = "Negotiate" /\ handshake'.state = "awaiting" /\ handshake'.mechanism = "Ntlm"
      /\ handshake'.negotiate /\ ~handshake'.side /\ out'.kind = "ntlm-negotiate" /\ out'.first
  BY <1>2, <1>3, NtlmInitial
<1>5. AtFirst(handshake, out)' BY <1>1, <1>3, <1>4 DEF AtFirst, client
<1>6. outcome = "none" /\ offered = "none" BY DEF GetsTypes
<1>7. Forgetting' BY <1>3, <1>6 DEF GetsIn, Forgetting
<1>8. GoodCredentialGetsIn' BY <1>3, <1>6 DEF GoodCredentialGetsIn
<1> QED BY <1>3, <1>5, <1>7, <1>8 DEF GetsIn

LEMMA FirstGets ==
    ASSUME ReportInv, GetsTypes, GetsIn, Good, pc = "first",
           NEW c \in Connections, NEW reply \in Replies(c), Serves(c, reply, client.search), FirstReply(c, reply),
           UNCHANGED <<setup, refusedBefore>>
    PROVE  GetsIn'
<1>0. /\ outcome = "none" /\ offered = "none" /\ AtFirst(handshake, out) /\ server.honest
      /\ handshake \in Handshakes /\ setup \in Setups
  BY DEF GetsTypes, GetsIn, Good, ReportInv, Sound
<1>a. context'[c] = reply.next BY ContextIs
<1>1. CASE ~server.challenges
  <2>1. reply \in HonestReplies(out, context[c]) BY <1>0 DEF Replies
  <2>2. reply.status = 200 BY <1>1, <2>1 DEF HonestReplies, Reply
  <2>3. /\ outcome' \in {"none", "answered"} /\ pc' \in {"done", "plain"}
        /\ UNCHANGED <<setup, ticket, offered, pending, refusedBefore>>
    BY <1>0, <2>2 DEF FirstReply, Ends, negotiation
  <2>4. Forgetting' BY <2>3 DEF GetsIn, Forgetting, client
  <2>5. GoodCredentialGetsIn' BY <2>3 DEF GoodCredentialGetsIn
  <2> QED BY <1>1, <2>3, <2>4, <2>5 DEF GetsIn, server
<1>2. CASE server.challenges /\ pending
  <2>1. StartsOver(reply)
    <3>1. out.kind = "none"
      <4>1. out = NoMessage BY <1>0, <1>2 DEF AtFirst
      <4> QED BY <4>1 DEF NoMessage, Message
    <3> QED BY <1>0, <1>2, <3>1, ToNothing
  <2>2. Choose(c, reply.value) /\ reply.value.form # "absent"
    BY <1>2, <2>1 DEF FirstReply, StartsOver
  <2>3. account.kdc \in {"serves", "unavailable"}
    BY <1>0, SetupAssumption DEF Good, account, Account
  <2>4. refusedBefore => ticket # "stale" BY <1>0, <1>2 DEF GetsIn, Forgetting, AtFirst
  <2>5. CASE ticket # "none"
    <3>1. Offer(c, ticket) /\ ticket \in {"good", "stale"} BY <2>2, <2>5 DEF Choose, GetsTypes
    <3> QED BY <1>2, <2>4, <3>1, OfferGets
  <2>6. CASE ticket = "none"
    <3>1. Offer(c, "good") \/ Fallback BY <2>2, <2>3, <2>6 DEF Choose
    <3> QED BY <1>2, <2>6, <3>1, OfferGets, FallbackGets
  <2> QED BY <2>5, <2>6
<1>3. CASE server.challenges /\ ~pending
  <2>1. /\ handshake.scheme = client.scheme /\ handshake.state = "awaiting" /\ handshake.mechanism = "Ntlm"
        /\ handshake.negotiate /\ out.kind = "ntlm-negotiate" /\ out.first
    BY <1>0, <1>3 DEF AtFirst
  <2>2. Challenges(reply) BY <1>0, <1>3, <2>1, ToNegotiate
  <2>3. Respond(c, reply.value) BY <1>3, <2>2 DEF FirstReply, Challenges
  <2>4. PICK b : b = Bound(handshake) OBVIOUS
  <2>5. /\ b \in Handshakes /\ b.state = "awaiting" /\ b.mechanism = "Ntlm" /\ b.negotiate
        /\ (b.bound \/ ~server.binds) /\ b.scheme = client.scheme
    BY <1>0, <2>1, <2>4, BoundIs
  <2>6. PICK next : next = Advance(b, reply.value) OBVIOUS
  <2>7. next.ok /\ Authenticating(next.h, next.out, reply.next) BY <2>2, <2>5, <2>6, ChallengeAnswered
  <2>8. /\ handshake' = next.h /\ out' = next.out /\ pc' = "leg" /\ answered' = c /\ legs' = 0
        /\ UNCHANGED <<outcome, ticket, pending, offered>>
    BY <2>3, <2>4, <2>6, <2>7 DEF Respond, Answer
  <2>9. Stands(next.h, next.out, reply.next, 0) BY <2>7 DEF Stands
  <2>10. (context[answered])' = reply.next BY <1>a, <2>8
  <2>11. Stands(handshake, out, context[answered], legs)' BY <2>8, <2>9, <2>10, StandsStays
  <2> QED BY <1>0, <1>3, <2>8, <2>11, NextLeg
<1> QED BY <1>1, <1>2, <1>3

LEMMA BeginGets ==
    ASSUME ReportInv, GetsTypes, GetsIn, Begin
    PROVE  GetsIn'
<1>1. PICK fresh : fresh = NewHandshake(client.scheme, FALSE) OBVIOUS
<1>2. /\ pending' = Pends /\ offered' = "none" /\ pc = "begin" /\ pc' = "first"
      /\ UNCHANGED <<setup, ticket, outcome, refusedBefore>>
  BY DEF Begin
<1>3. outcome = "none" BY <1>2 DEF GetsTypes
<1>4. client.scheme \in {"NTLM", "Negotiate"} BY SchemeType DEF ReportInv
<1>5. CASE Pends
  <2>1. handshake' = fresh /\ out' = NoMessage /\ client.scheme = "Negotiate" BY <1>1, <1>5 DEF Begin, Pends
  <2>2. AtFirst(handshake, out)' BY <1>1, <1>2, <1>5, <2>1 DEF AtFirst, client
  <2>3. Forgetting' BY <1>2, <1>3, <1>5 DEF GetsIn, Forgetting, client
  <2> QED BY <1>2, <1>3, <2>2, <2>3 DEF GetsIn, GoodCredentialGetsIn
<1>6. CASE ~Pends
  <2>1. /\ fresh \in Handshakes /\ fresh.scheme = client.scheme /\ fresh.state = "ready" /\ ~fresh.side
    BY <1>1, <1>4, NtlmOpens
  <2>2. handshake' = Initial(fresh).h /\ out' = Initial(fresh).out BY <1>1, <1>6 DEF Begin
  <2>3. /\ handshake'.scheme = client.scheme /\ handshake'.state = "awaiting" /\ handshake'.mechanism = "Ntlm"
        /\ handshake'.negotiate /\ ~handshake'.side /\ out'.kind = "ntlm-negotiate" /\ out'.first
    BY <2>1, <2>2, NtlmInitial
  <2>4. AtFirst(handshake, out)' BY <1>2, <1>6, <2>3 DEF AtFirst, client
  <2>5. client.scheme = "Negotiate" => ticket = "none" BY <1>6 DEF Pends
  <2>6. Forgetting' BY <1>2, <1>3, <2>5 DEF GetsIn, Forgetting, client
  <2> QED BY <1>2, <1>3, <2>4, <2>6 DEF GetsIn, GoodCredentialGetsIn
<1> QED BY <1>5, <1>6

LEMMA GetsNext == ASSUME MaxLegs > 1, ReportInv, GetsInv, [Next]_vars PROVE GetsInv'
<1>1. GetsTypes' BY TypesNext DEF GetsInv
<1>2. UNCHANGED setup
  BY DEF Next, Handshaking, Begin, First, Plain, Leg, Lost, Again, Over, vars
<1>3. SUFFICES ASSUME Good PROVE GetsIn'
  <2>1. Good' <=> Good BY <1>2 DEF Good, server, account
  <2> QED BY <1>1, <1>3, <2>1 DEF GetsInv
<1>4. GetsTypes /\ GetsIn BY <1>3 DEF GetsInv
<1>5. CASE Begin
  BY <1>4, <1>5, BeginGets
<1>6. CASE First
  <2>1. PICK c \in Connections : \E reply \in Replies(c) :
          Serves(c, reply, client.search) /\ FirstReply(c, reply)
    BY <1>6 DEF First
  <2>2. PICK reply \in Replies(c) : Serves(c, reply, client.search) /\ FirstReply(c, reply)
    BY <2>1
  <2> QED BY <1>3, <1>4, <1>6, <2>2, FirstGets DEF First
<1>7. CASE Plain
  <2>1. PICK c \in Connections : \E reply \in Replies(c) :
          /\ Serves(c, reply, TRUE)
          /\ believed' = (reply.status # 401)
          /\ Ends(IF reply.status = 401 THEN "refused" ELSE "answered")
    BY <1>7 DEF Plain
  <2>2. PICK reply \in Replies(c) : Ends(IF reply.status = 401 THEN "refused" ELSE "answered")
    BY <2>1
  <2>3. /\ pc = "plain" /\ UNCHANGED <<offered, pending, ticket, refusedBefore>>
    BY <1>7 DEF Plain, negotiation
  <2>4. reply \in HonestReplies(out, context[c]) /\ ~server.challenges
    BY <1>3, <1>4, <2>3 DEF Replies, Good, GetsIn
  <2>5. reply.status = 200 BY <2>4 DEF HonestReplies, Reply
  <2>6. outcome' = "answered" /\ pc' = "done" BY <2>2, <2>5 DEF Ends
  <2> QED BY <1>2, <1>4, <2>3, <2>6, Answers
<1>8. CASE Leg
  <2>1. PICK c \in Connections : \E reply \in Replies(c) : Serves(c, reply, TRUE) /\ LegReply(c, reply)
    BY <1>8 DEF Leg
  <2>2. PICK reply \in Replies(c) : Serves(c, reply, TRUE) /\ LegReply(c, reply)
    BY <2>1
  <2> QED BY <1>3, <1>4, <1>8, <2>2, LegGets DEF Leg
<1>9. CASE Lost
  <2>1. /\ pc # "begin" /\ outcome' = "failed" /\ pc' = "done"
        /\ UNCHANGED <<setup, offered, pending, ticket, refusedBefore>>
    BY <1>9 DEF Lost, Ends, negotiation
  <2> QED BY <1>4, <2>1 DEF GetsIn, Forgetting, GoodCredentialGetsIn, client
<1>10. CASE Again
  <2>1. /\ pc' = "begin" /\ outcome' = "none" /\ refusedBefore' = (outcome = "refused")
        /\ (ticket = "good" /\ ticket' = "stale") \/ UNCHANGED ticket
    BY <1>10 DEF Again
  <2>2. Forgetting' BY <1>2, <1>4, <2>1 DEF GetsIn, Forgetting, client
  <2> QED BY <2>1, <2>2 DEF GetsIn, GoodCredentialGetsIn
<1>11. CASE UNCHANGED vars
  <2>1. UNCHANGED <<setup, pc, attempt, legs, out, answered, handshake, pending, offered, ticket, outcome, context,
                    refusedBefore>>
    BY <1>11 DEF vars, negotiation, serverVars
  <2>2. Forgetting' /\ GoodCredentialGetsIn'
    BY <1>4, <2>1 DEF GetsIn, Forgetting, GoodCredentialGetsIn, client, server, account
  <2>3. AtFirst(handshake, out)' <=> AtFirst(handshake, out) BY <2>1 DEF AtFirst, client
  <2>4. pc = "leg" => Stands(handshake, out, context[answered], legs)'
    BY <1>4, <2>1, StandsStays DEF GetsIn
  <2> QED BY <1>4, <2>1, <2>2, <2>3, <2>4 DEF GetsIn, server
<1> QED BY <1>5, <1>6, <1>7, <1>8, <1>9, <1>10, <1>11 DEF Next, Handshaking, Over

\* A refusal of a good credential is the pool's doing, on the last attempt there is, or a stale ticket's,
\* and that one only once: what was refused is not offered again (handshake.rs attempt, refused).
THEOREM GoodGetsIn == ASSUME MaxLegs > 1 PROVE Spec => []GoodCredentialGetsIn
<1> DEFINE Inv == ReportInv /\ GetsInv
<1>1. Init => Inv
  BY ReportInit, GetsInit
<1>2. Inv /\ [Next]_vars => Inv'
  BY ReportNext, GetsNext
<1>3. Inv => GoodCredentialGetsIn
  BY DEF GetsInv, GetsIn, Good, GoodCredentialGetsIn
<1> HIDE DEF Inv
<1> QED BY <1>1, <1>2, <1>3, PTL DEF Spec
=============================================================================
