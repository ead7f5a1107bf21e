----------------------- MODULE KerberosTicketsProofs ------------------------
(* Who asks the KDCs, and with which TGT, for any handshakes, accounts, services and KDCs. *)
EXTENDS KerberosTickets, SequenceTheorems, TLAPS

USE DEF Goto, cacheVars, handshakeVars, historyVars

-----------------------------------------------------------------------------
(* The turn to ask. *)

TurnTyped ==
    /\ pc \in [Handshakes -> PcValues]
    /\ asking \in [Accounts -> Handshakes \cup {None}]

\* Whoever is between check and reply holds its account's lock.
TurnInv ==
    /\ TurnTyped
    /\ \A h \in Handshakes : pc[h] \in Asking => asking[AccountOf[h]] = h

\* What a step of h does to the lock: keeps it, gives it up, or takes it when nobody has it.
TurnKept(h) == UNCHANGED asking /\ (pc'[h] \in Asking => pc[h] \in Asking)
TurnGiven(h) == Release(h) /\ pc'[h] \notin Asking
TurnTaken(h) ==
    /\ asking[AccountOf[h]] = None
    /\ asking' = [asking EXCEPT ![AccountOf[h]] = h]

LEMMA TurnHere ==
    ASSUME TurnInv, NEW h \in Handshakes,
           pc' = [pc EXCEPT ![h] = pc'[h]], pc'[h] \in PcValues,
           TurnKept(h) \/ TurnGiven(h) \/ TurnTaken(h)
    PROVE  TurnInv'
<1> USE HandshakesAssumption, NoneAssumption DEF TurnInv, TurnTyped
<1>1. \A g \in Handshakes : g # h => pc'[g] = pc[g] OBVIOUS
<1>2. pc' \in [Handshakes -> PcValues] OBVIOUS
<1>3. CASE TurnKept(h) BY <1>1, <1>2, <1>3 DEF TurnKept
<1>4. CASE TurnGiven(h)
  <2>1. asking' \in [Accounts -> Handshakes \cup {None}] BY <1>4 DEF TurnGiven, Release
  <2>2. \A g \in Handshakes : g # h /\ asking[AccountOf[g]] = g => asking'[AccountOf[g]] = g
    BY <1>4 DEF TurnGiven, Release
  <2> QED BY <1>1, <1>2, <1>4, <2>1, <2>2 DEF TurnGiven
<1>5. CASE TurnTaken(h)
  <2>1. asking' \in [Accounts -> Handshakes \cup {None}] BY <1>5 DEF TurnTaken
  <2>2. asking'[AccountOf[h]] = h BY <1>5 DEF TurnTaken
  <2>3. \A g \in Handshakes : g # h /\ asking[AccountOf[g]] = g => asking'[AccountOf[g]] = g
    BY <1>5 DEF TurnTaken
  <2> QED BY <1>1, <1>2, <2>1, <2>2, <2>3
<1> QED BY <1>3, <1>4, <1>5

\* Every step of a handshake is one of these.
LEMMA TurnSteps ==
    ASSUME TurnInv, NEW h \in Handshakes, Advance(h) \/ Abandon(h)
    PROVE  /\ pc' = [pc EXCEPT ![h] = pc'[h]]
           /\ pc'[h] \in PcValues
           /\ TurnKept(h) \/ TurnGiven(h) \/ TurnTaken(h)
<1>1. pc \in [Handshakes -> PcValues] BY DEF TurnInv, TurnTyped
<1> USE <1>1 DEF PcValues, Asking, TurnKept, TurnGiven
<1>2. CASE Begin(h) BY <1>2 DEF Begin
<1>3. CASE Choose(h) BY <1>3 DEF Choose
<1>4. CASE LockAsking(h) BY <1>4 DEF LockAsking, TurnTaken
<1>5. CASE CheckAgain(h) BY <1>5 DEF CheckAgain
<1>6. CASE Acquire(h) BY <1>6 DEF Acquire
<1>7. CASE Lookup(h) BY <1>7 DEF Lookup, NoTicketFor
<1>8. CASE Resolve(h) BY <1>8 DEF Resolve, NoTicketFor
<1>9. CASE Answers(h) BY <1>9 DEF Answers
<1>10. CASE Silent(h) BY <1>10 DEF Silent, NoTicketFor
<1>11. CASE NextMessage(h) BY <1>11 DEF NextMessage
<1>12. CASE GetsTicket(h) BY <1>12 DEF GetsTicket
<1>13. CASE StaleTgt(h) BY <1>13 DEF StaleTgt
<1>14. CASE CredentialRefused(h) BY <1>14 DEF CredentialRefused
<1>15. CASE KdcError(h) BY <1>15 DEF KdcError, NoTicketFor
<1>16. CASE Accepted(h) BY <1>16 DEF Accepted
<1>17. CASE Forget(h) BY <1>17 DEF Forget
<1>18. CASE Abandon(h) BY <1>18 DEF Abandon
<1> QED
  BY <1>2, <1>3, <1>4, <1>5, <1>6, <1>7, <1>8, <1>9, <1>10, <1>11, <1>12, <1>13, <1>14, <1>15,
     <1>16, <1>17, <1>18
  DEF Advance

LEMMA TurnStill == ASSUME TurnInv, Tick \/ UNCHANGED vars PROVE TurnInv'
BY DEF TurnInv, TurnTyped, Tick, vars

\* A turn is held from its taking to its giving up, whichever of the ways out that takes.
THEOREM TurnInvariant == Spec => []TurnInv
<1>1. Init => TurnInv BY DEF Init, TurnInv, TurnTyped, PcValues, Asking
<1>2. TurnInv /\ [Next]_vars => TurnInv'
  <2> SUFFICES ASSUME TurnInv, [Next]_vars PROVE TurnInv' OBVIOUS
  <2>1. ASSUME NEW h \in Handshakes, Advance(h) \/ Abandon(h) PROVE TurnInv'
    BY <2>1, TurnSteps, TurnHere
  <2> QED BY <2>1, TurnStill DEF Next, Finished
<1> QED BY <1>1, <1>2, PTL DEF Spec

\* One handshake of an account asks the KDCs at a time.
THEOREM OneAsksAtATime == Spec => []OneAsks
<1>1. TurnInv => OneAsks BY DEF TurnInv, OneAsks
<1> QED BY <1>1, TurnInvariant, PTL
-----------------------------------------------------------------------------
(* TGTs that are refused. *)

Under == {"lookup", "resolve", "try", "reply"}      \* a request to the KDCs is under way

Tickets == [serial : Nat, expires : Nat]

TgtTyped ==
    /\ clock \in Nat /\ issued \in Nat
    /\ tgt \in [Accounts -> Tickets] /\ started \in [Handshakes -> Tickets]
    /\ dead \subseteq Tickets

\* Tickets are numbered as they are issued, and no two accounts share one.
Numbered ==
    /\ \A a \in Accounts : tgt[a].serial <= issued
    /\ \A d \in dead : d # NoTicket /\ d.serial <= issued
    /\ \A a, b \in Accounts : (tgt[a] = tgt[b] /\ tgt[a] # NoTicket) => a = b

\* A request starts from its account's TGT or from the password, and no refused TGT is cached.
TgtInv ==
    /\ TgtTyped /\ Numbered
    /\ \A a \in Accounts : tgt[a] \notin dead
    /\ \A h \in Handshakes : pc[h] \in Under => started[h] \in {NoTicket, tgt[AccountOf[h]]}

\* What most steps of h do to all that: h may choose what it starts from.
TgtKept(h) ==
    /\ UNCHANGED <<clock, tgt, issued, dead>>
    /\ started' = [started EXCEPT ![h] = started'[h]]
    /\ pc'[h] \in Under => started'[h] \in {NoTicket, tgt[AccountOf[h]]}
    /\ started'[h] \in Tickets

LEMMA KeptTgts ==
    ASSUME TurnInv, TgtInv, NEW h \in Handshakes, TgtKept(h), pc' = [pc EXCEPT ![h] = pc'[h]]
    PROVE  TgtInv'
<1>1. \A g \in Handshakes : g # h => pc'[g] = pc[g] /\ started'[g] = started[g]
  BY DEF TgtInv, TgtTyped, TgtKept, TurnInv, TurnTyped
<1>2. TgtTyped' BY DEF TgtInv, TgtTyped, TgtKept
<1>3. Numbered' BY DEF TgtInv, Numbered, TgtKept
<1> QED BY <1>1, <1>2, <1>3 DEF TgtInv, TgtKept

LEMMA KeepingTgts ==
    ASSUME TurnInv, TgtInv, NEW h \in Handshakes,
           \/ Begin(h) \/ Choose(h) \/ LockAsking(h) \/ CheckAgain(h) \/ Acquire(h) \/ Lookup(h)
           \/ Resolve(h) \/ Answers(h) \/ Silent(h) \/ NextMessage(h) \/ CredentialRefused(h)
           \/ KdcError(h) \/ Accepted(h) \/ Forget(h) \/ Abandon(h)
    PROVE  TgtKept(h)
<1>1. pc \in [Handshakes -> PcValues] /\ started \in [Handshakes -> Tickets] /\ AccountOf[h] \in Accounts
  BY HandshakesAssumption DEF TurnInv, TurnTyped, TgtInv, TgtTyped
<1>2. pc[h] \in Under => started[h] \in {NoTicket, tgt[AccountOf[h]]} BY DEF TgtInv
<1>3. NoTicket \in Tickets /\ tgt[AccountOf[h]] \in Tickets
  BY <1>1 DEF NoTicket, Tickets, TgtInv, TgtTyped
<1> USE <1>1, <1>2, <1>3 DEF TgtKept, Under
<1>4. CASE Begin(h) BY <1>4 DEF Begin
<1>5. CASE Choose(h) BY <1>5 DEF Choose
<1>6. CASE LockAsking(h) BY <1>6 DEF LockAsking
<1>7. CASE CheckAgain(h) BY <1>7 DEF CheckAgain
<1>8. CASE Acquire(h) BY <1>8 DEF Acquire
<1>9. CASE Lookup(h) BY <1>9 DEF Lookup, NoTicketFor
<1>10. CASE Resolve(h) BY <1>10 DEF Resolve, NoTicketFor
<1>11. CASE Answers(h) BY <1>11 DEF Answers
<1>12. CASE Silent(h) BY <1>12 DEF Silent, NoTicketFor
<1>13. CASE NextMessage(h) BY <1>13 DEF NextMessage
<1>14. CASE CredentialRefused(h) BY <1>14 DEF CredentialRefused
<1>15. CASE KdcError(h) BY <1>15 DEF KdcError, NoTicketFor
<1>16. CASE Accepted(h) BY <1>16 DEF Accepted
<1>17. CASE Forget(h) BY <1>17 DEF Forget
<1>18. CASE Abandon(h) BY <1>18 DEF Abandon
<1> QED
  BY <1>4, <1>5, <1>6, <1>7, <1>8, <1>9, <1>10, <1>11, <1>12, <1>13, <1>14, <1>15, <1>16, <1>17, <1>18

\* The lock keeps the account's other handshakes from starting from a TGT that changes.
LEMMA OthersElsewhere ==
    ASSUME TurnInv, NEW h \in Handshakes, pc[h] = "reply",
           NEW g \in Handshakes, g # h, pc[g] \in Under
    PROVE  AccountOf[g] # AccountOf[h]
BY DEF TurnInv, Under, Asking

LEMMA StaleTgtStep ==
    ASSUME TurnInv, TgtInv, NEW h \in Handshakes, StaleTgt(h)
    PROVE  TgtInv'
<1> DEFINE a == AccountOf[h]
<1>1. a \in Accounts /\ started[h] = tgt[a] /\ tgt[a] # NoTicket /\ tgt[a] \in Tickets
  BY HandshakesAssumption DEF TgtInv, TgtTyped, StaleTgt, Under
<1>2. NoTicket \in Tickets BY DEF NoTicket, Tickets
<1>3. tgt' = [tgt EXCEPT ![a] = NoTicket] /\ dead' = dead \cup {tgt[a]} /\ UNCHANGED <<issued, clock>>
  BY <1>1 DEF StaleTgt
<1>4. started' = [started EXCEPT ![h] = NoTicket] /\ pc' = [pc EXCEPT ![h] = "lookup"] BY DEF StaleTgt
<1>5. TgtTyped' BY <1>1, <1>2, <1>3, <1>4 DEF TgtInv, TgtTyped
<1>6. Numbered'
  <2>1. NoTicket.serial <= issued BY DEF NoTicket, TgtInv, TgtTyped
  <2>2. \A b \in Accounts : tgt'[b] = IF b = a THEN NoTicket ELSE tgt[b]
    BY <1>3 DEF TgtInv, TgtTyped
  <2> QED BY <1>1, <1>3, <2>1, <2>2 DEF TgtInv, Numbered
<1>7. \A b \in Accounts : tgt'[b] \notin dead'
  BY <1>1, <1>3 DEF TgtInv, TgtTyped, Numbered
<1>8. ASSUME NEW g \in Handshakes, pc'[g] \in Under PROVE started'[g] \in {NoTicket, tgt'[AccountOf[g]]}
  <2>1. CASE g = h BY <1>4, <2>1 DEF TgtInv, TgtTyped
  <2>2. CASE g # h
    <3>1. pc[g] \in Under /\ started'[g] = started[g]
      BY <1>4, <1>8, <2>2 DEF TgtInv, TgtTyped, TurnInv, TurnTyped
    <3>2. AccountOf[g] # a /\ AccountOf[g] \in Accounts
      BY <2>2, <3>1, OthersElsewhere, HandshakesAssumption DEF StaleTgt
    <3>3. tgt'[AccountOf[g]] = tgt[AccountOf[g]] BY <1>3, <3>2 DEF TgtInv, TgtTyped
    <3> QED BY <3>1, <3>3 DEF TgtInv
  <2> QED BY <2>1, <2>2
<1> QED BY <1>5, <1>6, <1>7, <1>8 DEF TgtInv

LEMMA GetsTicketStep ==
    ASSUME TurnInv, TgtInv, NEW h \in Handshakes, GetsTicket(h)
    PROVE  TgtInv'
<1> DEFINE a == AccountOf[h]
           new == [serial |-> issued + 2, expires |-> clock + Life]
<1> USE TimesAssumption
<1>1. a \in Accounts /\ started[h] \in {NoTicket, tgt[a]}
  BY HandshakesAssumption DEF TgtInv, GetsTicket, Under
<1>2. new \in Tickets /\ new.serial = issued + 2 BY DEF TgtInv, TgtTyped, Tickets
<1>3. tgt' = [tgt EXCEPT ![a] = IF started[h] = NoTicket THEN new ELSE started[h]]
  BY DEF GetsTicket
<1>4. UNCHANGED <<clock, started, dead>> /\ issued' = issued + 2 /\ pc' = [pc EXCEPT ![h] = "offer"]
  BY DEF GetsTicket
<1>5. UNCHANGED tgt \/ tgt' = [tgt EXCEPT ![a] = new] BY <1>1, <1>3 DEF TgtInv, TgtTyped
<1>6. TgtTyped' BY <1>2, <1>4, <1>5 DEF TgtInv, TgtTyped
<1>7. \A t \in Tickets : t.serial <= issued => t.serial <= issued' /\ t # new
  BY <1>2, <1>4 DEF Tickets, TgtInv, TgtTyped
<1>8. \A b \in Accounts : tgt'[b] = tgt[b] \/ (b = a /\ tgt'[b] = new)
  <2>1. tgt \in [Accounts -> Tickets] BY DEF TgtInv, TgtTyped
  <2>2. CASE UNCHANGED tgt BY <2>2
  <2>3. CASE tgt' = [tgt EXCEPT ![a] = new] BY <1>1, <2>1, <2>3
  <2> QED BY <1>5, <2>2, <2>3
<1>9. \A b \in Accounts : tgt[b] \in Tickets /\ tgt[b].serial <= issued /\ tgt[b] # new
  BY <1>7 DEF TgtInv, TgtTyped, Numbered
<1>10. \A d \in dead : d \in Tickets /\ d.serial <= issued /\ d # new
  BY <1>7 DEF TgtInv, TgtTyped, Numbered
<1>11. Numbered'
  <2>1. \A b \in Accounts : tgt'[b].serial <= issued'
    BY <1>2, <1>4, <1>7, <1>8, <1>9 DEF TgtInv, TgtTyped
  <2>2. \A d \in dead' : d # NoTicket /\ d.serial <= issued' BY <1>4, <1>7, <1>10 DEF TgtInv, Numbered
  <2>3. \A b, c \in Accounts : (tgt'[b] = tgt'[c] /\ tgt'[b] # NoTicket) => b = c
    BY <1>8, <1>9 DEF TgtInv, Numbered
  <2> QED BY <2>1, <2>2, <2>3 DEF Numbered
<1>12. \A b \in Accounts : tgt'[b] \notin dead' BY <1>4, <1>8, <1>10 DEF TgtInv
<1>13. ASSUME NEW g \in Handshakes, pc'[g] \in Under PROVE started'[g] \in {NoTicket, tgt'[AccountOf[g]]}
  <2>1. g # h /\ pc[g] \in Under BY <1>4, <1>13 DEF Under, TurnInv, TurnTyped
  <2>2. AccountOf[g] # a /\ AccountOf[g] \in Accounts
    BY <2>1, OthersElsewhere, HandshakesAssumption DEF GetsTicket
  <2>3. tgt'[AccountOf[g]] = tgt[AccountOf[g]] BY <1>8, <2>2
  <2> QED BY <1>4, <2>1, <2>3 DEF TgtInv
<1> QED BY <1>6, <1>11, <1>12, <1>13 DEF TgtInv

LEMMA TgtStill == ASSUME TgtInv, Tick \/ UNCHANGED vars PROVE TgtInv'
BY DEF TgtInv, TgtTyped, Numbered, Tick, vars

\* What a request started from is what its account's cache holds, and is not dead.
THEOREM TgtInvariant == Spec => []TgtInv
<1>1. Init => TgtInv
  BY DEF Init, TgtInv, TgtTyped, Numbered, NoTicket, Tickets, Under
<1>2. TurnInv /\ TgtInv /\ [Next]_vars => TgtInv'
  <2> SUFFICES ASSUME TurnInv, TgtInv, [Next]_vars PROVE TgtInv' OBVIOUS
  <2>1. ASSUME NEW h \in Handshakes, Advance(h) \/ Abandon(h) PROVE TgtInv'
    <3>1. pc' = [pc EXCEPT ![h] = pc'[h]] BY <2>1, TurnSteps
    <3> QED BY <2>1, <3>1, KeptTgts, KeepingTgts, StaleTgtStep, GetsTicketStep DEF Advance
  <2> QED BY <2>1, TgtStill DEF Next, Finished
<1> QED BY <1>1, <1>2, TurnInvariant, PTL DEF Spec

\* A TGT that a KDC refused is never presented again, by this handshake or a later one.
THEOREM RefusedStaysRefused == Spec => []DeadStaysDead
<1>1. TgtInv => DeadStaysDead BY HandshakesAssumption DEF TgtInv, Numbered, DeadStaysDead, Under
<1> QED BY <1>1, TgtInvariant, PTL
-----------------------------------------------------------------------------
(* Those who waited. *)

Blocked(h) == unavailable[AccountOf[h]][ServiceOf[h]] > clock

CacheTyped ==
    /\ clock \in Nat /\ issued \in Nat
    /\ services \in [Accounts -> [Services -> Tickets]]
    /\ unavailable \in [Accounts -> [Services -> Nat]]
    /\ spared \subseteq Handshakes

\* Whoever waited while another asked the same finds the ticket, or that there is none; once it has
\* the turn, and there is no word against it, the ticket.
Served(h) ==
    /\ pc[h] \notin Under \cup {"begin", "opening"}
    /\ pc[h] \in {"queue", "check"} => Fresh(Cached(h), clock) \/ Blocked(h)
    /\ pc[h] = "acquire" => Fresh(Cached(h), clock)

SparedInv == CacheTyped /\ \A h \in spared : Served(h)

\* A step of h that leaves what is remembered alone.
CacheKept(h) ==
    /\ UNCHANGED <<clock, issued, services, unavailable, spared>>
    /\ pc' = [pc EXCEPT ![h] = pc'[h]]

LEMMA CacheKeptServes ==
    ASSUME TurnInv, SparedInv, NEW h \in Handshakes, CacheKept(h), h \in spared => Served(h)'
    PROVE  SparedInv'
<1>1. CacheTyped' BY DEF CacheKept, SparedInv, CacheTyped
<1>2. ASSUME NEW g \in spared, g # h PROVE Served(g)'
  <2>1. pc'[g] = pc[g]
    BY <1>2 DEF CacheKept, TurnInv, TurnTyped, SparedInv, CacheTyped
  <2> QED BY <2>1 DEF CacheKept, SparedInv, Served, Fresh, Cached, Blocked
<1> QED BY <1>1, <1>2 DEF CacheKept, SparedInv

LEMMA SparedQuiet ==
    ASSUME TurnInv, SparedInv, NEW h \in Handshakes,
           \/ Begin(h) \/ Choose(h) \/ LockAsking(h) \/ CheckAgain(h) \/ Acquire(h)
           \/ Answers(h) \/ NextMessage(h) \/ StaleTgt(h) \/ CredentialRefused(h)
           \/ Accepted(h) \/ Abandon(h)
    PROVE  SparedInv'
<1>1. pc \in [Handshakes -> PcValues] /\ (h \in spared => Served(h))
  BY DEF TurnInv, TurnTyped, SparedInv
<1>2. CacheKept(h)
  BY <1>1
  DEF CacheKept, Begin, Choose, LockAsking, CheckAgain, Acquire, Answers, NextMessage, StaleTgt,
      CredentialRefused, Accepted, Abandon
<1>3. Fresh(Cached(h), clock)' = Fresh(Cached(h), clock) /\ Blocked(h)' = Blocked(h)
  BY <1>2 DEF CacheKept, Fresh, Cached, Blocked
<1>4. ASSUME h \in spared PROVE Served(h)'
  <2> USE <1>1, <1>3, <1>4 DEF Served, Under
  <2>1. CASE Begin(h) \/ Choose(h) \/ Answers(h) \/ NextMessage(h) \/ StaleTgt(h)
             \/ CredentialRefused(h)
    BY <2>1 DEF Begin, Choose, Answers, NextMessage, StaleTgt, CredentialRefused
  <2>2. CASE LockAsking(h) BY <2>2 DEF LockAsking
  <2>3. CASE CheckAgain(h) BY <2>3 DEF CheckAgain, Unavailable, Blocked
  <2>4. CASE Acquire(h) BY <2>4 DEF Acquire
  <2>5. CASE Accepted(h) \/ Abandon(h) BY <2>5 DEF Accepted, Abandon
  <2> QED BY <2>1, <2>2, <2>3, <2>4, <2>5
<1> QED BY <1>2, <1>4, CacheKeptServes

\* Coming to no ticket blocks the service for all who wait for it.
LEMMA SparedNoTicket ==
    ASSUME TurnInv, SparedInv, NEW h \in Handshakes, pc[h] \in Under, NoTicketFor(h),
           UNCHANGED <<clock, issued, services>>
    PROVE  SparedInv'
<1> DEFINE a == AccountOf[h]
           s == ServiceOf[h]
<1> USE TimesAssumption, HandshakesAssumption
<1>1. /\ a \in Accounts /\ s \in Services
      /\ unavailable' = [unavailable EXCEPT ![a][s] = clock + RetryAfter]
      /\ spared' = spared \cup Asked(h)
      /\ pc' = [pc EXCEPT ![h] = "ntlm"]
  BY DEF NoTicketFor
<1>2. CacheTyped' BY <1>1 DEF SparedInv, CacheTyped, Asked
<1>3. \A b \in Accounts, t \in Services : unavailable[b][t] > clock => unavailable'[b][t] > clock
  BY <1>1 DEF SparedInv, CacheTyped
<1>4. unavailable'[a][s] > clock
  BY <1>1 DEF SparedInv, CacheTyped
<1>5. ASSUME NEW g \in spared' PROVE Served(g)'
  <2>1. g \in Handshakes /\ AccountOf[g] \in Accounts /\ ServiceOf[g] \in Services
    BY <1>1 DEF SparedInv, CacheTyped, Asked
  <2>2. Fresh(Cached(g), clock)' = Fresh(Cached(g), clock)
    BY DEF Fresh, Cached
  <2>3. CASE g = h
    <3>1. pc'[g] = "ntlm" BY <1>1, <2>1, <2>3 DEF TurnInv, TurnTyped
    <3> QED BY <3>1 DEF Served, Under
  <2>4. CASE g # h
    <3>1. pc'[g] = pc[g] BY <1>1, <2>1, <2>4 DEF TurnInv, TurnTyped
    <3>2. CASE g \in spared
      <4>1. Blocked(g) => Blocked(g)' BY <1>3, <2>1 DEF Blocked
      <4> QED BY <2>2, <3>1, <3>2, <4>1 DEF SparedInv, Served
    <3>3. CASE g \in Asked(h)
      <4>1. pc[g] = "queue" /\ AccountOf[g] = a /\ ServiceOf[g] = s BY <3>3 DEF Asked
      <4>2. Blocked(g)' BY <1>4, <4>1 DEF Blocked
      <4> QED BY <3>1, <4>1, <4>2 DEF Served, Under
    <3> QED BY <1>1, <3>2, <3>3
  <2> QED BY <2>3, <2>4
<1> QED BY <1>2, <1>5 DEF SparedInv

LEMMA SparedAsking ==
    ASSUME TurnInv, SparedInv, NEW h \in Handshakes,
           Lookup(h) \/ Resolve(h) \/ Silent(h) \/ KdcError(h)
    PROVE  SparedInv'
<1>1. UNCHANGED <<clock, issued, services>> /\ pc[h] \in Under
  BY DEF Lookup, Resolve, Silent, KdcError, Under
<1>2. CASE NoTicketFor(h) BY <1>1, <1>2, SparedNoTicket
<1>3. CASE ~NoTicketFor(h)
  <2>1. CacheKept(h)
    BY <1>1, <1>3 DEF CacheKept, Lookup, Resolve, Silent, KdcError, TurnInv, TurnTyped
  <2>2. h \notin spared BY <1>1 DEF SparedInv, Served
  <2> QED BY <2>1, <2>2, CacheKeptServes
<1> QED BY <1>2, <1>3

\* A ticket that has just been granted serves all who wait for it.
LEMMA SparedGranted ==
    ASSUME TurnInv, SparedInv, Life > Margin, NEW h \in Handshakes, GetsTicket(h)
    PROVE  SparedInv'
<1> DEFINE a == AccountOf[h]
           new == [serial |-> issued + 1, expires |-> clock + Life]
<1> USE TimesAssumption, HandshakesAssumption
<1>1. /\ a \in Accounts /\ ServiceOf[h] \in Services
      /\ UNCHANGED <<clock, unavailable>> /\ issued' = issued + 2
      /\ spared' = spared \cup Asked(h)
      /\ pc[h] = "reply" /\ pc' = [pc EXCEPT ![h] = "offer"]
  BY DEF GetsTicket
<1>2. services' = [services EXCEPT ![a] =
                     [s \in Services |-> IF s = ServiceOf[h] THEN new
                                         ELSE IF Fresh(@[s], clock) THEN @[s] ELSE NoTicket]]
  BY DEF GetsTicket
<1>3. new \in Tickets /\ NoTicket \in Tickets /\ Fresh(new, clock)
  BY DEF SparedInv, CacheTyped, Tickets, NoTicket, Fresh
<1> HIDE DEF new
<1>4. CacheTyped'
  BY <1>1, <1>2, <1>3 DEF SparedInv, CacheTyped, Asked
<1>5. \A b \in Accounts, t \in Services :
        Fresh(services[b][t], clock) => Fresh(services'[b][t], clock)
  BY <1>1, <1>2, <1>3 DEF SparedInv, CacheTyped
<1>6. Fresh(services'[a][ServiceOf[h]], clock)
  BY <1>1, <1>2, <1>3 DEF SparedInv, CacheTyped
<1>7. ASSUME NEW g \in spared' PROVE Served(g)'
  <2>1. g \in Handshakes /\ AccountOf[g] \in Accounts /\ ServiceOf[g] \in Services
    BY <1>1 DEF SparedInv, CacheTyped, Asked
  <2>2. Blocked(g)' = Blocked(g)
    BY <1>1 DEF Blocked
  <2>3. CASE g = h
    <3>1. pc'[g] = "offer" BY <1>1, <2>1, <2>3 DEF TurnInv, TurnTyped
    <3> QED BY <3>1 DEF Served, Under
  <2>4. CASE g # h
    <3>1. pc'[g] = pc[g] BY <1>1, <2>1, <2>4 DEF TurnInv, TurnTyped
    <3>2. CASE g \in spared
      <4>1. Fresh(Cached(g), clock) => Fresh(Cached(g), clock)'
        BY <1>1, <1>5, <2>1 DEF Cached, Fresh
      <4> QED BY <2>2, <3>1, <3>2, <4>1 DEF SparedInv, Served
    <3>3. CASE g \in Asked(h)
      <4>1. pc[g] = "queue" /\ AccountOf[g] = a /\ ServiceOf[g] = ServiceOf[h] BY <3>3 DEF Asked
      <4>2. Fresh(Cached(g), clock)' BY <1>1, <1>6, <4>1 DEF Cached, Fresh
      <4> QED BY <3>1, <4>1, <4>2 DEF Served, Under
    <3> QED BY <1>1, <3>2, <3>3
  <2> QED BY <2>3, <2>4
<1> QED BY <1>4, <1>7 DEF SparedInv

\* A ticket that is forgotten serves nobody any longer, and others keep theirs.
LEMMA SparedForget ==
    ASSUME TurnInv, SparedInv, NEW h \in Handshakes, Forget(h)
    PROVE  SparedInv'
<1> DEFINE a == AccountOf[h]
           s == ServiceOf[h]
<1> USE HandshakesAssumption
<1>1. /\ a \in Accounts /\ s \in Services
      /\ services' = [services EXCEPT ![a][s] = NoTicket]
      /\ UNCHANGED <<clock, issued, unavailable>>
      /\ spared' = {g \in spared : AccountOf[g] # a \/ ServiceOf[g] # s}
      /\ pc' = [pc EXCEPT ![h] = "done"]
  BY DEF Forget
<1>2. NoTicket \in Tickets BY DEF Tickets, NoTicket
<1>3. CacheTyped' BY <1>1, <1>2 DEF SparedInv, CacheTyped
<1>4. ASSUME NEW g \in spared' PROVE Served(g)'
  <2>1. /\ g \in spared /\ g \in Handshakes /\ g # h
        /\ AccountOf[g] \in Accounts /\ ServiceOf[g] \in Services
        /\ AccountOf[g] # a \/ ServiceOf[g] # s
    BY <1>1 DEF SparedInv, CacheTyped
  <2>2. services'[AccountOf[g]][ServiceOf[g]] = services[AccountOf[g]][ServiceOf[g]]
    BY <1>1, <2>1 DEF SparedInv, CacheTyped
  <2>3. pc'[g] = pc[g] BY <1>1, <2>1 DEF TurnInv, TurnTyped
  <2> QED BY <1>1, <2>1, <2>2, <2>3 DEF SparedInv, Served, Fresh, Cached, Blocked
<1> QED BY <1>3, <1>4 DEF SparedInv

LEMMA SparedStill == ASSUME SparedInv, Tick \/ UNCHANGED vars PROVE SparedInv'
<1>1. CASE Tick BY <1>1 DEF Tick, SparedInv, CacheTyped
<1>2. CASE UNCHANGED vars
  BY <1>2 DEF vars, SparedInv, CacheTyped, Served, Fresh, Cached, Blocked
<1> QED BY <1>1, <1>2

\* A ticket just got is fresh, so whoever waited for it finds it; where tickets never outlast the margin
\* there is nothing to find.
THEOREM SparedInvariant == ASSUME Life > Margin PROVE Spec => []SparedInv
<1>1. Init => SparedInv
  BY DEF Init, SparedInv, CacheTyped, NoTicket, Tickets
<1>2. TurnInv /\ SparedInv /\ [Next]_vars => SparedInv'
  <2> SUFFICES ASSUME TurnInv, SparedInv, [Next]_vars PROVE SparedInv' OBVIOUS
  <2>1. ASSUME NEW h \in Handshakes, Advance(h) \/ Abandon(h) PROVE SparedInv'
    BY <2>1, SparedQuiet, SparedAsking, SparedGranted, SparedForget DEF Advance
  <2> QED BY <2>1, SparedStill DEF Next, Finished
<1> QED BY <1>1, <1>2, TurnInvariant, PTL DEF Spec

\* Where a ticket outlasts the margin, a handshake that waited while another asked the KDCs for the
\* same, and was answered, does not ask them again (kerberos.rs ticket).
THEOREM WaitersAreSpared == ASSUME Life > Margin PROVE Spec => []AskOnce
<1>1. SparedInv => AskOnce BY DEF SparedInv, Served, AskOnce, Under
<1> QED BY <1>1, SparedInvariant, PTL

-----------------------------------------------------------------------------
(* The KDC that last answered. *)

\* While a KDC is tried, the realm's KDCs are known in the order they are tried in.
Trying(h) ==
    /\ addresses[h] = known.kdcs
    /\ at[h] \in 1..Len(addresses[h])

KdcInv ==
    /\ clock \in Nat
    /\ known \in [until : Nat, kdcs : Seq(STRING)]
    /\ addresses \in [Handshakes -> Seq(STRING)]
    /\ at \in [Handshakes -> Nat]
    /\ \A h \in Handshakes : pc[h] = "try" => Trying(h)
    /\ known.kdcs # <<>> /\ answered # None => Head(known.kdcs) = answered

OneAccount == \A g, h \in Handshakes : AccountOf[g] = AccountOf[h]

LEMMA Rotated ==
    ASSUME NEW kdcs \in Seq(STRING), NEW n \in 2..Len(kdcs)
    PROVE  /\ RotateLeft(kdcs, n - 1) \in Seq(STRING)
           /\ RotateLeft(kdcs, n - 1) # <<>>
           /\ Head(RotateLeft(kdcs, n - 1)) = kdcs[n]
<1> DEFINE front == SubSeq(kdcs, n, Len(kdcs))
           back == SubSeq(kdcs, 1, n - 1)
<1>1. front \in Seq(STRING) /\ back \in Seq(STRING) OBVIOUS
<1>2. Len(front) = Len(kdcs) - n + 1 /\ front[1] = kdcs[n] OBVIOUS
<1>3. RotateLeft(kdcs, n - 1) = front \o back
  <2>1. (n - 1) + 1 = n OBVIOUS
  <2> QED BY <2>1 DEF RotateLeft
<1>4. /\ front \o back \in Seq(STRING)
      /\ front \o back # <<>>
      /\ Head(front \o back) = kdcs[n]
  <2>1. Len(front) >= 1 BY <1>2
  <2> HIDE DEF front, back
  <2>2. front \o back \in Seq(STRING) BY <1>1
  <2>3. Len(front \o back) >= 1 /\ (front \o back)[1] = front[1]
    BY <1>1, <2>1, ConcatProperties
  <2> QED BY <1>2, <2>2, <2>3
<1> HIDE DEF front, back
<1> QED BY <1>3, <1>4

\* With one account, whoever else asks is not trying a KDC while h asks.
LEMMA OthersWait ==
    ASSUME OneAccount, TurnInv, NEW h \in Handshakes, pc[h] \in Asking,
           NEW g \in Handshakes, g # h
    PROVE  pc[g] # "try"
BY DEF OneAccount, TurnInv, TurnTyped, Asking

\* A step that leaves what is known of the realm alone, and tries nothing new.
LEMMA KdcKept ==
    ASSUME TurnInv, KdcInv, NEW h \in Handshakes, pc' = [pc EXCEPT ![h] = pc'[h]],
           pc'[h] # "try", UNCHANGED <<clock, known, addresses, at, answered>>
    PROVE  KdcInv'
<1>1. \A g \in Handshakes : pc'[g] = "try" => pc[g] = "try" BY DEF TurnInv, TurnTyped
<1> QED BY <1>1 DEF KdcInv, Trying

LEMMA KdcLookup ==
    ASSUME TurnInv, KdcInv, NEW h \in Handshakes, Lookup(h) PROVE KdcInv'
<1>1. pc \in [Handshakes -> PcValues] BY DEF TurnInv, TurnTyped
<1>2. CASE pc'[h] # "try"
  <2>1. pc' = [pc EXCEPT ![h] = pc'[h]] /\ UNCHANGED <<clock, known, addresses, at, answered>>
    BY <1>1, <1>2 DEF Lookup, NoTicketFor
  <2> QED BY <1>2, <2>1, KdcKept
<1>3. CASE pc'[h] = "try"
  <2>1. /\ ~Unreachable /\ Known # Unknown
        /\ addresses' = [addresses EXCEPT ![h] = Known.kdcs]
        /\ at' = [at EXCEPT ![h] = 1]
        /\ pc' = [pc EXCEPT ![h] = "try"]
        /\ UNCHANGED <<clock, known, answered>>
    BY <1>1, <1>3 DEF Lookup, NoTicketFor
  <2>2. Known = known /\ known.kdcs # <<>> BY <2>1 DEF Known, Unknown, Unreachable
  <2>3. Trying(h)' BY <1>1, <2>1, <2>2 DEF KdcInv, Trying
  <2>4. ASSUME NEW g \in Handshakes, g # h, pc'[g] = "try" PROVE Trying(g)'
    BY <1>1, <2>1, <2>4 DEF KdcInv, Trying
  <2>5. addresses' \in [Handshakes -> Seq(STRING)] /\ at' \in [Handshakes -> Nat]
    BY <2>1, <2>2 DEF KdcInv
  <2> QED BY <2>1, <2>3, <2>4, <2>5 DEF KdcInv
<1> QED BY <1>2, <1>3

LEMMA KdcResolve ==
    ASSUME OneAccount, TurnInv, KdcInv, NEW h \in Handshakes, Resolve(h) PROVE KdcInv'
<1> USE KdcsAssumption, TimesAssumption
<1>1. pc \in [Handshakes -> PcValues] BY DEF TurnInv, TurnTyped
<1>2. \A g \in Handshakes : g # h => pc[g] # "try"
  BY OthersWait DEF Resolve, Asking
<1>3. CASE /\ RealmKnown(Kdcs)
           /\ addresses' = [addresses EXCEPT ![h] = Kdcs]
           /\ at' = [at EXCEPT ![h] = 1]
           /\ pc' = [pc EXCEPT ![h] = "try"]
           /\ answered' = None
           /\ UNCHANGED clock
  <2>1. known' \in [until : Nat, kdcs : Seq(STRING)] /\ known'.kdcs = Kdcs
    BY <1>3 DEF RealmKnown, KdcInv
  <2>2. Trying(h)' BY <1>3, <2>1 DEF KdcInv, Trying
  <2> QED BY <1>1, <1>2, <1>3, <2>1, <2>2 DEF KdcInv
<1>4. CASE /\ RealmKnown(<<>>) /\ pc' = [pc EXCEPT ![h] = "ntlm"]
           /\ UNCHANGED <<clock, addresses, at, answered>>
  <2>1. known' \in [until : Nat, kdcs : Seq(STRING)] /\ known'.kdcs = <<>>
    BY <1>4 DEF RealmKnown, KdcInv
  <2> QED BY <1>1, <1>2, <1>4, <2>1 DEF KdcInv
<1> QED BY <1>3, <1>4 DEF Resolve, NoTicketFor

LEMMA KdcAnswers ==
    ASSUME OneAccount, TurnInv, KdcInv, NEW h \in Handshakes, Answers(h) PROVE KdcInv'
<1> USE TimesAssumption
<1>1. pc \in [Handshakes -> PcValues] BY DEF TurnInv, TurnTyped
<1>2. \A g \in Handshakes : pc'[g] # "try"
  BY <1>1, OthersWait DEF Answers, Asking
<1>3. Trying(h) /\ addresses[h] \in Seq(STRING) BY DEF KdcInv, Answers
<1>4. CASE at[h] > 1
  <2>1. at[h] \in 2..Len(addresses[h]) BY <1>3, <1>4 DEF Trying
  <2>2. /\ known'.kdcs = RotateLeft(addresses[h], at[h] - 1)
        /\ known'.kdcs \in Seq(STRING) /\ known'.kdcs # <<>>
        /\ Head(known'.kdcs) = addresses[h][at[h]]
    BY <1>3, <1>4, <2>1, Rotated DEF Answers, RealmKnown
  <2>3. known' \in [until : Nat, kdcs : Seq(STRING)]
    BY <1>4, <2>2 DEF Answers, RealmKnown, KdcInv
  <2> QED BY <1>2, <2>2, <2>3 DEF Answers, KdcInv
<1>5. CASE ~(at[h] > 1)
  <2>1. at[h] = 1 /\ Head(known.kdcs) = addresses[h][1] BY <1>3, <1>5 DEF Trying
  <2> QED BY <1>2, <1>5, <2>1 DEF Answers, KdcInv
<1> QED BY <1>4, <1>5

LEMMA KdcSilent ==
    ASSUME OneAccount, TurnInv, KdcInv, NEW h \in Handshakes, Silent(h) PROVE KdcInv'
<1> USE TimesAssumption
<1>1. pc \in [Handshakes -> PcValues] BY DEF TurnInv, TurnTyped
<1>2. \A g \in Handshakes : g # h => pc[g] # "try" BY OthersWait DEF Silent, Asking
<1>3. Trying(h) BY DEF KdcInv, Silent
<1>4. CASE at[h] < Len(addresses[h])
  <2>1. at' = [at EXCEPT ![h] = @ + 1] /\ UNCHANGED <<clock, pc, known, addresses, answered>>
    BY <1>4 DEF Silent
  <2>2. Trying(h)' BY <1>3, <1>4, <2>1 DEF Trying, KdcInv
  <2> QED BY <1>2, <2>1, <2>2 DEF KdcInv
<1>5. CASE ~(at[h] < Len(addresses[h]))
  <2>1. /\ RealmKnown(<<>>) /\ pc' = [pc EXCEPT ![h] = "ntlm"]
        /\ UNCHANGED <<clock, addresses, at, answered>>
    BY <1>5 DEF Silent, NoTicketFor
  <2>2. known' \in [until : Nat, kdcs : Seq(STRING)] /\ known'.kdcs = <<>>
    BY <2>1 DEF RealmKnown, KdcInv
  <2> QED BY <1>1, <1>2, <2>1, <2>2 DEF KdcInv
<1> QED BY <1>4, <1>5

LEMMA KdcElsewhere ==
    ASSUME TurnInv, KdcInv, NEW h \in Handshakes,
           \/ Begin(h) \/ Choose(h) \/ LockAsking(h) \/ CheckAgain(h) \/ Acquire(h)
           \/ NextMessage(h) \/ GetsTicket(h) \/ StaleTgt(h) \/ CredentialRefused(h)
           \/ KdcError(h) \/ Accepted(h) \/ Forget(h) \/ Abandon(h)
    PROVE  KdcInv'
<1>1. pc \in [Handshakes -> PcValues] BY DEF TurnInv, TurnTyped
<1>2. /\ pc' = [pc EXCEPT ![h] = pc'[h]] /\ pc'[h] # "try"
      /\ UNCHANGED <<clock, known, addresses, at, answered>>
  BY <1>1
  DEF Begin, Choose, LockAsking, CheckAgain, Acquire, NextMessage, GetsTicket, StaleTgt,
      CredentialRefused, KdcError, NoTicketFor, Accepted, Forget, Abandon
<1> QED BY <1>2, KdcKept

LEMMA KdcStill == ASSUME KdcInv, Tick \/ UNCHANGED vars PROVE KdcInv'
BY DEF KdcInv, Trying, Tick, vars

\* With one account, what is known of the realm while a KDC is tried is the list it is tried from, so
\* the KDC that answers is put first in the list that is known.
THEOREM KdcInvariant == ASSUME OneAccount PROVE Spec => []KdcInv
<1>1. Init => KdcInv BY DEF Init, KdcInv, Unknown
<1>2. TurnInv /\ KdcInv /\ [Next]_vars => KdcInv'
  <2> SUFFICES ASSUME TurnInv, KdcInv, [Next]_vars PROVE KdcInv' OBVIOUS
  <2>1. ASSUME NEW h \in Handshakes, Advance(h) \/ Abandon(h) PROVE KdcInv'
    BY <2>1, KdcLookup, KdcResolve, KdcAnswers, KdcSilent, KdcElsewhere DEF Advance
  <2> QED BY <2>1, KdcStill DEF Next, Finished
<1> QED BY <1>1, <1>2, TurnInvariant, PTL DEF Spec

\* With one account, the KDC that last answered is the first to be tried, for any number of KDCs and
\* handshakes (kdc.rs send).
THEOREM AnsweredFirst == ASSUME OneAccount PROVE Spec => []LastAnsweredFirst
<1>1. KdcInv => LastAnsweredFirst BY DEF KdcInv, LastAnsweredFirst
<1> QED BY <1>1, KdcInvariant, PTL
=============================================================================
