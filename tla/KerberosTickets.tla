--------------------------- MODULE KerberosTickets --------------------------
(***************************************************************************)
(* Getting, keeping and forgetting Kerberos tickets:                       *)
(* crates/mapi-client/src/kerberos.rs and kerberos/kdc.rs, as the          *)
(* handshakes of handshake.rs use them.                                    *)
(*                                                                         *)
(* Handshakes run at once.  Each account has one cache, guarded by a mutex *)
(* held for an instant, and one lock held while its KDCs are asked; what   *)
(* is known of the realm's KDCs is shared by every account.  Every step    *)
(* between two awaits, or between two holdings of a mutex, is one action.  *)
(*                                                                         *)
(* Abstractions.  One realm, which every account and service is in.  Time  *)
(* passes in steps of a minute.  What a KDC answers is its choice, but the *)
(* messages of a request are the three there are without a skewed clock    *)
(* and without referrals, which are KerberosClient's.                      *)
(***************************************************************************)
EXTENDS Naturals, Sequences, FiniteSets

CONSTANTS
    Handshakes,    \* handshakes that may offer Kerberos
    Accounts,      \* accounts, each with its own Kerberos (see without_tickets)
    Services,      \* servers authenticated to
    AccountOf, ServiceOf,
    Kdcs,          \* the realm's KDCs, as the resolver or the locator lists them
    RetryAfter, KeepFor, Margin,     \* RETRY_AFTER, KEEP_FOR and MARGIN, in steps of the clock
    Life,          \* how long a ticket lasts
    MaxTime,       \* bound: the clock's last step
    None

ASSUME HandshakesAssumption ==
    AccountOf \in [Handshakes -> Accounts] /\ ServiceOf \in [Handshakes -> Services]
ASSUME TimesAssumption ==
    /\ RetryAfter \in Nat \ {0} /\ KeepFor \in Nat \ {0} /\ Margin \in Nat
    /\ Life \in Nat /\ MaxTime \in Nat
ASSUME KdcsAssumption == Kdcs \in Seq(STRING) /\ Kdcs # <<>>
ASSUME NoneAssumption == None \notin Handshakes

VARIABLES
    clock,
    \* per account: Kerberos
    tgt,            \* Cache::tgt
    services,       \* Cache::services
    unavailable,    \* Cache::unavailable: until when each service is believed to get no ticket
    asking,         \* who holds Kerberos::asking
    \* per realm: Realms
    known,          \* what is known of its KDCs, and until when
    \* per handshake
    pc,
    ticket,         \* the ticket it offers
    started,        \* the TGT its request started from
    message,        \* the message it is asking a KDC to answer
    addresses,      \* the KDCs to try for this message
    at,             \* which of them is being tried
    \* history
    issued,         \* how many tickets there have been
    spared,         \* handshakes that waited while another asked the same, and was answered
    dead,           \* TGTs a KDC has refused
    answered        \* the KDC that last answered, since the realm was last looked up

cacheVars     == <<tgt, services, unavailable>>
handshakeVars == <<pc, ticket, started, message, addresses, at>>
historyVars   == <<issued, spared, dead, answered>>
vars == <<clock, cacheVars, asking, known, handshakeVars, historyVars>>

NoTicket == [serial |-> 0, expires |-> 0]
Unknown == [until |-> 0, kdcs |-> <<>>]         \* no KDCs and no reason: what is known has run out

PcValues == {"begin", "opening", "queue", "check", "acquire", "lookup", "resolve", "try", "reply",
             "offer", "ntlm", "refused", "done"}
Asking == {"check", "acquire", "lookup", "resolve", "try", "reply"}

Init ==
    /\ clock = 0
    /\ tgt = [a \in Accounts |-> NoTicket]
    /\ services = [a \in Accounts |-> [s \in Services |-> NoTicket]]
    /\ unavailable = [a \in Accounts |-> [s \in Services |-> 0]]
    /\ asking = [a \in Accounts |-> None]
    /\ known = Unknown
    /\ pc = [h \in Handshakes |-> "begin"]
    /\ ticket = [h \in Handshakes |-> NoTicket]
    /\ started = [h \in Handshakes |-> NoTicket]
    /\ message = [h \in Handshakes |-> "none"]
    /\ addresses = [h \in Handshakes |-> <<>>]
    /\ at = [h \in Handshakes |-> 1]
    /\ issued = 0 /\ spared = {} /\ dead = {} /\ answered = None

-----------------------------------------------------------------------------
(* What is remembered *)

Goto(h, place) == pc' = [pc EXCEPT ![h] = place]

\* Worth presenting still, MARGIN before its end.
Fresh(held, now) == held.expires > now + Margin

Cached(h) == services[AccountOf[h]][ServiceOf[h]]

\* Realms::known: nothing once its time is up.
Known == IF known.until > clock THEN known ELSE Unknown

Unreachable == known.until > clock /\ known.kdcs = <<>>

\* Kerberos::unavailable: why not to ask for a ticket, unless one is cached.
Unavailable(h) ==
    /\ ~Fresh(Cached(h), clock)
    /\ unavailable[AccountOf[h]][ServiceOf[h]] > clock \/ Unreachable

\* Realms::remember: some KDCs for KEEP_FOR, none for RETRY_AFTER.
RealmKnown(kdcs) ==
    known' = [until |-> clock + (IF kdcs = <<>> THEN RetryAfter ELSE KeepFor), kdcs |-> kdcs]

Asked(h) == {g \in Handshakes : /\ pc[g] = "queue"
                                /\ AccountOf[g] = AccountOf[h] /\ ServiceOf[g] = ServiceOf[h]}

\* The turn to ask passes on.
Release(h) == asking' = [asking EXCEPT ![AccountOf[h]] = IF @ = h THEN None ELSE @]

-----------------------------------------------------------------------------
(* Negotiation::begin and choose; Kerberos::ticket *)

Begin(h) ==
    /\ pc[h] = "begin"
    /\ Goto(h, IF Unavailable(h) THEN "ntlm" ELSE "opening")
    /\ UNCHANGED <<clock, cacheVars, asking, known, ticket, started, message, addresses, at,
                   historyVars>>

\* On the first 401: a ticket already held needs no turn.
Choose(h) ==
    /\ pc[h] = "opening"
    /\ IF Fresh(Cached(h), clock)
         THEN Goto(h, "offer") /\ ticket' = [ticket EXCEPT ![h] = Cached(h)]
         ELSE Goto(h, "queue") /\ UNCHANGED ticket
    /\ UNCHANGED <<clock, cacheVars, asking, known, started, message, addresses, at, historyVars>>

AskUnlocked(h) ==               \* mutant: waits for the turn, and does not keep it
    /\ pc[h] = "queue"
    /\ asking[AccountOf[h]] = None
    /\ Goto(h, "check")
    /\ UNCHANGED <<clock, cacheVars, asking, known, ticket, started, message, addresses, at,
                   historyVars>>

LockAsking(h) ==
    /\ pc[h] = "queue"
    /\ asking[AccountOf[h]] = None
    /\ asking' = [asking EXCEPT ![AccountOf[h]] = h]
    /\ Goto(h, "check")
    /\ UNCHANGED <<clock, cacheVars, known, ticket, started, message, addresses, at, historyVars>>

CheckNothing(h) ==              \* mutant: what came to nothing while it waited is not looked up
    /\ pc[h] = "check"
    /\ Goto(h, "acquire")
    /\ UNCHANGED <<clock, cacheVars, asking, known, ticket, started, message, addresses, at,
                   historyVars>>

\* Another may have asked while this one waited, and come to nothing.
CheckAgain(h) ==
    /\ pc[h] = "check"
    /\ IF Unavailable(h)
         THEN Goto(h, "ntlm") /\ Release(h)
         ELSE Goto(h, "acquire") /\ UNCHANGED asking
    /\ UNCHANGED <<clock, cacheVars, known, ticket, started, message, addresses, at, historyVars>>

\* Another may have got the ticket; a TGT spares the password.
Acquire(h) ==
    /\ pc[h] = "acquire"
    /\ IF Fresh(Cached(h), clock)
         THEN /\ Goto(h, "offer")
              /\ ticket' = [ticket EXCEPT ![h] = Cached(h)]
              /\ Release(h)
              /\ UNCHANGED <<started, message>>
         ELSE /\ Goto(h, "lookup")
              /\ LET held == tgt[AccountOf[h]] IN
                 IF Fresh(held, clock)
                   THEN /\ started' = [started EXCEPT ![h] = held]
                        /\ message' = [message EXCEPT ![h] = "tgs"]
                   ELSE /\ started' = [started EXCEPT ![h] = NoTicket]
                        /\ message' = [message EXCEPT ![h] = "as"]
              /\ UNCHANGED <<ticket, asking>>
    /\ UNCHANGED <<clock, cacheVars, known, addresses, at, historyVars>>

\* The request came to no ticket: remembered for RETRY_AFTER, and NTLM goes on.
NoTicketFor(h) ==
    /\ unavailable' = [unavailable EXCEPT ![AccountOf[h]][ServiceOf[h]] = clock + RetryAfter]
    /\ Release(h)
    /\ spared' = spared \cup Asked(h)
    /\ Goto(h, "ntlm")

-----------------------------------------------------------------------------
(* kdc::send *)

Lookup(h) ==
    /\ pc[h] = "lookup"
    /\ IF Unreachable
         THEN NoTicketFor(h) /\ UNCHANGED <<addresses, at>>
         ELSE /\ IF Known # Unknown
                   THEN /\ addresses' = [addresses EXCEPT ![h] = Known.kdcs]
                        /\ at' = [at EXCEPT ![h] = 1]
                        /\ Goto(h, "try")
                   ELSE Goto(h, "resolve") /\ UNCHANGED <<addresses, at>>
              /\ UNCHANGED <<unavailable, asking, spared>>
    /\ UNCHANGED <<clock, tgt, services, known, ticket, started, message, issued, dead, answered>>

Resolve(h) ==
    /\ pc[h] = "resolve"
    /\ \/ /\ RealmKnown(Kdcs)
          /\ addresses' = [addresses EXCEPT ![h] = Kdcs]
          /\ at' = [at EXCEPT ![h] = 1]
          /\ Goto(h, "try")
          /\ answered' = None
          /\ UNCHANGED <<unavailable, asking, spared>>
       \/ /\ RealmKnown(<<>>)
          /\ NoTicketFor(h)
          /\ UNCHANGED <<addresses, at, answered>>
    /\ UNCHANGED <<clock, tgt, services, ticket, started, message, issued, dead>>

RotateLeft(kdcs, n) == SubSeq(kdcs, n + 1, Len(kdcs)) \o SubSeq(kdcs, 1, n)

AnswersUnnoticed(h) ==          \* mutant: the order is never changed
    /\ pc[h] = "try"
    /\ answered' = addresses[h][at[h]]
    /\ Goto(h, "reply")
    /\ UNCHANGED <<clock, cacheVars, asking, known, ticket, started, message, addresses, at,
                   issued, spared, dead>>

\* A KDC answers, and is the first to be tried next time.
Answers(h) ==
    /\ pc[h] = "try"
    /\ IF at[h] > 1 THEN RealmKnown(RotateLeft(addresses[h], at[h] - 1)) ELSE UNCHANGED known
    /\ answered' = addresses[h][at[h]]
    /\ Goto(h, "reply")
    /\ UNCHANGED <<clock, cacheVars, asking, ticket, started, message, addresses, at,
                   issued, spared, dead>>

\* It does not, or not in time: the next, or none is left and the realm is left alone.
Silent(h) ==
    /\ pc[h] = "try"
    /\ IF at[h] < Len(addresses[h])
         THEN /\ at' = [at EXCEPT ![h] = @ + 1]
              /\ UNCHANGED <<pc, known, unavailable, asking, spared>>
         ELSE /\ RealmKnown(<<>>)
              /\ NoTicketFor(h)
              /\ UNCHANGED at
    /\ UNCHANGED <<clock, tgt, services, ticket, started, message, addresses, issued, dead,
                   answered>>

-----------------------------------------------------------------------------
(* TicketRequest::receive, and what acquire makes of it *)

\* A next message: the password's proof, if the first is answered by asking for it, or the service's
\* ticket once there is a TGT.
NextMessage(h) ==
    /\ pc[h] = "reply" /\ message[h] \in {"as", "preauth"}
    /\ \E next \in {"preauth", "tgs"} \ {message[h]} : message' = [message EXCEPT ![h] = next]
    /\ Goto(h, "lookup")
    /\ UNCHANGED <<clock, cacheVars, asking, known, ticket, started, addresses, at, historyVars>>

\* Tickets: both are kept, and what has expired goes.
GetsTicket(h) ==
    /\ pc[h] = "reply" /\ message[h] = "tgs"
    /\ LET Granted(n) == [serial |-> issued + n, expires |-> clock + Life]
           a == AccountOf[h] IN
       /\ tgt' = [tgt EXCEPT ![a] = IF started[h] = NoTicket THEN Granted(2) ELSE started[h]]
       /\ services' = [services EXCEPT ![a] =
              [s \in Services |-> IF s = ServiceOf[h] THEN Granted(1)
                                  ELSE IF Fresh(@[s], clock) THEN @[s] ELSE NoTicket]]
       /\ ticket' = [ticket EXCEPT ![h] = Granted(1)]
    /\ issued' = issued + 2
    /\ Release(h)
    /\ spared' = spared \cup Asked(h)
    /\ Goto(h, "offer")
    /\ UNCHANGED <<clock, unavailable, known, started, message, addresses, at, dead, answered>>

StaleTgtKept(h) ==              \* mutant: the request starts over, the cache keeps the TGT
    /\ pc[h] = "reply" /\ message[h] = "tgs" /\ started[h] # NoTicket
    /\ started' = [started EXCEPT ![h] = NoTicket]
    /\ message' = [message EXCEPT ![h] = "as"]
    /\ dead' = dead \cup {started[h]}
    /\ Goto(h, "lookup")
    /\ UNCHANGED <<clock, cacheVars, asking, known, ticket, addresses, at, issued, spared,
                   answered>>

StaleTgtAgain(h) ==             \* mutant: the request starts over with the TGT it had
    /\ pc[h] = "reply" /\ message[h] = "tgs" /\ started[h] # NoTicket
    /\ tgt' = [tgt EXCEPT ![AccountOf[h]] = NoTicket]
    /\ dead' = dead \cup {started[h]}
    /\ Goto(h, "lookup")
    /\ UNCHANGED <<clock, services, unavailable, asking, known, ticket, started, message, addresses,
                   at, issued, spared, answered>>

\* The TGT the request started from is refused: dropped, and the password asked instead.
StaleTgt(h) ==
    /\ pc[h] = "reply" /\ message[h] = "tgs" /\ started[h] # NoTicket
    /\ tgt' = [tgt EXCEPT ![AccountOf[h]] = NoTicket]
    /\ started' = [started EXCEPT ![h] = NoTicket]
    /\ message' = [message EXCEPT ![h] = "as"]
    /\ dead' = dead \cup {started[h]}
    /\ Goto(h, "lookup")
    /\ UNCHANGED <<clock, services, unavailable, asking, known, ticket, addresses, at, issued,
                   spared, answered>>

\* The KDC refuses the credential, whichever message says so: reported, and remembered nowhere.
CredentialRefused(h) ==
    /\ pc[h] = "reply"
    /\ Release(h)
    /\ Goto(h, "refused")
    /\ UNCHANGED <<clock, cacheVars, known, ticket, started, message, addresses, at, historyVars>>

\* Anything else the KDC says.
KdcError(h) ==
    /\ pc[h] = "reply"
    /\ NoTicketFor(h)
    /\ UNCHANGED <<clock, tgt, services, known, ticket, started, message, addresses, at, issued,
                   dead, answered>>

-----------------------------------------------------------------------------
(* The service's answer, and the ways out *)

Accepted(h) ==
    /\ pc[h] = "offer"
    /\ Goto(h, "done")
    /\ UNCHANGED <<clock, cacheVars, asking, known, ticket, started, message, addresses, at,
                   historyVars>>

\* The server refused the handshake: Kerberos::forget, by the service's name.
Forget(h) ==
    /\ pc[h] = "offer"
    /\ services' = [services EXCEPT ![AccountOf[h]][ServiceOf[h]] = NoTicket]
    /\ spared' = {g \in spared : AccountOf[g] # AccountOf[h] \/ ServiceOf[g] # ServiceOf[h]}
    /\ Goto(h, "done")
    /\ UNCHANGED <<clock, tgt, unavailable, asking, known, ticket, started, message, addresses, at,
                   issued, dead, answered>>

\* The future is dropped at an await, and the turn with it.
Abandon(h) ==
    /\ pc[h] \in {"opening", "queue", "resolve", "try", "offer"}
    /\ Release(h)
    /\ Goto(h, "done")
    /\ UNCHANGED <<clock, cacheVars, known, ticket, started, message, addresses, at, historyVars>>

\* A minute passes.  What was spared a minute ago may be asked again.
Tick ==
    /\ clock < MaxTime
    /\ clock' = clock + 1
    /\ spared' = {}
    /\ UNCHANGED <<cacheVars, asking, known, handshakeVars, issued, dead, answered>>

Finished ==
    /\ \A h \in Handshakes : pc[h] \in {"ntlm", "refused", "done"}
    /\ UNCHANGED vars

-----------------------------------------------------------------------------
Advance(h) ==
    \/ Begin(h) \/ Choose(h) \/ LockAsking(h) \/ CheckAgain(h) \/ Acquire(h)
    \/ Lookup(h) \/ Resolve(h) \/ Answers(h) \/ Silent(h)
    \/ NextMessage(h) \/ GetsTicket(h) \/ StaleTgt(h) \/ CredentialRefused(h) \/ KdcError(h)
    \/ Accepted(h) \/ Forget(h)

Next ==
    \/ \E h \in Handshakes : Advance(h) \/ Abandon(h)
    \/ Tick
    \/ Finished

Spec == Init /\ [][Next]_vars

\* Every exchange with a KDC ends, by its timeout if not before, and tokio's mutex is handed over in
\* order.  Nothing makes a caller give up, or a minute pass.
FairSpec == Spec /\ \A h \in Handshakes : WF_vars(Advance(h))

-----------------------------------------------------------------------------
(* Properties *)

\* Handshakes that waited while another asked the KDCs the same find the ticket, or the reason
\* there is none, in the cache: they do not ask again (kerberos.rs:140-142).
AskOnce == \A h \in spared : pc[h] \notin {"lookup", "resolve", "try", "reply"}

\* One handshake of an account asks at a time: what acquire reads of the cache before its awaits is
\* still so after them.
OneAsks ==
    \A g, h \in Handshakes :
        (pc[g] \in Asking /\ pc[h] \in Asking /\ AccountOf[g] = AccountOf[h]) => g = h

\* A TGT a KDC has refused is not presented again, by this handshake or a later one
\* (kerberos.rs:286-288).
DeadStaysDead ==
    \A h \in Handshakes : (pc[h] \in {"lookup", "resolve", "try"} /\ message[h] = "tgs") =>
        started[h] \notin dead

\* While one account asks, the KDC that last answered is the first to be tried (kdc.rs:42-44).
LastAnsweredFirst ==
    (known.until > clock /\ known.kdcs # <<>> /\ answered # None) => Head(known.kdcs) = answered

\* Every handshake comes to a ticket's answer, a refusal or NTLM, whatever the KDCs do.
EveryHandshakeEnds == \A h \in Handshakes : <>(pc[h] \in {"ntlm", "refused", "done"})

=============================================================================
