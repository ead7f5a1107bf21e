------------------------------ MODULE LanePool ------------------------------
(***************************************************************************)
(* The authenticated connections of one client and its clones:             *)
(* crates/mapi-client/src/transport/pool.rs and transport/negotiated.rs,   *)
(* with the restart rule of handshake.rs.                                  *)
(*                                                                         *)
(* A request borrows a LANE (an HTTP client with one connection per        *)
(* origin), reuses it when it is believed authenticated, and otherwise     *)
(* passes its origin's GATE and runs a handshake.  Every operation that is *)
(* atomic in the code (one mutex held, one atomic load or store, one       *)
(* message exchanged) is one action here, so the steps of concurrent       *)
(* requests interleave as the threads of a tokio runtime do.               *)
(*                                                                         *)
(* Abstractions.  The idle list is a set: which of several warm lanes is   *)
(* lent, or which cold one, is any choice rather than the last returned.   *)
(* The legs between the first challenge and the reply that ends a          *)
(* handshake are one exchange.  A request is one call of Transport::send.  *)
(***************************************************************************)
EXTENDS Naturals, FiniteSets

CONSTANTS
    Requests,      \* calls of Transport::send, each made once
    Origins,       \* servers the client and its clones send to
    OriginOf,      \* the origin each request is for
    Connections,   \* max_authenticated_connections
    MaxAttempts,   \* MAX_ATTEMPTS of handshake.rs
    MaxChanges,    \* bound: how often the server's verdict on the password changes
    Unchallenged,  \* whether a server may answer other than 401 to a request without credentials
    First,         \* the lane made of the builder's own client
    None           \* no lane, no turn holder

ASSUME RequestsAssumption == IsFiniteSet(Requests) /\ OriginOf \in [Requests -> Origins]
ASSUME BoundsAssumption ==
    /\ Connections \in Nat \ {0}
    /\ MaxAttempts \in Nat \ {0}
    /\ MaxChanges \in Nat
    /\ Unchallenged \in BOOLEAN
ASSUME NamesAssumption ==
    /\ First \notin Requests
    /\ None \notin Requests \cup {First}

VARIABLES
    \* per request
    pc,            \* where in send_negotiated the request is
    lane,          \* the lane its Lease holds
    seen,          \* the refusal count read before waiting for the turn
    gated,         \* whether it holds a Turn object, to be settled
    attempt,       \* the handshake attempt, 0 before the first
    outcome,       \* what the caller will be given: a reply of whatever status but 401, a refusal, or neither
    warm,          \* lane.is_authenticated() when the lane goes back
    \* the pool
    idle,          \* the lanes no request holds
    made,          \* every lane there is
    belief,        \* Lane::authenticated
    proven,        \* Gate::proven
    turn,          \* who holds Gate::turn
    count,         \* Refusals::count
    \* the servers
    conn,          \* each lane's connection to each origin
    good,          \* whether the server accepts this client's password
    changes,
    \* history
    accepted,      \* origins whose server has accepted a handshake
    spared         \* requests that were waiting when a handshake to their origin was refused

requestVars == <<pc, lane, seen, gated, attempt, outcome, warm>>
poolVars    == <<idle, made, belief, proven, turn, count>>
serverVars  == <<conn, good, changes>>
historyVars == <<accepted, spared>>
vars == <<requestVars, poolVars, serverVars, historyVars>>

Lanes == Requests \cup {First}    \* a request builds at most one lane: it names the lane

PcValues == {"new", "permitted", "leased", "reusing", "gate", "counting", "waiting", "granted",
             "confirm", "trade", "retry", "again", "opening", "plain", "answering",
             "handback", "release", "settle", "record", "free", "done"}

\* The handshake's awaits: from its first message to the reply that ends it.
Handshaking == {"opening", "plain", "answering"}

\* Where the request has a message of its own under way on its lane's connection.
InFlight == {"reusing", "again"} \cup Handshaking

HoldsPermitUntilDrop(r) ==      \* mutant: the permit goes before the lane does
    pc[r] \notin {"new", "handback", "release", "settle", "record", "free", "done"}

\* A permit is held from acquire until the Lease's field is dropped, after the lane went back.
HoldsPermit(r) == pc[r] \notin {"new", "settle", "record", "free", "done"}

Permitted == {r \in Requests : HoldsPermit(r)}

Init ==
    /\ pc = [r \in Requests |-> "new"]
    /\ lane = [r \in Requests |-> None]
    /\ seen = [r \in Requests |-> 0]
    /\ gated = [r \in Requests |-> FALSE]
    /\ attempt = [r \in Requests |-> 0]
    /\ outcome = [r \in Requests |-> "none"]
    /\ warm = [r \in Requests |-> FALSE]
    /\ idle = {First}
    /\ made = {First}
    /\ belief = [l \in Lanes |-> {}]
    /\ proven = [o \in Origins |-> FALSE]
    /\ turn = [o \in Origins |-> None]
    /\ count = [o \in Origins |-> 0]
    /\ conn = [l \in Lanes |-> [o \in Origins |-> "fresh"]]
    /\ good \in [Origins -> BOOLEAN]
    /\ changes = 0
    /\ accepted = {}
    /\ spared = {}

-----------------------------------------------------------------------------
(* Helpers.  Each constrains the primed values of the variables it names.  *)

Goto(r, place) == pc' = [pc EXCEPT ![r] = place]

IsAuthenticated(r) == OriginOf[r] \in belief[lane[r]]

Believed(r, authenticated) ==
    [belief EXCEPT ![lane[r]] = IF authenticated THEN @ \cup {OriginOf[r]}
                                                 ELSE @ \ {OriginOf[r]}]

SetAuthenticated(r, authenticated) == belief' = Believed(r, authenticated)

\* The connection of r's lane to r's origin is now in this state: "fresh" (none, or one the server
\* has not let a request through on), "served", or "lapsed" (served, and since given up by the
\* server without the client knowing).
Connection(r, state) == conn' = [conn EXCEPT ![lane[r]][OriginOf[r]] = state]

WarmLanes(o) == {l \in idle : o \in belief[l]}

\* The request's outcome is settled and its lane is to go back, believed authenticated or not.
Conclude(r, result, authenticated) ==
    /\ outcome' = [outcome EXCEPT ![r] = result]
    /\ warm' = [warm EXCEPT ![r] = authenticated]
    /\ SetAuthenticated(r, authenticated)
    /\ Goto(r, "handback")

\* The turn, if r holds it, passes on.
FreeTurn(r) == turn' = [turn EXCEPT ![OriginOf[r]] = IF @ = r THEN None ELSE @]

-----------------------------------------------------------------------------
(* Pool::lease *)

Acquire(r) ==
    /\ pc[r] = "new"
    /\ Cardinality(Permitted) < Connections
    /\ Goto(r, "permitted")
    /\ UNCHANGED <<lane, seen, gated, attempt, outcome, warm, poolVars, serverVars, historyVars>>

\* A warm lane before a cold one, and a new one only when none is idle.
TakeLane(r) ==
    /\ pc[r] = "permitted"
    /\ \/ /\ \E l \in (IF WarmLanes(OriginOf[r]) # {} THEN WarmLanes(OriginOf[r]) ELSE idle) :
               /\ lane' = [lane EXCEPT ![r] = l]
               /\ idle' = idle \ {l}
          /\ UNCHANGED made
       \/ /\ idle = {}
          /\ lane' = [lane EXCEPT ![r] = r]
          /\ made' = made \cup {r}
          /\ UNCHANGED idle
    /\ Goto(r, "leased")
    /\ UNCHANGED <<seen, gated, attempt, outcome, warm, belief, proven, turn, count,
                   serverVars, historyVars>>

\* HttpSettings::client failed: the permit is dropped and the caller is told.
BuildFails(r) ==
    /\ pc[r] = "permitted"
    /\ idle = {}
    /\ Goto(r, "done")
    /\ outcome' = [outcome EXCEPT ![r] = "failed"]
    /\ UNCHANGED <<lane, seen, gated, attempt, warm, poolVars, serverVars, historyVars>>

-----------------------------------------------------------------------------
(* Transport::reuse, called before the gate and again after it *)

ReuseStillBelieved(r) ==        \* mutant: the belief is not cleared before the request is sent
    /\ pc[r] \in {"leased", "retry"}
    /\ IF IsAuthenticated(r)
         THEN Goto(r, IF pc[r] = "leased" THEN "reusing" ELSE "again") /\ UNCHANGED attempt
         ELSE IF pc[r] = "leased"
           THEN Goto(r, "gate") /\ UNCHANGED attempt
           ELSE Goto(r, "opening") /\ attempt' = [attempt EXCEPT ![r] = 1]
    /\ UNCHANGED <<lane, seen, gated, outcome, warm, poolVars, serverVars, historyVars>>

\* The belief is cleared before the request is sent.
Reuse(r) ==
    /\ pc[r] \in {"leased", "retry"}
    /\ IF IsAuthenticated(r)
         THEN /\ SetAuthenticated(r, FALSE)
              /\ Goto(r, IF pc[r] = "leased" THEN "reusing" ELSE "again")
              /\ UNCHANGED attempt
         ELSE /\ IF pc[r] = "leased"
                   THEN Goto(r, "gate") /\ UNCHANGED attempt
                   ELSE Goto(r, "opening") /\ attempt' = [attempt EXCEPT ![r] = 1]
              /\ UNCHANGED belief
    /\ UNCHANGED <<lane, seen, gated, outcome, warm, idle, made, proven, turn, count,
                   serverVars, historyVars>>

\* Answered: the reply is the caller's, whatever its status but 401.
ReuseServed(r) ==
    /\ pc[r] \in {"reusing", "again"}
    /\ conn[lane[r]][OriginOf[r]] = "served" \/ Unchallenged
    /\ Connection(r, "served")
    /\ Conclude(r, "answered", TRUE)
    /\ UNCHANGED <<lane, seen, gated, attempt, idle, made, proven, turn, count, good, changes,
                   historyVars>>

\* A 401, on a connection the server does not know: Lease::doubt.
ReuseDoubted(r) ==
    /\ pc[r] \in {"reusing", "again"}
    /\ conn[lane[r]][OriginOf[r]] # "served"
    /\ Connection(r, "fresh")
    /\ proven' = [proven EXCEPT ![OriginOf[r]] = FALSE]
    /\ IF pc[r] = "reusing"
         THEN Goto(r, "gate") /\ UNCHANGED attempt
         ELSE Goto(r, "opening") /\ attempt' = [attempt EXCEPT ![r] = 1]
    /\ UNCHANGED <<lane, seen, gated, outcome, warm, idle, made, belief, turn, count,
                   good, changes, historyVars>>

-----------------------------------------------------------------------------
(* Pool::turn *)

LoadProven(r) ==
    /\ pc[r] = "gate"
    /\ IF proven[OriginOf[r]]
         THEN Goto(r, "trade") /\ gated' = [gated EXCEPT ![r] = TRUE]
         ELSE Goto(r, "counting") /\ UNCHANGED gated
    /\ UNCHANGED <<lane, seen, attempt, outcome, warm, poolVars, serverVars, historyVars>>

ReadCount(r) ==
    /\ pc[r] = "counting"
    /\ seen' = [seen EXCEPT ![r] = count[OriginOf[r]]]
    /\ Goto(r, "waiting")
    /\ UNCHANGED <<lane, gated, attempt, outcome, warm, poolVars, serverVars, historyVars>>

LockTurnThenCount(r) ==         \* mutant: the refusals are counted once the turn is had
    /\ pc[r] = "waiting"
    /\ turn[OriginOf[r]] = None
    /\ turn' = [turn EXCEPT ![OriginOf[r]] = r]
    /\ seen' = [seen EXCEPT ![r] = count[OriginOf[r]]]
    /\ Goto(r, "granted")
    /\ UNCHANGED <<lane, gated, attempt, outcome, warm, idle, made, belief, proven, count,
                   serverVars, historyVars>>

LockTurn(r) ==
    /\ pc[r] = "waiting"
    /\ turn[OriginOf[r]] = None
    /\ turn' = [turn EXCEPT ![OriginOf[r]] = r]
    /\ Goto(r, "granted")
    /\ UNCHANGED <<lane, seen, gated, attempt, outcome, warm, idle, made, belief, proven, count,
                   serverVars, historyVars>>

CheckNothing(r) ==              \* mutant: a refusal while this one waited goes unnoticed
    /\ pc[r] = "granted"
    /\ Goto(r, "confirm")
    /\ UNCHANGED <<lane, seen, gated, attempt, outcome, warm, poolVars, serverVars, historyVars>>

\* A handshake to the same origin was refused while this one waited.
CheckRefusals(r) ==
    /\ pc[r] = "granted"
    /\ IF count[OriginOf[r]] # seen[r]
         THEN /\ outcome' = [outcome EXCEPT ![r] = "refused"]
              /\ FreeTurn(r)
              /\ Goto(r, "handback")
         ELSE /\ Goto(r, "confirm")
              /\ UNCHANGED <<outcome, turn>>
    /\ UNCHANGED <<lane, seen, gated, attempt, warm, idle, made, belief, proven, count,
                   serverVars, historyVars>>

ConfirmAndDrop(r) ==            \* mutant: the guard is dropped where it is bound
    /\ pc[r] = "confirm"
    /\ FreeTurn(r)
    /\ gated' = [gated EXCEPT ![r] = TRUE]
    /\ Goto(r, "trade")
    /\ UNCHANGED <<lane, seen, attempt, outcome, warm, idle, made, belief, proven, count,
                   serverVars, historyVars>>

\* The lock is kept only while no handshake has succeeded.
ConfirmTurn(r) ==
    /\ pc[r] = "confirm"
    /\ IF proven[OriginOf[r]] THEN FreeTurn(r) ELSE UNCHANGED turn
    /\ gated' = [gated EXCEPT ![r] = TRUE]
    /\ Goto(r, "trade")
    /\ UNCHANGED <<lane, seen, attempt, outcome, warm, idle, made, belief, proven, count,
                   serverVars, historyVars>>

-----------------------------------------------------------------------------
(* Lease::trade_for_warm, and the handshake *)

TradeForCopy(r) ==              \* mutant: the warm lane stays in the idle list
    /\ pc[r] = "trade"
    /\ IF IsAuthenticated(r) \/ WarmLanes(OriginOf[r]) = {}
         THEN UNCHANGED <<lane, idle>>
         ELSE \E l \in WarmLanes(OriginOf[r]) :
                /\ idle' = idle \cup {lane[r]}
                /\ lane' = [lane EXCEPT ![r] = l]
    /\ Goto(r, "retry")
    /\ UNCHANGED <<seen, gated, attempt, outcome, warm, made, belief, proven, turn, count,
                   serverVars, historyVars>>

TradeForWarm(r) ==
    /\ pc[r] = "trade"
    /\ IF IsAuthenticated(r) \/ WarmLanes(OriginOf[r]) = {}
         THEN UNCHANGED <<lane, idle>>
         ELSE \E l \in WarmLanes(OriginOf[r]) :
                /\ idle' = (idle \ {l}) \cup {lane[r]}
                /\ lane' = [lane EXCEPT ![r] = l]
    /\ Goto(r, "retry")
    /\ UNCHANGED <<seen, gated, attempt, outcome, warm, made, belief, proven, turn, count,
                   serverVars, historyVars>>

\* The first leg carries no request.  A 401 that offers the scheme goes on; one that does not, or a
\* KDC that refuses the credential, is a refusal; anything else is not a challenge.
Open(r) ==
    /\ pc[r] = "opening"
    /\ \/ Goto(r, "answering") /\ UNCHANGED <<outcome, warm, belief>>
       \/ Unchallenged /\ Goto(r, "plain") /\ UNCHANGED <<outcome, warm, belief>>
       \/ Conclude(r, "refused", FALSE)
    /\ UNCHANGED <<lane, seen, gated, attempt, idle, made, proven, turn, count,
                   serverVars, historyVars>>

\* Without a challenge the real request is sent as it is, and its own status speaks.
SendPlain(r) ==
    /\ pc[r] = "plain"
    /\ \/ Connection(r, "served") /\ Conclude(r, "answered", TRUE)
       \/ Connection(r, "fresh") /\ Conclude(r, "refused", FALSE)
    /\ UNCHANGED <<lane, seen, gated, attempt, idle, made, proven, turn, count, good, changes,
                   historyVars>>

\* The server accepts the password.  The lane is believed authenticated only if the server's last
\* token checks out as well.
Accept(r) ==
    /\ pc[r] = "answering"
    /\ good[OriginOf[r]]
    /\ Connection(r, "served")
    /\ \/ Conclude(r, "answered", TRUE)
       \/ Conclude(r, "refused", FALSE)
    /\ accepted' = accepted \cup {OriginOf[r]}
    /\ UNCHANGED <<lane, seen, gated, attempt, idle, made, proven, turn, count, good, changes,
                   spared>>

\* The server refuses the password, or a failing one answers the last leg with something else.
Refuse(r) ==
    /\ pc[r] = "answering"
    /\ \/ ~good[OriginOf[r]] /\ Connection(r, "fresh") /\ Conclude(r, "refused", FALSE)
       \/ Unchallenged /\ Connection(r, "served") /\ Conclude(r, "answered", TRUE)
    /\ UNCHANGED <<lane, seen, gated, attempt, idle, made, proven, turn, count, good, changes,
                   historyVars>>

\* The leg was refused on another connection than the one it answered: the handshake starts again,
\* unless this attempt is the last, whose refusal is believed.
Moved(r) ==
    /\ pc[r] = "answering"
    /\ Connection(r, "fresh")
    /\ IF attempt[r] < MaxAttempts
         THEN /\ attempt' = [attempt EXCEPT ![r] = @ + 1]
              /\ Goto(r, "opening")
              /\ UNCHANGED <<outcome, warm, belief>>
         ELSE Conclude(r, "refused", FALSE) /\ UNCHANGED attempt
    /\ UNCHANGED <<lane, seen, gated, idle, made, proven, turn, count, good, changes,
                   historyVars>>

\* The exchange fails or times out: an outcome like another, with the connection lost.
HandshakeFails(r) ==
    /\ pc[r] \in Handshaking
    /\ Connection(r, "fresh")
    /\ Conclude(r, "failed", FALSE)
    /\ UNCHANGED <<lane, seen, gated, attempt, idle, made, proven, turn, count, good, changes,
                   historyVars>>

-----------------------------------------------------------------------------
(* The ways out: Drop for Lease, Turn::settle, and leaving by an error or by cancellation *)

AbandonKeepingTurn(r) ==        \* mutant: only settle gives the turn up
    /\ pc[r] \in InFlight \cup {"waiting"}
    /\ IF pc[r] \in InFlight THEN Connection(r, "fresh") ELSE UNCHANGED conn
    /\ gated' = [gated EXCEPT ![r] = FALSE]
    /\ outcome' = [outcome EXCEPT ![r] = "failed"]
    /\ Goto(r, "handback")
    /\ UNCHANGED <<lane, seen, attempt, warm, poolVars, good, changes, historyVars>>

\* The caller drops the future at an await, or `?` leaves reuse: the client discards the connection
\* in flight, and the locals go in reverse order, the turn unsettled before the lane.
Abandon(r) ==
    /\ pc[r] \in InFlight \cup {"waiting"}
    /\ IF pc[r] \in InFlight THEN Connection(r, "fresh") ELSE UNCHANGED conn
    /\ FreeTurn(r)
    /\ gated' = [gated EXCEPT ![r] = FALSE]
    /\ outcome' = [outcome EXCEPT ![r] = "failed"]
    /\ Goto(r, "handback")
    /\ UNCHANGED <<lane, seen, attempt, warm, idle, made, belief, proven, count, good, changes,
                   historyVars>>

\* Dropped while it waits for a permit, when there is nothing to give back.
AbandonQueue(r) ==
    /\ pc[r] = "new"
    /\ outcome' = [outcome EXCEPT ![r] = "failed"]
    /\ Goto(r, "done")
    /\ UNCHANGED <<lane, seen, gated, attempt, warm, poolVars, serverVars, historyVars>>

\* The body of drop, before any field of the Lease is dropped.
ReturnLane(r) ==
    /\ pc[r] = "handback"
    /\ idle' = idle \cup {lane[r]}
    /\ lane' = [lane EXCEPT ![r] = None]
    /\ Goto(r, "release")
    /\ UNCHANGED <<seen, gated, attempt, outcome, warm, made, belief, proven, turn, count,
                   serverVars, historyVars>>

ReleasePermit(r) ==
    /\ pc[r] = "release"
    /\ Goto(r, IF gated[r] THEN "settle" ELSE "done")
    /\ UNCHANGED <<lane, seen, gated, attempt, outcome, warm, poolVars, serverVars, historyVars>>

SettleEveryFailure(r) ==        \* mutant: whatever failed is counted as a refusal
    /\ pc[r] = "settle"
    /\ proven' = [proven EXCEPT ![OriginOf[r]] = warm[r]]
    /\ Goto(r, IF warm[r] THEN "free" ELSE "record")
    /\ UNCHANGED <<lane, seen, gated, attempt, outcome, warm, idle, made, belief, turn, count,
                   serverVars, accepted, spared>>

\* Turn::settle: a success proves the password, a refusal makes handshakes take turns again, any
\* other failure is neither.
Settle(r) ==
    /\ pc[r] = "settle"
    /\ IF warm[r]
         THEN /\ proven' = [proven EXCEPT ![OriginOf[r]] = TRUE]
              /\ Goto(r, "free")
         ELSE IF outcome[r] = "refused"
           THEN /\ proven' = [proven EXCEPT ![OriginOf[r]] = FALSE]
                /\ Goto(r, "record")
           ELSE Goto(r, "free") /\ UNCHANGED proven
    /\ UNCHANGED <<lane, seen, gated, attempt, outcome, warm, idle, made, belief, turn, count,
                   serverVars, accepted, spared>>

RecordRefusal(r) ==
    /\ pc[r] = "record"
    /\ count' = [count EXCEPT ![OriginOf[r]] = @ + 1]
    /\ spared' = spared \cup {s \in Requests : pc[s] = "waiting" /\ OriginOf[s] = OriginOf[r]}
    /\ Goto(r, "free")
    /\ UNCHANGED <<lane, seen, gated, attempt, outcome, warm, idle, made, belief, proven, turn,
                   serverVars, accepted>>

GiveUpTurn(r) ==
    /\ pc[r] = "free"
    /\ FreeTurn(r)
    /\ gated' = [gated EXCEPT ![r] = FALSE]
    /\ Goto(r, "done")
    /\ UNCHANGED <<lane, seen, attempt, outcome, warm, idle, made, belief, proven, count,
                   serverVars, historyVars>>

-----------------------------------------------------------------------------
(* The servers *)

\* The server gives up a connection it had let requests through on.
Lapse(l, o) ==
    /\ conn[l][o] = "served"
    /\ conn' = [conn EXCEPT ![l][o] = "lapsed"]
    /\ UNCHANGED <<requestVars, poolVars, good, changes, historyVars>>

\* The password is changed, or the account locked, or either put right.
ChangePassword(o) ==
    /\ changes < MaxChanges
    /\ changes' = changes + 1
    /\ good' = [good EXCEPT ![o] = ~@]
    /\ UNCHANGED <<requestVars, poolVars, conn, historyVars>>

\* Every request has been answered.
Finished ==
    /\ \A r \in Requests : pc[r] = "done"
    /\ UNCHANGED vars

-----------------------------------------------------------------------------
\* What a request does of itself, and what is done to it.
Advance(r) ==
    \/ Acquire(r) \/ TakeLane(r) \/ BuildFails(r)
    \/ Reuse(r) \/ ReuseServed(r) \/ ReuseDoubted(r)
    \/ LoadProven(r) \/ ReadCount(r) \/ LockTurn(r) \/ CheckRefusals(r) \/ ConfirmTurn(r)
    \/ TradeForWarm(r) \/ Open(r) \/ SendPlain(r) \/ Accept(r) \/ Refuse(r) \/ Moved(r)
    \/ HandshakeFails(r)
    \/ ReturnLane(r) \/ ReleasePermit(r) \/ Settle(r) \/ RecordRefusal(r) \/ GiveUpTurn(r)

Interrupt(r) == Abandon(r) \/ AbandonQueue(r)

Next ==
    \/ \E r \in Requests : Advance(r) \/ Interrupt(r)
    \/ \E l \in Lanes, o \in Origins : Lapse(l, o)
    \/ \E o \in Origins : ChangePassword(o)
    \/ Finished

Spec == Init /\ [][Next]_vars

\* Each request goes on whenever it can: the runtime polls a woken task, a post ends at the latest
\* at its timeout, and tokio's semaphore and mutex hand over in order of arrival.  Nothing makes a
\* caller drop a request, a server give up a connection, or a password change.
FairSpec == Spec /\ \A r \in Requests : WF_vars(Advance(r))

-----------------------------------------------------------------------------
(* Properties *)

\* Every variable keeps to the values the code's types and fields allow.
TypeOK ==
    /\ pc \in [Requests -> PcValues]
    /\ lane \in [Requests -> Lanes \cup {None}]
    /\ seen \in [Requests -> Nat]
    /\ gated \in [Requests -> BOOLEAN]
    /\ attempt \in [Requests -> 0..MaxAttempts]
    /\ outcome \in [Requests -> {"none", "answered", "failed", "refused"}]
    /\ warm \in [Requests -> BOOLEAN]
    /\ idle \subseteq Lanes /\ made \subseteq Lanes
    /\ belief \in [Lanes -> SUBSET Origins]
    /\ proven \in [Origins -> BOOLEAN]
    /\ turn \in [Origins -> Requests \cup {None}]
    /\ count \in [Origins -> Nat]
    /\ conn \in [Lanes -> [Origins -> {"fresh", "served", "lapsed"}]]
    /\ good \in [Origins -> BOOLEAN] /\ changes \in 0..MaxChanges
    /\ accepted \subseteq Origins /\ spared \subseteq Requests

\* A lane is idle or lent to one request, never two: a lent client has one request in flight, which
\* is what makes reqwest reuse its connection (pool.rs:5-10).
OneRequestPerLane ==
    \A r \in Requests : lane[r] # None =>
        /\ lane[r] \in made \ idle
        /\ \A s \in Requests \ {r} : lane[s] # lane[r]

\* There are never more lanes than max_authenticated_connections (pool.rs:55-66): a returned lane
\* is in the idle list before its permit lets the next request look there.
PoolBound == Cardinality(made) <= Connections

\* A connection believed authenticated is one the server let a request through on, whatever
\* was cancelled, failed or handed to another request since (negotiated.rs:83-86).
BeliefGrounded ==
    \A l \in Lanes, o \in Origins : o \in belief[l] => conn[l][o] # "fresh"

\* Until its server has accepted a handshake, no two handshakes to an origin run at once, so a wrong
\* password is not sent by every connection at once (pool.rs:24-31).
TurnsUntilAccepted ==
    \A r, s \in Requests :
        (r # s /\ OriginOf[r] = OriginOf[s] /\ pc[r] \in Handshaking /\ pc[s] \in Handshaking)
            => OriginOf[r] \in accepted

\* A request that was waiting for its turn when a handshake to its origin was refused never
\* sends the password itself (pool.rs:28-30).
SharedRefusal == \A r \in spared : pc[r] \notin Handshaking /\ attempt[r] = 0

\* A request refused without a handshake of its own owes that to another's, to the same origin:
\* what one server refused says nothing about another (pool.rs:33-36).
RefusalsAreEarned ==
    \A r \in Requests : (outcome[r] = "refused" /\ attempt[r] = 0) =>
        \E s \in Requests : /\ OriginOf[s] = OriginOf[r]
                             /\ outcome[s] = "refused" /\ attempt[s] > 0

\* Every request ends, whatever is refused, lost, cancelled or lapsed around it: permits and turns
\* always come back.
EveryRequestEnds == \A r \in Requests : <>(pc[r] = "done")

\* The promise this machinery is for, which it keeps when every server challenges (pool.rs:24-31).
Gate == INSTANCE LogonGate WITH
    trying <- {r \in Requests : pc[r] \in Handshaking},
    tried <- {r \in Requests : attempt[r] > 0 /\ pc[r] \notin Handshaking}

KeepsTheGate == Gate!Spec

=============================================================================
