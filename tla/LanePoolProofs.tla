--------------------------- MODULE LanePoolProofs ---------------------------
(* Proofs about LanePool, for any requests, origins and connection limit: the lanes first, then the gate. *)
EXTENDS LanePool, TLAPS, FiniteSetTheorems

USE DEF Goto, requestVars, poolVars, serverVars, historyVars

\* Where send_negotiated holds a Lease.
WithLane == {"leased", "reusing", "gate", "counting", "waiting", "granted", "confirm", "trade",
             "retry", "again", "opening", "plain", "answering", "handback"}

HoldsLane == \A r \in Requests : IF pc[r] \in WithLane THEN lane[r] \in Lanes ELSE lane[r] = None

Typed == TypeOK /\ HoldsLane

\* What the helpers do to the variables they set.
LEMMA SetAuthenticatedTyped ==
    ASSUME belief \in [Lanes -> SUBSET Origins], OriginOf \in [Requests -> Origins],
           NEW r \in Requests, lane[r] \in Lanes,
           NEW b \in BOOLEAN, SetAuthenticated(r, b)
    PROVE  belief' \in [Lanes -> SUBSET Origins]
<1>1. (IF b THEN belief[lane[r]] \cup {OriginOf[r]} ELSE belief[lane[r]] \ {OriginOf[r]})
        \in SUBSET Origins
  OBVIOUS
<1> QED BY <1>1 DEF SetAuthenticated, Believed

LEMMA ConnectionTyped ==
    ASSUME conn \in [Lanes -> [Origins -> {"fresh", "served", "lapsed"}]],
           NEW r \in Requests, lane[r] \in Lanes,
           NEW state \in {"fresh", "served", "lapsed"}, Connection(r, state)
    PROVE  conn' \in [Lanes -> [Origins -> {"fresh", "served", "lapsed"}]]
<1>1. [conn[lane[r]] EXCEPT ![OriginOf[r]] = state] \in [Origins -> {"fresh", "served", "lapsed"}]
  OBVIOUS
<1>2. conn' = [conn EXCEPT ![lane[r]] = [conn[lane[r]] EXCEPT ![OriginOf[r]] = state]]
  BY DEF Connection
<1> QED BY <1>1, <1>2

LEMMA GotoTyped ==
    ASSUME pc \in [Requests -> PcValues], NEW r \in Requests,
           \E place \in PcValues : pc' = [pc EXCEPT ![r] = place]
    PROVE  pc' \in [Requests -> PcValues]
OBVIOUS

LEMMA FreeTurnTyped ==
    ASSUME turn \in [Origins -> Requests \cup {None}], NEW r \in Requests, FreeTurn(r)
    PROVE  turn' \in [Origins -> Requests \cup {None}]
BY DEF FreeTurn

LEMMA ConcludeTyped ==
    ASSUME Typed, OriginOf \in [Requests -> Origins], NEW r \in Requests, lane[r] \in Lanes,
           NEW result \in {"answered", "failed", "refused"}, NEW b \in BOOLEAN,
           Conclude(r, result, b)
    PROVE  /\ pc' = [pc EXCEPT ![r] = "handback"] /\ pc' \in [Requests -> PcValues]
           /\ outcome' \in [Requests -> {"none", "answered", "failed", "refused"}]
           /\ warm' \in [Requests -> BOOLEAN]
           /\ belief' \in [Lanes -> SUBSET Origins]
<1>1. belief' \in [Lanes -> SUBSET Origins]
  BY SetAuthenticatedTyped DEF Conclude, Typed, TypeOK
<1> QED BY <1>1 DEF Conclude, Typed, TypeOK, PcValues

\* What TypeOK says of one step of one request.
LEMMA TypeStep ==
    ASSUME Typed, NEW r \in Requests, Advance(r) \/ Interrupt(r)
    PROVE  TypeOK'
<1> USE RequestsAssumption, BoundsAssumption
<1>1. OriginOf[r] \in Origins /\ r \in Lanes BY DEF Lanes
<1>2. pc[r] \in WithLane => lane[r] \in Lanes BY DEF Typed, HoldsLane
<1> USE DEF Typed, TypeOK, PcValues
<1>3. CASE Acquire(r) BY <1>1, <1>3 DEF Acquire
<1>4. CASE TakeLane(r)
  <2>1. PICK l \in Lanes : lane' = [lane EXCEPT ![r] = l] BY <1>1, <1>4 DEF TakeLane, WarmLanes
  <2>2. idle' \subseteq Lanes /\ made' \subseteq Lanes BY <1>1, <1>4 DEF TakeLane
  <2>3. lane' \in [Requests -> Lanes \cup {None}] BY <2>1
  <2> QED BY <2>2, <2>3, <1>4 DEF TakeLane
<1>5. CASE BuildFails(r) BY <1>1, <1>5 DEF BuildFails
<1>6. CASE Reuse(r)
  <2>1. lane[r] \in Lanes BY <1>2, <1>6 DEF Reuse, WithLane
  <2>2. belief' \in [Lanes -> SUBSET Origins] BY <2>1, <1>6, SetAuthenticatedTyped DEF Reuse
  <2>3. \E place \in PcValues : pc' = [pc EXCEPT ![r] = place] BY <1>6 DEF Reuse
  <2>4. pc' \in [Requests -> PcValues] BY <2>3, GotoTyped
  <2>5. attempt' = attempt \/ attempt' = [attempt EXCEPT ![r] = 1] BY <1>6 DEF Reuse
  <2>6. attempt' \in [Requests -> 0..MaxAttempts] BY <2>5
  <2> QED BY <2>2, <2>4, <2>6, <1>6 DEF Reuse
<1>7. CASE ReuseServed(r)
  BY <1>1, <1>2, <1>7, ConcludeTyped, ConnectionTyped
  DEF ReuseServed, WithLane
<1>8. CASE ReuseDoubted(r)
  <2>1. lane[r] \in Lanes BY <1>2, <1>8 DEF ReuseDoubted, WithLane
  <2>2. conn' \in [Lanes -> [Origins -> {"fresh", "served", "lapsed"}]]
    BY <2>1, <1>8, ConnectionTyped DEF ReuseDoubted
  <2>5. \E place \in PcValues : pc' = [pc EXCEPT ![r] = place] BY <1>8 DEF ReuseDoubted
  <2>3. pc' \in [Requests -> PcValues] BY <2>5, GotoTyped
  <2>4. attempt' \in [Requests -> 0..MaxAttempts] BY <1>8 DEF ReuseDoubted
  <2> QED BY <2>2, <2>3, <2>4, <1>8, <1>1 DEF ReuseDoubted
<1>9. CASE LoadProven(r) BY <1>1, <1>9 DEF LoadProven
<1>10. CASE ReadCount(r) BY <1>1, <1>10 DEF ReadCount
<1>11. CASE LockTurn(r) BY <1>1, <1>11 DEF LockTurn
<1>12. CASE CheckRefusals(r) BY <1>1, <1>12, FreeTurnTyped DEF CheckRefusals
<1>13. CASE ConfirmTurn(r) BY <1>1, <1>13, FreeTurnTyped DEF ConfirmTurn
<1>14. CASE TradeForWarm(r) BY <1>1, <1>2, <1>14 DEF TradeForWarm, WithLane, WarmLanes
<1>15. CASE Open(r) BY <1>1, <1>2, <1>15, ConcludeTyped DEF Open, WithLane
<1>16. CASE SendPlain(r)
  BY <1>1, <1>2, <1>16, ConcludeTyped, ConnectionTyped
  DEF SendPlain, WithLane
<1>17. CASE Accept(r) BY <1>1, <1>2, <1>17, ConcludeTyped, ConnectionTyped DEF Accept, WithLane
<1>18. CASE Refuse(r) BY <1>1, <1>2, <1>18, ConcludeTyped, ConnectionTyped DEF Refuse, WithLane
<1>19. CASE Moved(r)
  <2>1. lane[r] \in Lanes BY <1>2, <1>19 DEF Moved, WithLane
  <2>2. conn' \in [Lanes -> [Origins -> {"fresh", "served", "lapsed"}]]
    BY <2>1, <1>19, ConnectionTyped DEF Moved
  <2>3. CASE attempt[r] < MaxAttempts
    <3>1. attempt' \in [Requests -> 0..MaxAttempts] BY <2>3, <1>19 DEF Moved
    <3>2. pc' \in [Requests -> PcValues] BY <2>3, <1>19 DEF Moved
    <3> QED BY <3>1, <3>2, <2>2, <2>3, <1>19 DEF Moved
  <2>4. CASE ~(attempt[r] < MaxAttempts) BY <2>1, <2>2, <2>4, <1>19, ConcludeTyped DEF Moved
  <2> QED BY <2>3, <2>4
<1>20. CASE HandshakeFails(r)
  BY <1>1, <1>2, <1>20, ConcludeTyped, ConnectionTyped
  DEF HandshakeFails, WithLane, Handshaking
<1>21. CASE ReturnLane(r) BY <1>1, <1>2, <1>21 DEF ReturnLane, WithLane
<1>22. CASE ReleasePermit(r) BY <1>1, <1>22 DEF ReleasePermit
<1>23. CASE Settle(r)
  <2>4. \E place \in PcValues : pc' = [pc EXCEPT ![r] = place] BY <1>23 DEF Settle
  <2>1. pc' \in [Requests -> PcValues] BY <2>4, GotoTyped
  <2>2. proven' \in [Origins -> BOOLEAN] BY <1>1, <1>23 DEF Settle
  <2> QED BY <2>1, <2>2, <1>1, <1>23 DEF Settle
<1>24. CASE RecordRefusal(r) BY <1>1, <1>24 DEF RecordRefusal
<1>25. CASE GiveUpTurn(r) BY <1>1, <1>25, FreeTurnTyped DEF GiveUpTurn
<1>26. CASE Abandon(r)
  BY <1>1, <1>2, <1>26, FreeTurnTyped, ConnectionTyped
  DEF Abandon, WithLane, InFlight, Handshaking
<1>27. CASE AbandonQueue(r) BY <1>1, <1>27 DEF AbandonQueue
<1> QED
  BY <1>3, <1>4, <1>5, <1>6, <1>7, <1>8, <1>9, <1>10, <1>11, <1>12, <1>13, <1>14, <1>15,
     <1>16, <1>17, <1>18, <1>19, <1>20, <1>21, <1>22, <1>23, <1>24, <1>25, <1>26, <1>27
  DEF Advance, Interrupt

\* Between taking a lane and giving it back, a request keeps one.
Keeps(r) ==
    /\ pc' = [pc EXCEPT ![r] = pc'[r]]
    /\ pc[r] \in WithLane /\ pc'[r] \in WithLane
    /\ UNCHANGED lane

LEMMA KeptLanes == ASSUME Typed, NEW r \in Requests, Keeps(r) PROVE HoldsLane'
<1>1. \A s \in Requests : s # r => pc'[s] = pc[s] BY DEF Typed, TypeOK, Keeps
<1> QED BY <1>1 DEF Typed, HoldsLane, Keeps

LEMMA KeepingSteps ==
    ASSUME Typed, NEW r \in Requests,
           \/ Reuse(r) \/ ReuseServed(r) \/ ReuseDoubted(r) \/ LoadProven(r) \/ ReadCount(r)
           \/ LockTurn(r) \/ CheckRefusals(r) \/ ConfirmTurn(r) \/ Open(r) \/ SendPlain(r)
           \/ Accept(r) \/ Refuse(r) \/ Moved(r) \/ HandshakeFails(r) \/ Abandon(r)
    PROVE  Keeps(r)
<1>1. pc \in [Requests -> PcValues] BY DEF Typed, TypeOK
<1>2. ASSUME NEW place, pc' = [pc EXCEPT ![r] = place] PROVE pc' = [pc EXCEPT ![r] = pc'[r]]
  BY <1>1, <1>2
<1> USE <1>1, <1>2 DEF Keeps, WithLane
<1>3. CASE Reuse(r) BY <1>3 DEF Reuse
<1>4. CASE ReuseServed(r) BY <1>4 DEF ReuseServed, Conclude
<1>5. CASE ReuseDoubted(r) BY <1>5 DEF ReuseDoubted
<1>6. CASE LoadProven(r) BY <1>6 DEF LoadProven
<1>7. CASE ReadCount(r) BY <1>7 DEF ReadCount
<1>8. CASE LockTurn(r) BY <1>8 DEF LockTurn
<1>9. CASE CheckRefusals(r) BY <1>9 DEF CheckRefusals
<1>10. CASE ConfirmTurn(r) BY <1>10 DEF ConfirmTurn
<1>11. CASE Open(r) BY <1>11 DEF Open, Conclude
<1>12. CASE SendPlain(r) BY <1>12 DEF SendPlain, Conclude
<1>13. CASE Accept(r) BY <1>13 DEF Accept, Conclude
<1>14. CASE Refuse(r) BY <1>14 DEF Refuse, Conclude
<1>15. CASE Moved(r) BY <1>15 DEF Moved, Conclude
<1>16. CASE HandshakeFails(r) BY <1>16 DEF HandshakeFails, Conclude, Handshaking
<1>17. CASE Abandon(r) BY <1>17 DEF Abandon, InFlight, Handshaking
<1> QED
  BY <1>3, <1>4, <1>5, <1>6, <1>7, <1>8, <1>9, <1>10, <1>11, <1>12, <1>13, <1>14, <1>15, <1>16, <1>17

LEMMA HoldsLaneStep ==
    ASSUME Typed, NEW r \in Requests, Advance(r) \/ Interrupt(r)
    PROVE  HoldsLane'
<1> USE NamesAssumption
<1>1. None \notin Lanes /\ r \in Lanes BY DEF Lanes
<1>2. pc[r] \in WithLane => lane[r] \in Lanes BY DEF Typed, HoldsLane
<1> USE <1>1, <1>2 DEF Typed, TypeOK, HoldsLane, WithLane
<1>3. CASE Acquire(r) BY <1>3 DEF Acquire
<1>4. CASE TakeLane(r) BY <1>4 DEF TakeLane, WarmLanes
<1>5. CASE BuildFails(r) BY <1>5 DEF BuildFails
<1>6. CASE TradeForWarm(r) BY <1>6 DEF TradeForWarm, WarmLanes
<1>7. CASE ReturnLane(r) BY <1>7 DEF ReturnLane
<1>8. CASE ReleasePermit(r) BY <1>8 DEF ReleasePermit
<1>9. CASE Settle(r) BY <1>9 DEF Settle
<1>10. CASE RecordRefusal(r) BY <1>10 DEF RecordRefusal
<1>11. CASE GiveUpTurn(r) BY <1>11 DEF GiveUpTurn
<1>12. CASE AbandonQueue(r) BY <1>12 DEF AbandonQueue
<1> QED
  BY <1>3, <1>4, <1>5, <1>6, <1>7, <1>8, <1>9, <1>10, <1>11, <1>12, KeepingSteps, KeptLanes
  DEF Advance, Interrupt

\* Every state has the shape its variables promise, and a request holds a lane exactly where the
\* code has a Lease in scope.
THEOREM TypeCorrect == Spec => [](TypeOK /\ HoldsLane)
<1>1. Init => Typed
  BY RequestsAssumption, BoundsAssumption, NamesAssumption
  DEF Init, Typed, TypeOK, HoldsLane, PcValues, Lanes, WithLane
<1>2. ASSUME Typed, NEW r \in Requests, Advance(r) \/ Interrupt(r) PROVE Typed'
  BY <1>2, TypeStep, HoldsLaneStep DEF Typed
<1>3. ASSUME Typed, NEW l \in Lanes, NEW o \in Origins, Lapse(l, o) PROVE Typed'
  BY <1>3 DEF Typed, TypeOK, HoldsLane, Lapse
<1>4. ASSUME Typed, NEW o \in Origins, ChangePassword(o) PROVE Typed'
  BY <1>4, BoundsAssumption DEF Typed, TypeOK, HoldsLane, ChangePassword
<1>5. ASSUME Typed, UNCHANGED vars PROVE Typed'
  BY <1>5 DEF Typed, TypeOK, HoldsLane, vars
<1>6. Typed /\ [Next]_vars => Typed'
  BY <1>2, <1>3, <1>4, <1>5 DEF Next, Finished
<1> QED BY <1>1, <1>6, PTL DEF Spec, Typed

-----------------------------------------------------------------------------
(* Lanes: who holds which, and how many there are. *)

\* A lane is idle or held; what is not built yet is named by a request that has not got that far.
LanesInv ==
    /\ OneRequestPerLane
    /\ idle \subseteq made
    /\ \A l \in made \ idle : \E r \in Requests : lane[r] = l
    /\ \A r \in Requests : pc[r] \in {"new", "permitted"} => r \notin made

\* What most steps do to the lanes: nothing.
Quiet ==
    /\ UNCHANGED <<lane, idle, made>>
    /\ \A s \in Requests : pc'[s] \in {"new", "permitted"} => pc[s] \in {"new", "permitted"}

LEMMA QuietLanes == ASSUME LanesInv, Quiet PROVE LanesInv'
BY DEF LanesInv, OneRequestPerLane, Quiet

LEMMA QuietSteps ==
    ASSUME Typed, NEW r \in Requests, Advance(r) \/ Interrupt(r)
    PROVE  TakeLane(r) \/ TradeForWarm(r) \/ ReturnLane(r) \/ Quiet
<1> USE DEF Typed, TypeOK, Quiet
<1>1. CASE Acquire(r) \/ BuildFails(r) \/ AbandonQueue(r) BY <1>1 DEF Acquire, BuildFails, AbandonQueue
<1>2. CASE Reuse(r) \/ ReuseServed(r) \/ ReuseDoubted(r)
  BY <1>2 DEF Reuse, ReuseServed, ReuseDoubted, Conclude
<1>3. CASE LoadProven(r) \/ ReadCount(r) \/ LockTurn(r) BY <1>3 DEF LoadProven, ReadCount, LockTurn
<1>4. CASE CheckRefusals(r) \/ ConfirmTurn(r) BY <1>4 DEF CheckRefusals, ConfirmTurn
<1>5. CASE Accept(r) BY <1>5 DEF Accept, Conclude
<1>10. CASE SendPlain(r)
  <2>1. pc' = [pc EXCEPT ![r] = "handback"] /\ UNCHANGED <<lane, idle, made>>
    BY <1>10 DEF SendPlain, Conclude
  <2> QED BY <2>1
<1>9. CASE Open(r) BY <1>9 DEF Open, Conclude
<1>6. CASE Refuse(r) \/ Moved(r) \/ HandshakeFails(r)
  BY <1>6 DEF Refuse, Moved, HandshakeFails, Conclude
<1>7. CASE ReleasePermit(r) \/ Settle(r) \/ RecordRefusal(r) BY <1>7 DEF ReleasePermit, Settle, RecordRefusal
<1>8. CASE GiveUpTurn(r) \/ Abandon(r) BY <1>8 DEF GiveUpTurn, Abandon
<1> QED BY <1>1, <1>2, <1>3, <1>4, <1>5, <1>6, <1>7, <1>8, <1>9, <1>10 DEF Advance, Interrupt

LEMMA LanesStep ==
    ASSUME Typed, LanesInv, NEW r \in Requests, Advance(r) \/ Interrupt(r)
    PROVE  LanesInv'
<1> USE NamesAssumption
<1>1. None \notin Lanes /\ None \notin made /\ r \in Lanes BY DEF Lanes, Typed, TypeOK
<1>2. \A s \in Requests : lane[s] = None \/ pc[s] \in WithLane BY DEF Typed, HoldsLane
<1>3. CASE TakeLane(r)
  <2>1. lane[r] = None BY <1>3, <1>2 DEF TakeLane, WithLane
  <2>2. r \notin made BY <1>3 DEF TakeLane, LanesInv
  <2>3. pc' = [pc EXCEPT ![r] = "leased"] BY <1>3 DEF TakeLane
  <2>4. CASE made' = made
    <3>1. PICK l \in idle : lane' = [lane EXCEPT ![r] = l] /\ idle' = idle \ {l}
      BY <1>3, <2>2, <2>4 DEF TakeLane, WarmLanes
    <3> QED BY <3>1, <2>1, <2>3, <2>4, <1>1 DEF LanesInv, OneRequestPerLane, Typed, TypeOK
  <2>5. CASE idle = {} /\ lane' = [lane EXCEPT ![r] = r] /\ made' = made \cup {r} /\ idle' = idle
    <3>1. OneRequestPerLane' BY <2>5, <2>2, <1>1 DEF LanesInv, OneRequestPerLane, Typed, TypeOK
    <3>2. \A l \in made' \ idle' : \E s \in Requests : lane'[s] = l
      BY <2>5, <2>1, <1>1 DEF LanesInv, Typed, TypeOK
    <3> QED BY <3>1, <3>2, <2>5, <2>3 DEF LanesInv, Typed, TypeOK
  <2> QED BY <2>4, <2>5, <1>3 DEF TakeLane
<1>4. CASE TradeForWarm(r)
  <2>1. lane[r] \in made \ idle
    BY <1>4, <1>1 DEF TradeForWarm, LanesInv, OneRequestPerLane, Typed, HoldsLane, WithLane
  <2>2. pc' = [pc EXCEPT ![r] = "retry"] /\ made' = made BY <1>4 DEF TradeForWarm
  <2>3. CASE UNCHANGED <<lane, idle>> BY <2>2, <2>3 DEF LanesInv, OneRequestPerLane, Typed, TypeOK
  <2>4. CASE \E l \in idle : /\ idle' = (idle \ {l}) \cup {lane[r]}
                            /\ lane' = [lane EXCEPT ![r] = l]
    <3>1. PICK l \in idle : idle' = (idle \ {l}) \cup {lane[r]} /\ lane' = [lane EXCEPT ![r] = l]
      BY <2>4
    <3>2. OneRequestPerLane' BY <3>1, <2>1, <2>2, <1>1 DEF LanesInv, OneRequestPerLane, Typed, TypeOK
    <3>3. \A m \in made' \ idle' : \E s \in Requests : lane'[s] = m
      BY <3>1, <2>1, <2>2 DEF LanesInv, Typed, TypeOK
    <3> QED BY <3>1, <3>2, <3>3, <2>1, <2>2 DEF LanesInv, Typed, TypeOK
  <2> QED BY <2>3, <2>4, <1>4 DEF TradeForWarm, WarmLanes
<1>5. CASE ReturnLane(r)
  <2>1. lane[r] \in made \ idle
    BY <1>5, <1>1 DEF ReturnLane, LanesInv, OneRequestPerLane, Typed, HoldsLane, WithLane
  <2>2. idle' = idle \cup {lane[r]} /\ lane' = [lane EXCEPT ![r] = None] /\ made' = made
        /\ pc' = [pc EXCEPT ![r] = "release"]
    BY <1>5 DEF ReturnLane
  <2>3. OneRequestPerLane' BY <2>1, <2>2 DEF LanesInv, OneRequestPerLane, Typed, TypeOK
  <2>4. \A m \in made' \ idle' : \E s \in Requests : lane'[s] = m
    BY <2>1, <2>2 DEF LanesInv, Typed, TypeOK
  <2> QED BY <2>1, <2>2, <2>3, <2>4 DEF LanesInv, Typed, TypeOK
<1> QED BY <1>3, <1>4, <1>5, QuietSteps, QuietLanes

\* The environment's steps leave the lanes and every request where they are.
LEMMA LanesElsewhere ==
    ASSUME LanesInv, UNCHANGED <<pc, lane, idle, made>> PROVE LanesInv'
BY DEF LanesInv, OneRequestPerLane

\* Each lane is where exactly one owner can find it, at every step.
THEOREM LanesInvariant == Spec => []LanesInv
<1>1. Init => LanesInv BY NamesAssumption DEF Init, LanesInv, OneRequestPerLane
<1>2. ASSUME Typed, LanesInv, [Next]_vars PROVE LanesInv'
  <2>1. ASSUME NEW r \in Requests, Advance(r) \/ Interrupt(r) PROVE LanesInv'
    BY <1>2, <2>1, LanesStep
  <2>2. CASE UNCHANGED <<pc, lane, idle, made>> BY <1>2, <2>2, LanesElsewhere
  <2> QED BY <1>2, <2>1, <2>2 DEF Next, Lapse, ChangePassword, Finished, vars
<1> QED BY <1>1, <1>2, TypeCorrect, PTL DEF Spec, Typed

\* A lane is never lent to two requests, nor lent and idle at once.
THEOREM LanesExclusive == Spec => []OneRequestPerLane
<1>1. LanesInv => OneRequestPerLane BY DEF LanesInv
<1> QED BY <1>1, LanesInvariant, PTL

-----------------------------------------------------------------------------
(* The limit: a lane is built only by a request whose permit no lane accounts for. *)

BoundInv ==
    /\ IsFiniteSet(made) /\ Cardinality(made) <= Connections
    /\ Cardinality(Permitted) <= Connections

LEMMA PermittedFinite == IsFiniteSet(Permitted) /\ Cardinality(Permitted) \in Nat
BY RequestsAssumption, FS_Subset, FS_CardinalityType DEF Permitted

\* A permit is gained in Acquire only, and lanes appear in TakeLane only.
LEMMA PermitSteps ==
    ASSUME Typed, NEW r \in Requests, Advance(r) \/ Interrupt(r)
    PROVE  /\ Acquire(r) \/ Permitted' \subseteq Permitted
           /\ TakeLane(r) \/ made' = made
<1> USE DEF Typed, TypeOK, Permitted, HoldsPermit
<1>1. CASE Acquire(r) \/ TakeLane(r) \/ BuildFails(r) BY <1>1 DEF Acquire, TakeLane, BuildFails
<1>2. CASE Reuse(r) \/ ReuseServed(r) \/ ReuseDoubted(r)
  BY <1>2 DEF Reuse, ReuseServed, ReuseDoubted, Conclude
<1>3. CASE LoadProven(r) \/ ReadCount(r) \/ LockTurn(r) BY <1>3 DEF LoadProven, ReadCount, LockTurn
<1>4. CASE CheckRefusals(r) \/ ConfirmTurn(r) BY <1>4 DEF CheckRefusals, ConfirmTurn
<1>5. CASE TradeForWarm(r) \/ Open(r) BY <1>5 DEF TradeForWarm, Open, Conclude
<1>6. CASE SendPlain(r) \/ Accept(r) BY <1>6 DEF SendPlain, Accept, Conclude
<1>7. CASE Refuse(r) \/ Moved(r) \/ HandshakeFails(r)
  BY <1>7 DEF Refuse, Moved, HandshakeFails, Handshaking, Conclude
<1>8. CASE ReturnLane(r) \/ ReleasePermit(r) BY <1>8 DEF ReturnLane, ReleasePermit
<1>9. CASE Settle(r) \/ RecordRefusal(r) \/ GiveUpTurn(r) BY <1>9 DEF Settle, RecordRefusal, GiveUpTurn
<1>10. CASE Abandon(r) BY <1>10 DEF Abandon, InFlight, Handshaking
<1>11. CASE AbandonQueue(r) BY <1>11 DEF AbandonQueue
<1> QED
  BY <1>1, <1>2, <1>3, <1>4, <1>5, <1>6, <1>7, <1>8, <1>9, <1>10, <1>11 DEF Advance, Interrupt

\* With none idle, every lane is held under a permit other than the builder's.
LEMMA RoomToBuild ==
    ASSUME Typed, LanesInv, BoundInv, NEW r \in Requests, pc[r] = "permitted", idle = {}
    PROVE  Cardinality(made) < Connections
<1> DEFINE Holders == {s \in Requests : lane[s] # None}
           f == [s \in Holders |-> lane[s]]
<1>1. Holders \subseteq Permitted \ {r}
  BY DEF Typed, HoldsLane, WithLane, Permitted, HoldsPermit
<1>2. made \subseteq Lanes /\ None \notin made BY NamesAssumption DEF Typed, TypeOK, Lanes
<1>3. f \in Surjection(Holders, made)
  <2>1. f \in [Holders -> made] BY DEF LanesInv, OneRequestPerLane
  <2>2. \A l \in made : \E s \in Holders : f[s] = l BY <1>2 DEF LanesInv
  <2> QED BY <2>1, <2>2 DEF Surjection
<1> HIDE DEF Holders, f
<1>4. IsFiniteSet(Permitted \ {r}) /\ Cardinality(Permitted \ {r}) = Cardinality(Permitted) - 1
  <2>1. r \in Permitted BY DEF Permitted, HoldsPermit
  <2> QED BY <2>1, PermittedFinite, FS_RemoveElement
<1>5. IsFiniteSet(Holders) /\ Cardinality(Holders) <= Cardinality(Permitted) - 1
  BY <1>1, <1>4, FS_Subset
<1>6. Cardinality(made) <= Cardinality(Holders) BY <1>3, <1>5, FS_Surjection
<1>7. Cardinality(made) \in Nat /\ Cardinality(Holders) \in Nat
  BY <1>5, FS_CardinalityType DEF BoundInv
<1> QED BY <1>5, <1>6, <1>7, PermittedFinite, BoundsAssumption DEF BoundInv

LEMMA BoundStep ==
    ASSUME Typed, LanesInv, BoundInv, NEW r \in Requests, Advance(r) \/ Interrupt(r)
    PROVE  BoundInv'
<1> USE BoundsAssumption
<1>1. IsFiniteSet(Permitted') /\ Cardinality(Permitted') \in Nat
  BY RequestsAssumption, FS_Subset, FS_CardinalityType DEF Permitted
<1>2. Cardinality(Permitted') <= Connections
  <2>1. CASE Acquire(r)
    <3>1. Permitted' = Permitted \cup {r}
      BY <2>1 DEF Acquire, Permitted, HoldsPermit, Typed, TypeOK
    <3>2. Cardinality(Permitted') <= Cardinality(Permitted) + 1
      BY <3>1, PermittedFinite, FS_AddElement
    <3>3. Cardinality(Permitted) < Connections BY <2>1 DEF Acquire
    <3> QED BY <3>2, <3>3, <1>1, PermittedFinite
  <2>2. CASE Permitted' \subseteq Permitted
    <3>1. Cardinality(Permitted') <= Cardinality(Permitted) BY <2>2, PermittedFinite, FS_Subset
    <3> QED BY <3>1, <1>1, PermittedFinite DEF BoundInv
  <2> QED BY <2>1, <2>2, PermitSteps
<1>3. IsFiniteSet(made') /\ Cardinality(made') <= Connections
  <2>1. CASE made' = made BY <2>1 DEF BoundInv
  <2>2. CASE pc[r] = "permitted" /\ idle = {} /\ made' = made \cup {r}
    <3>1. Cardinality(made) < Connections BY <2>2, RoomToBuild
    <3>2. IsFiniteSet(made) BY DEF BoundInv
    <3>3. IsFiniteSet(made \cup {r}) /\ Cardinality(made \cup {r}) <= Cardinality(made) + 1
      BY <3>2, FS_AddElement, FS_CardinalityType
    <3>4. IsFiniteSet(made') /\ Cardinality(made') <= Cardinality(made) + 1 BY <2>2, <3>3
    <3>5. Cardinality(made) \in Nat /\ Cardinality(made') \in Nat
      BY <3>2, <3>4, FS_CardinalityType
    <3> QED BY <3>1, <3>4, <3>5
  <2> QED BY <2>1, <2>2, PermitSteps DEF TakeLane
<1> QED BY <1>2, <1>3 DEF BoundInv

\* There are never more lanes than the limit the builder was given.
THEOREM PoolBounded == Spec => []PoolBound
<1>1. Init => BoundInv
  <2> SUFFICES ASSUME Init PROVE BoundInv OBVIOUS
  <2>1. IsFiniteSet(made) /\ Cardinality(made) = 1 BY FS_Singleton DEF Init
  <2>2. Permitted = {} BY DEF Init, Permitted, HoldsPermit
  <2> QED BY <2>1, <2>2, FS_EmptySet, BoundsAssumption DEF BoundInv
<1>2. ASSUME Typed, LanesInv, BoundInv, [Next]_vars PROVE BoundInv'
  <2>1. ASSUME NEW r \in Requests, Advance(r) \/ Interrupt(r) PROVE BoundInv'
    BY <1>2, <2>1, BoundStep
  <2>2. CASE UNCHANGED <<pc, made>> BY <1>2, <2>2 DEF BoundInv, Permitted, HoldsPermit
  <2> QED BY <1>2, <2>1, <2>2 DEF Next, Lapse, ChangePassword, Finished, vars
<1>3. BoundInv => PoolBound BY DEF BoundInv, PoolBound
<1> QED BY <1>1, <1>2, <1>3, TypeCorrect, LanesInvariant, PTL DEF Spec, Typed

-----------------------------------------------------------------------------
(* Beliefs: a lane with a request in flight is believed unauthenticated to its origin. *)

BeliefInv ==
    /\ BeliefGrounded
    /\ \A r \in Requests : pc[r] \in InFlight => OriginOf[r] \notin belief[lane[r]]

\* What a step does to beliefs and connections, of r's lane and r's origin only.
OnlyHere(r) ==
    /\ \A l \in Lanes, o \in Origins : (l # lane[r] \/ o # OriginOf[r]) =>
         /\ conn'[l][o] = conn[l][o]
         /\ o \in belief'[l] => o \in belief[l]
    /\ lane'[r] = lane[r] /\ \A s \in Requests \ {r} : pc'[s] = pc[s] /\ lane'[s] = lane[s]

LEMMA BeliefHere ==
    ASSUME Typed, Typed', LanesInv, BeliefInv, NEW r \in Requests, OnlyHere(r),
           lane[r] \in Lanes,
           OriginOf[r] \in belief'[lane[r]] => conn'[lane[r]][OriginOf[r]] # "fresh",
           pc'[r] \in InFlight => OriginOf[r] \notin belief'[lane[r]]
    PROVE  BeliefInv'
<1>1. BeliefGrounded' BY DEF BeliefInv, BeliefGrounded, OnlyHere
<1>2. ASSUME NEW s \in Requests, pc'[s] \in InFlight PROVE OriginOf[s] \notin belief'[lane'[s]]
  <2>1. CASE s = r BY <1>2, <2>1 DEF OnlyHere
  <2>2. CASE s # r
    <3>1. lane[s] \in Lanes /\ lane[s] # lane[r]
      BY <1>2, <2>2, NamesAssumption
      DEF OnlyHere, InFlight, Handshaking, Typed, HoldsLane, WithLane, LanesInv, OneRequestPerLane, Lanes
    <3>2. OriginOf[s] \in Origins BY RequestsAssumption
    <3> QED BY <3>1, <3>2, <1>2, <2>2 DEF OnlyHere, BeliefInv
  <2> QED BY <2>1, <2>2
<1> QED BY <1>1, <1>2 DEF BeliefInv, InFlight, Handshaking

\* Setting one lane's belief and connection, to one origin.
LEMMA HereOnly ==
    ASSUME Typed, NEW r \in Requests, lane[r] \in Lanes, NEW place,
           pc' = [pc EXCEPT ![r] = place], lane' = lane,
           belief' = belief \/ \E b \in BOOLEAN : SetAuthenticated(r, b),
           conn' = conn \/ \E state \in {"fresh", "served", "lapsed"} : Connection(r, state)
    PROVE  OnlyHere(r)
<1>1. OriginOf[r] \in Origins BY RequestsAssumption
<1>2. \A l \in Lanes, o \in Origins : (l # lane[r] \/ o # OriginOf[r]) =>
        (o \in belief'[l] => o \in belief[l])
  BY DEF SetAuthenticated, Believed, Typed, TypeOK
<1>3. \A l \in Lanes, o \in Origins : (l # lane[r] \/ o # OriginOf[r]) => conn'[l][o] = conn[l][o]
  BY <1>1 DEF Connection, Typed, TypeOK
<1> QED BY <1>2, <1>3 DEF OnlyHere, Typed, TypeOK

\* Beliefs and connections stay, and no request comes to be in flight.
Still ==
    /\ UNCHANGED <<belief, conn>>
    /\ \A s \in Requests : pc'[s] \in InFlight => pc[s] \in InFlight /\ lane'[s] = lane[s]

LEMMA StillSteps ==
    ASSUME Typed, NEW r \in Requests,
           \/ Acquire(r) \/ TakeLane(r) \/ BuildFails(r) \/ LoadProven(r) \/ ReadCount(r)
           \/ LockTurn(r) \/ CheckRefusals(r) \/ ConfirmTurn(r) \/ TradeForWarm(r)
           \/ ReturnLane(r) \/ ReleasePermit(r) \/ Settle(r) \/ RecordRefusal(r)
           \/ GiveUpTurn(r) \/ AbandonQueue(r)
    PROVE  Still
<1> USE DEF Typed, TypeOK, Still, InFlight, Handshaking
<1>1. CASE Acquire(r) \/ BuildFails(r) \/ AbandonQueue(r) BY <1>1 DEF Acquire, BuildFails, AbandonQueue
<1>2. CASE TakeLane(r)
  <2>1. pc' = [pc EXCEPT ![r] = "leased"] /\ \A s \in Requests \ {r} : lane'[s] = lane[s]
    BY <1>2 DEF TakeLane
  <2> QED BY <2>1, <1>2 DEF TakeLane
<1>3. CASE LoadProven(r) \/ ReadCount(r) \/ LockTurn(r) BY <1>3 DEF LoadProven, ReadCount, LockTurn
<1>4. CASE CheckRefusals(r) \/ ConfirmTurn(r) BY <1>4 DEF CheckRefusals, ConfirmTurn
<1>5. CASE TradeForWarm(r)
  <2>1. pc' = [pc EXCEPT ![r] = "retry"] /\ \A s \in Requests \ {r} : lane'[s] = lane[s]
    BY <1>5 DEF TradeForWarm
  <2> QED BY <2>1, <1>5 DEF TradeForWarm
<1>6. CASE ReturnLane(r) BY <1>6 DEF ReturnLane
<1>7. CASE ReleasePermit(r) \/ Settle(r) BY <1>7 DEF ReleasePermit, Settle
<1>8. CASE RecordRefusal(r) \/ GiveUpTurn(r) BY <1>8 DEF RecordRefusal, GiveUpTurn
<1> QED BY <1>1, <1>2, <1>3, <1>4, <1>5, <1>6, <1>7, <1>8

LEMMA StillBeliefs == ASSUME BeliefInv, Still PROVE BeliefInv'
BY DEF BeliefInv, BeliefGrounded, Still

\* What Conclude leaves of the lane's belief in the request's origin.
LEMMA ConcludeBelief ==
    ASSUME Typed, NEW r \in Requests, lane[r] \in Lanes, NEW result, NEW b \in BOOLEAN,
           Conclude(r, result, b)
    PROVE  /\ OriginOf[r] \in belief'[lane[r]] <=> b
           /\ pc' = [pc EXCEPT ![r] = "handback"] /\ pc'[r] \notin InFlight
           /\ \E c \in BOOLEAN : SetAuthenticated(r, c)
BY DEF Conclude, SetAuthenticated, Believed, Typed, TypeOK, InFlight, Handshaking

\* What Connection leaves of the lane's connection to the request's origin.
LEMMA ConnectionNow ==
    ASSUME Typed, NEW r \in Requests, lane[r] \in Lanes,
           NEW state \in {"fresh", "served", "lapsed"}, Connection(r, state)
    PROVE  conn'[lane[r]][OriginOf[r]] = state
BY RequestsAssumption DEF Connection, Typed, TypeOK

LEMMA BeliefStep ==
    ASSUME Typed, Typed', LanesInv, BeliefInv, NEW r \in Requests, Advance(r) \/ Interrupt(r)
    PROVE  BeliefInv'
<1> DEFINE Ended == \E result, b \in BOOLEAN : Conclude(r, result, b)
<1>1. ASSUME lane[r] \in Lanes, UNCHANGED lane,
             NEW b \in BOOLEAN, NEW result, Conclude(r, result, b),
             conn' = conn \/ \E state \in {"fresh", "served", "lapsed"} : Connection(r, state),
             b => Connection(r, "served")
      PROVE  BeliefInv'
  <2>1. OnlyHere(r) BY <1>1, HereOnly, ConcludeBelief
  <2>2. OriginOf[r] \in belief'[lane[r]] => conn'[lane[r]][OriginOf[r]] = "served"
    BY <1>1, ConcludeBelief, ConnectionNow
  <2> QED BY <2>1, <2>2, <1>1, ConcludeBelief, BeliefHere
<1>2. ASSUME lane[r] \in Lanes, UNCHANGED <<lane, belief>>, NEW place, Goto(r, place),
             OriginOf[r] \notin belief[lane[r]],
             conn' = conn \/ \E state \in {"fresh", "served", "lapsed"} : Connection(r, state)
      PROVE  BeliefInv'
  <2>1. OnlyHere(r) BY <1>2, HereOnly
  <2> QED BY <2>1, <1>2, BeliefHere
<1>3. pc[r] \in InFlight \cup {"leased", "retry", "waiting"} => lane[r] \in Lanes
  BY DEF Typed, HoldsLane, WithLane, InFlight, Handshaking
<1>4. pc[r] \in InFlight => OriginOf[r] \notin belief[lane[r]] BY DEF BeliefInv
<1> USE DEF InFlight, Handshaking
<1>5. CASE Reuse(r)
  <2>1. lane[r] \in Lanes /\ UNCHANGED <<lane, conn>> BY <1>3, <1>5 DEF Reuse
  <2>2. PICK place \in PcValues : Goto(r, place) BY <1>5 DEF Reuse, PcValues
  <2>3. CASE IsAuthenticated(r)
    <3>1. SetAuthenticated(r, FALSE) BY <2>3, <1>5 DEF Reuse
    <3>2. OriginOf[r] \notin belief'[lane[r]]
      BY <3>1, <2>1 DEF SetAuthenticated, Believed, Typed, TypeOK
    <3>3. OnlyHere(r) BY <3>1, <2>1, <2>2, HereOnly
    <3> QED BY <3>2, <3>3, <2>1, BeliefHere
  <2>4. CASE ~IsAuthenticated(r)
    <3>1. OriginOf[r] \notin belief[lane[r]] /\ UNCHANGED belief
      BY <2>4, <1>5 DEF Reuse, IsAuthenticated
    <3> QED BY <3>1, <2>1, <2>2, <1>2
  <2> QED BY <2>3, <2>4
<1>6. CASE ReuseServed(r) BY <1>6, <1>3, <1>1 DEF ReuseServed
<1>7. CASE ReuseDoubted(r) BY <1>7, <1>3, <1>4, <1>2 DEF ReuseDoubted
<1>8. CASE Open(r)
  <2>1. CASE Conclude(r, "refused", FALSE) BY <2>1, <1>8, <1>3, <1>1 DEF Open
  <2>2. CASE ~Conclude(r, "refused", FALSE) BY <2>2, <1>8, <1>3, <1>4, <1>2 DEF Open
  <2> QED BY <2>1, <2>2
<1>9. CASE SendPlain(r) BY <1>9, <1>3, <1>1 DEF SendPlain
<1>10. CASE Accept(r) BY <1>10, <1>3, <1>1 DEF Accept
<1>11. CASE Refuse(r) BY <1>11, <1>3, <1>1 DEF Refuse
<1>12. CASE Moved(r)
  <2>1. CASE attempt[r] < MaxAttempts BY <2>1, <1>12, <1>3, <1>4, <1>2 DEF Moved
  <2>2. CASE ~(attempt[r] < MaxAttempts) BY <2>2, <1>12, <1>3, <1>1 DEF Moved
  <2> QED BY <2>1, <2>2
<1>13. CASE HandshakeFails(r) BY <1>13, <1>3, <1>1 DEF HandshakeFails
<1>14. CASE Abandon(r)
  <2>1. CASE pc[r] \in InFlight BY <2>1, <1>14, <1>3, <1>4, <1>2 DEF Abandon
  <2>2. CASE pc[r] = "waiting"
    <3>1. Still BY <2>2, <1>14 DEF Abandon, Still, Typed, TypeOK
    <3> QED BY <3>1, StillBeliefs
  <2> QED BY <2>1, <2>2, <1>14 DEF Abandon
<1> QED
  BY <1>5, <1>6, <1>7, <1>8, <1>9, <1>10, <1>11, <1>12, <1>13, <1>14, StillSteps, StillBeliefs
  DEF Advance, Interrupt

\* A connection believed authenticated is one a request got through on.
THEOREM BeliefsGrounded == Spec => []BeliefGrounded
<1>1. Init => BeliefInv BY DEF Init, BeliefInv, BeliefGrounded, InFlight, Handshaking
<1>2. ASSUME Typed, Typed', LanesInv, BeliefInv, [Next]_vars PROVE BeliefInv'
  <2>1. ASSUME NEW r \in Requests, Advance(r) \/ Interrupt(r) PROVE BeliefInv'
    BY <1>2, <2>1, BeliefStep
  <2>2. ASSUME NEW l \in Lanes, NEW o \in Origins, Lapse(l, o) PROVE BeliefInv'
    BY <1>2, <2>2 DEF Lapse, BeliefInv, BeliefGrounded, Typed, TypeOK
  <2>3. CASE UNCHANGED <<pc, lane, belief, conn>> BY <1>2, <2>3 DEF BeliefInv, BeliefGrounded
  <2> QED BY <1>2, <2>1, <2>2, <2>3 DEF Next, ChangePassword, Finished, vars
<1>3. BeliefInv => BeliefGrounded BY DEF BeliefInv
<1> QED BY <1>1, <1>2, <1>3, TypeCorrect, LanesInvariant, PTL DEF Spec, Typed

-----------------------------------------------------------------------------
(* What a free pass rests on, when every server challenges a request without credentials. *)

\* A proven gate, a served connection and a warm lane all go back to an accepted handshake.
AcceptedInv ==
    /\ \A o \in Origins : proven[o] => o \in accepted
    /\ \A l \in Lanes, o \in Origins : conn[l][o] # "fresh" => o \in accepted
    /\ \A r \in Requests : warm[r] => OriginOf[r] \in accepted
    /\ \A r \in Requests : pc[r] # "plain"

\* What most steps do to all that: nothing.
Calm ==
    /\ UNCHANGED <<proven, conn, warm, accepted>>
    /\ \A s \in Requests : pc'[s] = "plain" => pc[s] = "plain"

LEMMA CalmAccepted == ASSUME AcceptedInv, Calm PROVE AcceptedInv'
BY DEF AcceptedInv, Calm

LEMMA CalmSteps ==
    ASSUME Typed, NEW r \in Requests,
           \/ Acquire(r) \/ TakeLane(r) \/ BuildFails(r) \/ Reuse(r) \/ LoadProven(r)
           \/ ReadCount(r) \/ LockTurn(r) \/ CheckRefusals(r) \/ ConfirmTurn(r) \/ TradeForWarm(r)
           \/ ReturnLane(r) \/ ReleasePermit(r) \/ RecordRefusal(r) \/ GiveUpTurn(r)
           \/ AbandonQueue(r)
    PROVE  Calm
<1> USE DEF Typed, TypeOK, Calm
<1>1. CASE Acquire(r) \/ BuildFails(r) \/ AbandonQueue(r) BY <1>1 DEF Acquire, BuildFails, AbandonQueue
<1>2. CASE TakeLane(r) \/ Reuse(r) BY <1>2 DEF TakeLane, Reuse
<1>3. CASE LoadProven(r) \/ ReadCount(r) \/ LockTurn(r) BY <1>3 DEF LoadProven, ReadCount, LockTurn
<1>4. CASE CheckRefusals(r) \/ ConfirmTurn(r) BY <1>4 DEF CheckRefusals, ConfirmTurn
<1>5. CASE TradeForWarm(r) BY <1>5 DEF TradeForWarm
<1>6. CASE ReturnLane(r) \/ ReleasePermit(r) BY <1>6 DEF ReturnLane, ReleasePermit
<1>7. CASE RecordRefusal(r) \/ GiveUpTurn(r) BY <1>7 DEF RecordRefusal, GiveUpTurn
<1> QED BY <1>1, <1>2, <1>3, <1>4, <1>5, <1>6, <1>7

\* A connection is served only where a handshake has been accepted, and the lane is left warm only
\* there too.
LEMMA EndsAccepted ==
    ASSUME Typed, AcceptedInv, NEW r \in Requests, lane[r] \in Lanes,
           accepted \subseteq accepted',
           \/ UNCHANGED conn
           \/ Connection(r, "fresh")
           \/ Connection(r, "served") /\ OriginOf[r] \in accepted',
           \/ UNCHANGED warm
           \/ warm' = [warm EXCEPT ![r] = FALSE]
           \/ warm' = [warm EXCEPT ![r] = TRUE] /\ OriginOf[r] \in accepted',
           \A o \in Origins : proven'[o] => proven[o] \/ o \in accepted',
           \A s \in Requests : pc'[s] = "plain" => pc[s] = "plain"
    PROVE  AcceptedInv'
<1>1. \A l \in Lanes, o \in Origins : conn'[l][o] # "fresh" => o \in accepted'
  <2> TAKE l \in Lanes, o \in Origins
  <2>1. (conn[l][o] # "fresh" => o \in accepted) /\ (o \in accepted => o \in accepted')
    BY DEF AcceptedInv
  <2>2. CASE UNCHANGED conn BY <2>1, <2>2
  <2>3. ASSUME NEW state, Connection(r, state)
        PROVE  conn'[l][o] = IF l = lane[r] /\ o = OriginOf[r] THEN state ELSE conn[l][o]
    BY <2>3, RequestsAssumption DEF Connection, Typed, TypeOK
  <2>4. CASE Connection(r, "fresh") BY <2>1, <2>3, <2>4
  <2>5. CASE Connection(r, "served") /\ OriginOf[r] \in accepted' BY <2>1, <2>3, <2>5
  <2> QED BY <2>2, <2>4, <2>5
<1>2. \A s \in Requests : warm'[s] => OriginOf[s] \in accepted'
  BY DEF AcceptedInv, Typed, TypeOK
<1> QED BY <1>1, <1>2 DEF AcceptedInv

LEMMA AcceptedStep ==
    ASSUME ~Unchallenged, Typed, AcceptedInv, NEW r \in Requests, Advance(r) \/ Interrupt(r)
    PROVE  AcceptedInv'
<1>1. pc[r] \in InFlight \cup {"waiting"} => lane[r] \in Lanes
  BY DEF Typed, HoldsLane, WithLane, InFlight, Handshaking
<1> USE DEF InFlight, Handshaking
<1>2. pc \in [Requests -> PcValues] BY DEF Typed, TypeOK
<1>3. CASE ReuseServed(r)
  <2>1. conn[lane[r]][OriginOf[r]] = "served" /\ lane[r] \in Lanes BY <1>1, <1>3 DEF ReuseServed
  <2>2. OriginOf[r] \in accepted BY <2>1, RequestsAssumption DEF AcceptedInv
  <2> QED BY <2>1, <2>2, <1>2, <1>3, EndsAccepted DEF ReuseServed, Conclude
<1>4. CASE ReuseDoubted(r)
  <2>1. \A o \in Origins : proven'[o] => proven[o] BY <1>4 DEF ReuseDoubted, Typed, TypeOK
  <2>2. \A s \in Requests : pc'[s] = "plain" => pc[s] = "plain" BY <1>2, <1>4 DEF ReuseDoubted
  <2>3. lane[r] \in Lanes BY <1>1, <1>4 DEF ReuseDoubted
  <2> QED BY <2>1, <2>2, <2>3, <1>4, EndsAccepted DEF ReuseDoubted
<1>5. CASE Open(r)
  <2>1. lane[r] \in Lanes BY <1>1, <1>5 DEF Open
  <2>2. \A s \in Requests : pc'[s] = "plain" => pc[s] = "plain"
    BY <1>2, <1>5 DEF Open, Conclude
  <2>3. UNCHANGED warm \/ warm' = [warm EXCEPT ![r] = FALSE] BY <1>5 DEF Open, Conclude
  <2> QED BY <2>1, <2>2, <2>3, <1>5, EndsAccepted DEF Open
<1>6. CASE SendPlain(r) BY <1>6 DEF SendPlain, AcceptedInv
<1>7. CASE Accept(r) BY <1>1, <1>2, <1>7, EndsAccepted DEF Accept, Conclude
<1>8. CASE Refuse(r) BY <1>1, <1>2, <1>8, EndsAccepted DEF Refuse, Conclude
<1>9. CASE Moved(r)
  <2>1. lane[r] \in Lanes BY <1>1, <1>9 DEF Moved
  <2>2. \A s \in Requests : pc'[s] = "plain" => pc[s] = "plain"
    BY <1>2, <1>9 DEF Moved, Conclude
  <2>3. UNCHANGED warm \/ warm' = [warm EXCEPT ![r] = FALSE] BY <1>9 DEF Moved, Conclude
  <2> QED BY <2>1, <2>2, <2>3, <1>9, EndsAccepted DEF Moved
<1>10. CASE HandshakeFails(r) BY <1>1, <1>2, <1>10, EndsAccepted DEF HandshakeFails, Conclude
<1>11. CASE Settle(r)
  <2>1. \A o \in Origins : proven'[o] => proven[o] \/ o \in accepted
    <3>1. proven \in [Origins -> BOOLEAN] /\ OriginOf[r] \in Origins
      BY RequestsAssumption DEF Typed, TypeOK
    <3>2. CASE warm[r]
      <4>1. proven' = [proven EXCEPT ![OriginOf[r]] = TRUE] BY <1>11, <3>2 DEF Settle
      <4>2. OriginOf[r] \in accepted BY <3>2 DEF AcceptedInv
      <4> QED BY <3>1, <4>1, <4>2
    <3>3. CASE ~warm[r] /\ outcome[r] = "refused"
      <4>1. proven' = [proven EXCEPT ![OriginOf[r]] = FALSE] BY <1>11, <3>3 DEF Settle
      <4> QED BY <3>1, <4>1
    <3>4. CASE ~warm[r] /\ outcome[r] # "refused" BY <1>11, <3>4 DEF Settle
    <3> QED BY <3>2, <3>3, <3>4
  <2>2. \A s \in Requests : pc'[s] = "plain" => pc[s] = "plain" BY <1>2, <1>11 DEF Settle
  <2>3. UNCHANGED <<conn, warm, accepted>> BY <1>11 DEF Settle
  <2> QED BY <2>1, <2>2, <2>3 DEF AcceptedInv
<1>12. CASE Abandon(r)
  <2>1. lane[r] \in Lanes BY <1>1, <1>12 DEF Abandon
  <2>2. UNCHANGED conn \/ Connection(r, "fresh") BY <1>12 DEF Abandon
  <2> QED BY <2>1, <2>2, <1>2, <1>12, EndsAccepted DEF Abandon
<1> QED
  BY <1>3, <1>4, <1>5, <1>6, <1>7, <1>8, <1>9, <1>10, <1>11, <1>12, CalmSteps, CalmAccepted
  DEF Advance, Interrupt

-----------------------------------------------------------------------------
(* Turns. *)

Past == {"trade", "retry", "again"} \cup Handshaking    \* past the gate, and not yet answered

\* A request past the gate has the turn, or a free pass.
TurnsInv ==
    /\ \A r \in Requests : pc[r] \in {"granted", "confirm"} => turn[OriginOf[r]] = r
    /\ \A r \in Requests : pc[r] \in Past => turn[OriginOf[r]] = r \/ OriginOf[r] \in accepted

\* No step of a request takes the turn from another.
LEMMA TurnsHere ==
    ASSUME Typed, TurnsInv, NEW r \in Requests, NEW place, pc' = [pc EXCEPT ![r] = place],
           accepted \subseteq accepted',
           \/ UNCHANGED turn
           \/ FreeTurn(r)
           \/ turn[OriginOf[r]] = None /\ turn' = [turn EXCEPT ![OriginOf[r]] = r],
           place \in {"granted", "confirm"} => turn'[OriginOf[r]] = r,
           place \in Past => turn'[OriginOf[r]] = r \/ OriginOf[r] \in accepted'
    PROVE  TurnsInv'
<1>1. ASSUME NEW s \in Requests \ {r}, turn[OriginOf[s]] = s PROVE turn'[OriginOf[s]] = s
  <2>1. turn \in [Origins -> Requests \cup {None}] /\ OriginOf \in [Requests -> Origins]
    BY RequestsAssumption DEF Typed, TypeOK
  <2>2. s # r /\ s # None BY NamesAssumption
  <2>3. CASE FreeTurn(r) BY <1>1, <2>1, <2>2, <2>3 DEF FreeTurn
  <2>4. CASE turn[OriginOf[r]] = None /\ turn' = [turn EXCEPT ![OriginOf[r]] = r]
    BY <1>1, <2>1, <2>2, <2>4
  <2> QED BY <1>1, <2>3, <2>4
<1>2. pc'[r] = place /\ \A s \in Requests \ {r} : pc'[s] = pc[s] BY DEF Typed, TypeOK
<1> QED BY <1>1, <1>2 DEF TurnsInv, Past, Handshaking

LEMMA TurnsStep ==
    ASSUME ~Unchallenged, Typed, AcceptedInv, TurnsInv, NEW r \in Requests,
           Advance(r) \/ Interrupt(r)
    PROVE  TurnsInv'
<1> USE DEF Past, Handshaking, InFlight
<1>1. OriginOf[r] \in Origins BY RequestsAssumption
<1>2. turn \in [Origins -> Requests \cup {None}] BY DEF Typed, TypeOK
<1>3. pc[r] \in {"granted", "confirm"} => turn[OriginOf[r]] = r BY DEF TurnsInv
<1>4. pc[r] \in Past => turn[OriginOf[r]] = r \/ OriginOf[r] \in accepted BY DEF TurnsInv
<1>5. CASE Acquire(r) BY <1>5, TurnsHere DEF Acquire
<1>6. CASE TakeLane(r) BY <1>6, TurnsHere DEF TakeLane
<1>7. CASE BuildFails(r) BY <1>7, TurnsHere DEF BuildFails
<1>8. CASE Reuse(r)
  <2>1. UNCHANGED <<turn, accepted>> BY <1>8 DEF Reuse
  <2>2. CASE pc[r] = "leased"
    <3>1. \E place \in {"reusing", "gate"} : pc' = [pc EXCEPT ![r] = place] BY <2>2, <1>8 DEF Reuse
    <3> QED BY <3>1, <2>1, TurnsHere
  <2>3. CASE pc[r] = "retry"
    <3>1. \E place \in {"again", "opening"} : pc' = [pc EXCEPT ![r] = place] BY <2>3, <1>8 DEF Reuse
    <3> QED BY <3>1, <2>1, <2>3, <1>4, TurnsHere
  <2> QED BY <2>2, <2>3, <1>8 DEF Reuse
<1>9. CASE ReuseServed(r) BY <1>9, TurnsHere DEF ReuseServed, Conclude
<1>10. CASE ReuseDoubted(r)
  <2>1. UNCHANGED <<turn, accepted>> BY <1>10 DEF ReuseDoubted
  <2>2. CASE pc[r] = "reusing" BY <2>2, <1>10, TurnsHere DEF ReuseDoubted
  <2>3. CASE pc[r] = "again" BY <2>3, <1>10, <1>4, TurnsHere DEF ReuseDoubted
  <2> QED BY <2>2, <2>3, <1>10 DEF ReuseDoubted
<1>11. CASE LoadProven(r)
  <2>1. UNCHANGED <<turn, accepted>> BY <1>11 DEF LoadProven
  <2>2. CASE proven[OriginOf[r]]
    <3>1. OriginOf[r] \in accepted BY <2>2, <1>1 DEF AcceptedInv
    <3>2. pc' = [pc EXCEPT ![r] = "trade"] BY <2>2, <1>11 DEF LoadProven
    <3> QED BY <3>1, <3>2, <2>1, TurnsHere
  <2>3. CASE ~proven[OriginOf[r]] BY <2>1, <2>3, <1>11, TurnsHere DEF LoadProven
  <2> QED BY <2>2, <2>3
<1>12. CASE ReadCount(r) BY <1>12, TurnsHere DEF ReadCount
<1>13. CASE LockTurn(r)
  <2>1. turn'[OriginOf[r]] = r BY <1>1, <1>2, <1>13 DEF LockTurn
  <2> QED BY <2>1, <1>13, TurnsHere DEF LockTurn
<1>14. CASE CheckRefusals(r)
  <2>1. CASE pc' = [pc EXCEPT ![r] = "handback"] BY <2>1, <1>14, TurnsHere DEF CheckRefusals
  <2>2. CASE pc' = [pc EXCEPT ![r] = "confirm"] /\ UNCHANGED turn
    BY <2>2, <1>3, <1>14, TurnsHere DEF CheckRefusals
  <2> QED BY <2>1, <2>2, <1>14 DEF CheckRefusals
<1>15. CASE ConfirmTurn(r)
  <2>1. pc' = [pc EXCEPT ![r] = "trade"] /\ UNCHANGED accepted BY <1>15 DEF ConfirmTurn
  <2>2. CASE proven[OriginOf[r]]
    <3>1. OriginOf[r] \in accepted BY <2>2, <1>1 DEF AcceptedInv
    <3>2. FreeTurn(r) BY <2>2, <1>15 DEF ConfirmTurn
    <3> QED BY <3>1, <3>2, <2>1, TurnsHere
  <2>3. CASE ~proven[OriginOf[r]] BY <2>1, <2>3, <1>3, <1>15, TurnsHere DEF ConfirmTurn
  <2> QED BY <2>2, <2>3
<1>16. CASE TradeForWarm(r) BY <1>4, <1>16, TurnsHere DEF TradeForWarm
<1>17. CASE Open(r)
  <2>1. UNCHANGED <<turn, accepted>> BY <1>17 DEF Open
  <2>2. CASE pc' = [pc EXCEPT ![r] = "answering"] BY <2>1, <2>2, <1>4, <1>17, TurnsHere DEF Open
  <2>3. CASE pc' = [pc EXCEPT ![r] = "handback"] BY <2>1, <2>3, TurnsHere
  <2> QED BY <2>2, <2>3, <1>17 DEF Open, Conclude
<1>18. CASE SendPlain(r) BY <1>18 DEF SendPlain, AcceptedInv
<1>19. CASE Accept(r) BY <1>19, TurnsHere DEF Accept, Conclude
<1>20. CASE Refuse(r) BY <1>20, TurnsHere DEF Refuse, Conclude
<1>21. CASE Moved(r)
  <2>1. UNCHANGED <<turn, accepted>> BY <1>21 DEF Moved
  <2>2. CASE pc' = [pc EXCEPT ![r] = "opening"] BY <2>1, <2>2, <1>4, <1>21, TurnsHere DEF Moved
  <2>3. CASE pc' = [pc EXCEPT ![r] = "handback"] BY <2>1, <2>3, TurnsHere
  <2> QED BY <2>2, <2>3, <1>21 DEF Moved, Conclude
<1>22. CASE HandshakeFails(r) BY <1>22, TurnsHere DEF HandshakeFails, Conclude
<1>23. CASE ReturnLane(r) BY <1>23, TurnsHere DEF ReturnLane
<1>24. CASE ReleasePermit(r)
  <2>1. \E place \in {"settle", "done"} : pc' = [pc EXCEPT ![r] = place] BY <1>24 DEF ReleasePermit
  <2> QED BY <2>1, <1>24, TurnsHere DEF ReleasePermit
<1>25. CASE Settle(r)
  <2>1. \E place \in {"free", "record"} : pc' = [pc EXCEPT ![r] = place] BY <1>25 DEF Settle
  <2> QED BY <2>1, <1>25, TurnsHere DEF Settle
<1>26. CASE RecordRefusal(r) BY <1>26, TurnsHere DEF RecordRefusal
<1>27. CASE GiveUpTurn(r) BY <1>27, TurnsHere DEF GiveUpTurn
<1>28. CASE Abandon(r) BY <1>28, TurnsHere DEF Abandon
<1>29. CASE AbandonQueue(r) BY <1>29, TurnsHere DEF AbandonQueue
<1> QED
  BY <1>5, <1>6, <1>7, <1>8, <1>9, <1>10, <1>11, <1>12, <1>13, <1>14, <1>15, <1>16, <1>17,
     <1>18, <1>19, <1>20, <1>21, <1>22, <1>23, <1>24, <1>25, <1>26, <1>27, <1>28, <1>29
  DEF Advance, Interrupt

\* Whoever is past the gate holds the turn, or a server has accepted a handshake.
THEOREM TurnsInvariant == ASSUME ~Unchallenged PROVE Spec => [](AcceptedInv /\ TurnsInv)
<1>1. Init => AcceptedInv /\ TurnsInv
  BY RequestsAssumption DEF Init, AcceptedInv, TurnsInv, Past, Handshaking
<1>2. ASSUME Typed, AcceptedInv, TurnsInv, [Next]_vars PROVE AcceptedInv' /\ TurnsInv'
  <2>1. ASSUME NEW r \in Requests, Advance(r) \/ Interrupt(r) PROVE AcceptedInv' /\ TurnsInv'
    BY <1>2, <2>1, AcceptedStep, TurnsStep
  <2>2. ASSUME NEW l \in Lanes, NEW o \in Origins, Lapse(l, o) PROVE AcceptedInv' /\ TurnsInv'
    <3>1. AcceptedInv' BY <1>2, <2>2 DEF Lapse, AcceptedInv, Typed, TypeOK
    <3> QED BY <3>1, <1>2, <2>2 DEF Lapse, TurnsInv
  <2>3. CASE UNCHANGED <<pc, turn, proven, conn, warm, accepted>>
    BY <1>2, <2>3 DEF AcceptedInv, TurnsInv
  <2> QED BY <1>2, <2>1, <2>2, <2>3 DEF Next, ChangePassword, Finished, vars
<1> QED BY <1>1, <1>2, TypeCorrect, PTL DEF Spec, Typed

\* Until its server has accepted a handshake, no two handshakes to an origin run at once.
THEOREM TakeTurns == ASSUME ~Unchallenged PROVE Spec => []TurnsUntilAccepted
<1>1. AcceptedInv /\ TurnsInv => TurnsUntilAccepted
  BY DEF TurnsInv, TurnsUntilAccepted, Past, Handshaking
<1> QED BY <1>1, TurnsInvariant, PTL

-----------------------------------------------------------------------------
(* Refusals shared. *)

\* Where no handshake has been attempted yet, and where the request has been answered.
Early == {"new", "permitted", "leased", "reusing", "gate", "counting", "waiting", "granted",
          "confirm", "trade", "retry", "again"}
Late == {"handback", "release", "settle", "record", "free", "done"}

\* A spared request read the count before the refusal was recorded, so it cannot miss it.
SpareInv ==
    /\ \A r \in Requests : pc[r] \in Early => attempt[r] = 0
    /\ \A r \in Requests : pc[r] \in {"waiting", "granted"} => seen[r] <= count[OriginOf[r]]
    /\ \A r \in spared :
         /\ attempt[r] = 0
         /\ \/ pc[r] \in Late
            \/ pc[r] \in {"waiting", "granted"} /\ seen[r] < count[OriginOf[r]]

\* A step of r that neither counts a refusal nor spares anyone.
LEMMA SpareHere ==
    ASSUME Typed, SpareInv, NEW r \in Requests, NEW place, pc' = [pc EXCEPT ![r] = place],
           UNCHANGED <<count, spared>>,
           UNCHANGED seen \/ (seen' = [seen EXCEPT ![r] = count[OriginOf[r]]] /\ pc[r] = "counting"),
           \/ UNCHANGED attempt
           \/ r \notin spared /\ \E n : attempt' = [attempt EXCEPT ![r] = n],
           place \in Early => attempt'[r] = 0,
           place \in {"waiting", "granted"} => seen'[r] <= count[OriginOf[r]],
           r \in spared => \/ place \in Late
                           \/ place \in {"waiting", "granted"} /\ seen[r] < count[OriginOf[r]]
    PROVE  SpareInv'
<1>1. pc'[r] = place /\ \A s \in Requests \ {r} : pc'[s] = pc[s] BY DEF Typed, TypeOK
<1>2. \A s \in Requests \ {r} : attempt'[s] = attempt[s] BY DEF Typed, TypeOK
<1>3. \A s \in Requests \ {r} : seen'[s] = seen[s] BY DEF Typed, TypeOK
<1>4. r \in spared => attempt'[r] = 0 /\ seen'[r] = seen[r]
  BY DEF SpareInv, Typed, TypeOK, Late
<1>5. spared \subseteq Requests BY DEF Typed, TypeOK
<1>6. \A s \in Requests : pc'[s] \in Early => attempt'[s] = 0 BY <1>1, <1>2 DEF SpareInv
<1>7. \A s \in Requests : pc'[s] \in {"waiting", "granted"} => seen'[s] <= count'[OriginOf[s]]
  BY <1>1, <1>3 DEF SpareInv
<1>8. \A s \in spared' : attempt'[s] = 0 BY <1>2, <1>4, <1>5 DEF SpareInv
<1>9. \A s \in spared' : \/ pc'[s] \in Late
                         \/ pc'[s] \in {"waiting", "granted"} /\ seen'[s] < count'[OriginOf[s]]
  BY <1>1, <1>3, <1>4, <1>5 DEF SpareInv
<1> QED BY <1>6, <1>7, <1>8, <1>9 DEF SpareInv

LEMMA SpareStep ==
    ASSUME Typed, SpareInv, NEW r \in Requests, Advance(r) \/ Interrupt(r)
    PROVE  SpareInv'
<1> USE DEF Early, Late, Handshaking, InFlight
<1>1. pc[r] \notin Late \cup {"waiting", "granted"} => r \notin spared BY DEF SpareInv
<1>2. r \in spared /\ pc[r] \notin Late => seen[r] < count[OriginOf[r]] BY DEF SpareInv
<1>3. OriginOf[r] \in Origins BY RequestsAssumption
<1>4. seen \in [Requests -> Nat] /\ count \in [Origins -> Nat] BY DEF Typed, TypeOK
<1>5. pc[r] \in Early => attempt[r] = 0 BY DEF SpareInv
<1>6. pc[r] \in {"waiting", "granted"} => seen[r] <= count[OriginOf[r]] BY DEF SpareInv
<1>7. CASE Acquire(r) BY <1>1, <1>5, <1>7, SpareHere DEF Acquire
<1>8. CASE TakeLane(r) BY <1>1, <1>5, <1>8, SpareHere DEF TakeLane
<1>9. CASE BuildFails(r) BY <1>1, <1>9, SpareHere DEF BuildFails
<1>10. CASE Reuse(r)
  <2>1. UNCHANGED <<count, spared, seen>> /\ r \notin spared BY <1>1, <1>10 DEF Reuse
  <2>2. CASE UNCHANGED attempt /\ \E place \in {"reusing", "again", "gate"} : pc' = [pc EXCEPT ![r] = place]
    BY <2>1, <2>2, <1>5, <1>10, SpareHere DEF Reuse
  <2>3. CASE pc' = [pc EXCEPT ![r] = "opening"] /\ attempt' = [attempt EXCEPT ![r] = 1]
    BY <2>1, <2>3, SpareHere
  <2> QED BY <2>2, <2>3, <1>10 DEF Reuse
<1>11. CASE ReuseServed(r) BY <1>11, SpareHere DEF ReuseServed, Conclude
<1>12. CASE ReuseDoubted(r)
  <2>1. UNCHANGED <<count, spared, seen>> /\ r \notin spared BY <1>1, <1>12 DEF ReuseDoubted
  <2>2. CASE UNCHANGED attempt /\ pc' = [pc EXCEPT ![r] = "gate"]
    BY <2>1, <2>2, <1>5, <1>12, SpareHere DEF ReuseDoubted
  <2>3. CASE pc' = [pc EXCEPT ![r] = "opening"] /\ attempt' = [attempt EXCEPT ![r] = 1]
    BY <2>1, <2>3, SpareHere
  <2> QED BY <2>2, <2>3, <1>12 DEF ReuseDoubted
<1>13. CASE LoadProven(r)
  <2>1. \E place \in {"trade", "counting"} : pc' = [pc EXCEPT ![r] = place] BY <1>13 DEF LoadProven
  <2> QED BY <2>1, <1>1, <1>5, <1>13, SpareHere DEF LoadProven
<1>14. CASE ReadCount(r)
  <2>1. seen'[r] <= count[OriginOf[r]] BY <1>3, <1>4, <1>14 DEF ReadCount
  <2> QED BY <2>1, <1>1, <1>5, <1>14, SpareHere DEF ReadCount
<1>15. CASE LockTurn(r) BY <1>2, <1>5, <1>6, <1>15, SpareHere DEF LockTurn
<1>16. CASE CheckRefusals(r)
  <2>1. UNCHANGED <<count, spared, seen, attempt>> BY <1>16 DEF CheckRefusals
  <2>2. CASE pc' = [pc EXCEPT ![r] = "handback"] BY <2>1, <2>2, SpareHere
  <2>3. CASE pc' = [pc EXCEPT ![r] = "confirm"] /\ count[OriginOf[r]] = seen[r]
    <3>1. r \notin spared BY <2>3, <1>2, <1>3, <1>4, <1>16 DEF CheckRefusals
    <3> QED BY <3>1, <2>1, <2>3, <1>5, <1>16, SpareHere DEF CheckRefusals
  <2> QED BY <2>2, <2>3, <1>16 DEF CheckRefusals
<1>17. CASE ConfirmTurn(r) BY <1>1, <1>5, <1>17, SpareHere DEF ConfirmTurn
<1>18. CASE TradeForWarm(r) BY <1>1, <1>5, <1>18, SpareHere DEF TradeForWarm
<1>19. CASE Open(r)
  <2>1. UNCHANGED <<count, spared, seen, attempt>> /\ r \notin spared BY <1>1, <1>19 DEF Open
  <2>2. \E place \in {"answering", "plain", "handback"} : pc' = [pc EXCEPT ![r] = place]
    BY <1>19 DEF Open, Conclude
  <2> QED BY <2>1, <2>2, SpareHere
<1>20. CASE SendPlain(r) BY <1>20, SpareHere DEF SendPlain, Conclude
<1>21. CASE Accept(r) BY <1>21, SpareHere DEF Accept, Conclude
<1>22. CASE Refuse(r) BY <1>22, SpareHere DEF Refuse, Conclude
<1>23. CASE Moved(r)
  <2>1. UNCHANGED <<count, spared, seen>> /\ r \notin spared BY <1>1, <1>23 DEF Moved
  <2>2. CASE pc' = [pc EXCEPT ![r] = "opening"] /\ attempt' = [attempt EXCEPT ![r] = @ + 1]
    BY <2>1, <2>2, SpareHere
  <2>3. CASE pc' = [pc EXCEPT ![r] = "handback"] /\ UNCHANGED attempt BY <2>1, <2>3, SpareHere
  <2> QED BY <2>2, <2>3, <1>23 DEF Moved, Conclude
<1>24. CASE HandshakeFails(r) BY <1>24, SpareHere DEF HandshakeFails, Conclude
<1>25. CASE ReturnLane(r) BY <1>25, SpareHere DEF ReturnLane
<1>26. CASE ReleasePermit(r)
  <2>1. \E place \in {"settle", "done"} : pc' = [pc EXCEPT ![r] = place] BY <1>26 DEF ReleasePermit
  <2> QED BY <2>1, <1>26, SpareHere DEF ReleasePermit
<1>27. CASE Settle(r)
  <2>1. \E place \in {"free", "record"} : pc' = [pc EXCEPT ![r] = place] BY <1>27 DEF Settle
  <2> QED BY <2>1, <1>27, SpareHere DEF Settle
<1>28. CASE RecordRefusal(r)
  <2>1. \A s \in Requests : pc'[s] = IF s = r THEN "free" ELSE pc[s]
    BY <1>28 DEF RecordRefusal, Typed, TypeOK
  <2>2. UNCHANGED <<attempt, seen>> BY <1>28 DEF RecordRefusal
  <2>3. \A s \in Requests : count'[OriginOf[s]] = IF OriginOf[s] = OriginOf[r] THEN count[OriginOf[s]] + 1
                                                                            ELSE count[OriginOf[s]]
    BY <1>4, <1>28, RequestsAssumption DEF RecordRefusal
  <2>4. \A s \in Requests : seen[s] \in Nat /\ count[OriginOf[s]] \in Nat
    BY <1>4, RequestsAssumption
  <2>5. spared \subseteq Requests BY DEF Typed, TypeOK
  <2>6. \A s \in spared' : \/ s \in spared
                           \/ s \in Requests /\ pc[s] = "waiting" /\ OriginOf[s] = OriginOf[r]
    BY <1>28 DEF RecordRefusal
  <2>7. pc[r] = "record" BY <1>28 DEF RecordRefusal
  <2>8. \A s \in Requests : pc'[s] \in Early => attempt'[s] = 0 BY <2>1, <2>2 DEF SpareInv
  <2>9. \A s \in Requests : pc'[s] \in {"waiting", "granted"} => seen'[s] <= count'[OriginOf[s]]
    BY <2>1, <2>2, <2>3, <2>4 DEF SpareInv
  <2>10. ASSUME NEW s \in spared', s \in spared
         PROVE  /\ attempt'[s] = 0
                /\ \/ pc'[s] \in Late
                   \/ pc'[s] \in {"waiting", "granted"} /\ seen'[s] < count'[OriginOf[s]]
    BY <2>1, <2>2, <2>3, <2>4, <2>5, <2>10 DEF SpareInv
  <2>11. ASSUME NEW s \in Requests, pc[s] = "waiting", OriginOf[s] = OriginOf[r]
         PROVE  attempt'[s] = 0 /\ pc'[s] = "waiting" /\ seen'[s] < count'[OriginOf[s]]
    BY <2>1, <2>2, <2>3, <2>4, <2>7, <2>11 DEF SpareInv
  <2> QED BY <2>6, <2>8, <2>9, <2>10, <2>11 DEF SpareInv
<1>29. CASE GiveUpTurn(r) BY <1>29, SpareHere DEF GiveUpTurn
<1>30. CASE Abandon(r) BY <1>30, SpareHere DEF Abandon
<1>31. CASE AbandonQueue(r) BY <1>31, SpareHere DEF AbandonQueue
<1> QED
  BY <1>7, <1>8, <1>9, <1>10, <1>11, <1>12, <1>13, <1>14, <1>15, <1>16, <1>17, <1>18, <1>19, <1>20,
     <1>21, <1>22, <1>23, <1>24, <1>25, <1>26, <1>27, <1>28, <1>29, <1>30, <1>31
  DEF Advance, Interrupt

\* A request that is refused with another's handshake cannot miss it, and has run none of its own.
THEOREM SpareInvariant == Spec => []SpareInv
<1>1. Init => SpareInv BY DEF Init, SpareInv
<1>2. ASSUME Typed, SpareInv, [Next]_vars PROVE SpareInv'
  <2>1. ASSUME UNCHANGED <<pc, attempt, seen, count, spared>> PROVE SpareInv' BY <1>2, <2>1 DEF SpareInv
  <2> QED BY <1>2, <2>1, SpareStep DEF Next, Lapse, ChangePassword, Finished, vars
<1> QED BY <1>1, <1>2, TypeCorrect, PTL DEF Spec, Typed

\* A request that was waiting for its turn when another's handshake was refused sends no password.
THEOREM RefusalsShared == Spec => []SharedRefusal
<1>1. SpareInv => SharedRefusal BY DEF SpareInv, SharedRefusal, Late, Handshaking
<1> QED BY <1>1, SpareInvariant, PTL

-----------------------------------------------------------------------------
(* LanePool implements LogonGate. *)

Trying == {r \in Requests : pc[r] \in Handshaking}
Tried == {r \in Requests : attempt[r] > 0 /\ pc[r] \notin Handshaking}

\* A request at its handshake has an attempt to its name: it is in Tried as soon as it leaves.
AttemptInv == \A r \in Requests : pc[r] \in Handshaking => attempt[r] > 0

\* The steps of one request, as the gate sees them: it is as far as it was, or begins, or ends.
Begins(r) ==
    /\ pc[r] \in {"retry", "again"} /\ pc' = [pc EXCEPT ![r] = "opening"]
    /\ attempt' = [attempt EXCEPT ![r] = 1]
    /\ UNCHANGED <<accepted, spared, turn>>

Ends(r) ==
    /\ pc[r] \in Handshaking /\ pc' = [pc EXCEPT ![r] = "handback"]
    /\ UNCHANGED <<attempt, spared>>
    /\ accepted' \in {accepted, accepted \cup {OriginOf[r]}}

Continues(r) ==
    /\ \E place \in PcValues :
         /\ pc' = [pc EXCEPT ![r] = place]
         /\ pc[r] \in Handshaking <=> place \in Handshaking
    /\ \/ UNCHANGED attempt
       \/ pc[r] \in Handshaking /\ attempt' = [attempt EXCEPT ![r] = @ + 1]
    /\ UNCHANGED accepted

LEMMA EveryStep ==
    ASSUME Typed, AttemptInv, NEW r \in Requests, Advance(r) \/ Interrupt(r)
    PROVE  \/ Begins(r)
           \/ Ends(r)
           \/ Continues(r) /\ UNCHANGED spared
           \/ Continues(r) /\ RecordRefusal(r)
<1> USE DEF Begins, Ends, Continues, Handshaking, InFlight, PcValues
<1>1. CASE Acquire(r) BY <1>1 DEF Acquire
<1>2. CASE TakeLane(r) BY <1>2 DEF TakeLane
<1>3. CASE BuildFails(r) BY <1>3 DEF BuildFails
<1>4. CASE Reuse(r)
  <2>1. CASE pc' = [pc EXCEPT ![r] = "opening"] BY <2>1, <1>4 DEF Reuse
  <2>2. CASE UNCHANGED attempt /\ \E place \in {"reusing", "again", "gate"} : pc' = [pc EXCEPT ![r] = place]
    BY <2>2, <1>4 DEF Reuse
  <2> QED BY <2>1, <2>2, <1>4 DEF Reuse
<1>5. CASE ReuseServed(r) BY <1>5 DEF ReuseServed, Conclude
<1>6. CASE ReuseDoubted(r) BY <1>6 DEF ReuseDoubted
<1>7. CASE LoadProven(r) BY <1>7 DEF LoadProven
<1>8. CASE ReadCount(r) BY <1>8 DEF ReadCount
<1>9. CASE LockTurn(r) BY <1>9 DEF LockTurn
<1>10. CASE CheckRefusals(r) BY <1>10 DEF CheckRefusals
<1>11. CASE ConfirmTurn(r) BY <1>11 DEF ConfirmTurn
<1>12. CASE TradeForWarm(r) BY <1>12 DEF TradeForWarm
<1>13. CASE Open(r) BY <1>13 DEF Open, Conclude
<1>14. CASE SendPlain(r) BY <1>14 DEF SendPlain, Conclude
<1>15. CASE Accept(r) BY <1>15 DEF Accept, Conclude
<1>16. CASE Refuse(r) BY <1>16 DEF Refuse, Conclude
<1>17. CASE Moved(r) BY <1>17 DEF Moved, Conclude
<1>18. CASE HandshakeFails(r) BY <1>18 DEF HandshakeFails, Conclude
<1>19. CASE ReturnLane(r) BY <1>19 DEF ReturnLane
<1>20. CASE ReleasePermit(r) BY <1>20 DEF ReleasePermit
<1>21. CASE Settle(r) BY <1>21 DEF Settle
<1>22. CASE RecordRefusal(r) BY <1>22 DEF RecordRefusal
<1>23. CASE GiveUpTurn(r) BY <1>23 DEF GiveUpTurn
<1>24. CASE Abandon(r) BY <1>24 DEF Abandon
<1>25. CASE AbandonQueue(r) BY <1>25 DEF AbandonQueue
<1> QED
  BY <1>1, <1>2, <1>3, <1>4, <1>5, <1>6, <1>7, <1>8, <1>9, <1>10, <1>11, <1>12, <1>13, <1>14, <1>15,
     <1>16, <1>17, <1>18, <1>19, <1>20, <1>21, <1>22, <1>23, <1>24, <1>25
  DEF Advance, Interrupt

\* Whoever is in a handshake has begun one.
THEOREM AttemptInvariant == Spec => []AttemptInv
<1>1. Init => AttemptInv BY DEF Init, AttemptInv, Handshaking
<1>2. ASSUME Typed, AttemptInv, [Next]_vars PROVE AttemptInv'
  <2>1. ASSUME NEW r \in Requests, Advance(r) \/ Interrupt(r) PROVE AttemptInv'
    <3>1. Begins(r) \/ Ends(r) \/ Continues(r) BY <1>2, <2>1, EveryStep
    <3>2. CASE Begins(r) BY <1>2, <3>2 DEF Begins, AttemptInv, Typed, TypeOK
    <3>3. CASE Ends(r) BY <1>2, <3>3 DEF Ends, AttemptInv, Handshaking, Typed, TypeOK
    <3>4. CASE Continues(r)
      <4>1. pc \in [Requests -> PcValues] /\ attempt \in [Requests -> 0..MaxAttempts] /\ MaxAttempts \in Nat
        BY <1>2, BoundsAssumption DEF Typed, TypeOK
      <4>2. \A s \in Requests : pc'[s] \in Handshaking => pc[s] \in Handshaking
        BY <3>4, <4>1 DEF Continues
      <4>3. \A s \in Requests : attempt[s] > 0 => attempt'[s] > 0 BY <3>4, <4>1 DEF Continues
      <4> QED BY <1>2, <4>2, <4>3 DEF AttemptInv
    <3> QED BY <3>1, <3>2, <3>3, <3>4
  <2>2. CASE UNCHANGED <<pc, attempt>> BY <1>2, <2>2 DEF AttemptInv
  <2> QED BY <1>2, <2>1, <2>2 DEF Next, Lapse, ChangePassword, Finished, vars
<1> QED BY <1>1, <1>2, TypeCorrect, PTL DEF Spec, Typed

LEMMA GateStep ==
    ASSUME Typed, TurnsInv, SpareInv, AttemptInv, NEW r \in Requests, Advance(r) \/ Interrupt(r)
    PROVE  [Gate!Next]_(Gate!gateVars)
<1> USE DEF Gate!gateVars, Handshaking
<1>1. pc \in [Requests -> PcValues] /\ attempt \in [Requests -> 0..MaxAttempts] /\ MaxAttempts \in Nat
  BY BoundsAssumption DEF Typed, TypeOK
<1>2. CASE Begins(r)
  <2>1. attempt[r] = 0 /\ r \notin spared BY <1>2 DEF Begins, SpareInv, Early, Late
  <2>2. \A s \in Requests : (OriginOf[s] = OriginOf[r] /\ pc[s] \in Handshaking) => OriginOf[r] \in accepted
    <3> SUFFICES ASSUME NEW s \in Requests, OriginOf[s] = OriginOf[r], pc[s] \in Handshaking,
                        OriginOf[r] \notin accepted
                 PROVE  FALSE
      OBVIOUS
    <3>1. turn[OriginOf[r]] = r /\ turn[OriginOf[r]] = s BY <1>2 DEF Begins, TurnsInv, Past
    <3> QED BY <3>1, <1>2 DEF Begins
  <2>3. \A s \in Requests : pc'[s] = (IF s = r THEN "opening" ELSE pc[s])
                            /\ attempt'[s] = (IF s = r THEN 1 ELSE attempt[s])
    BY <1>1, <1>2 DEF Begins
  <2>4. Trying' = Trying \cup {r} BY <2>3 DEF Trying
  <2>5. Tried' = Tried BY <2>1, <2>3 DEF Tried
  <2>6. r \notin Trying \cup Tried BY <1>2, <2>1 DEF Trying, Tried, Begins
  <2>7. Gate!Alone(r) \/ OriginOf[r] \in accepted BY <2>2 DEF Gate!Alone
  <2>8. Gate!Begin(r) BY <1>2, <2>1, <2>4, <2>5, <2>6, <2>7 DEF Gate!Begin, Begins, Trying, Tried
  <2> QED BY <2>8 DEF Gate!Next
<1>3. CASE Ends(r)
  <2>1. \A s \in Requests : pc'[s] = (IF s = r THEN "handback" ELSE pc[s]) /\ attempt'[s] = attempt[s]
    BY <1>1, <1>3 DEF Ends
  <2>2. attempt[r] > 0 /\ r \in Trying BY <1>3 DEF AttemptInv, Ends, Trying
  <2>3. Trying' = Trying \ {r} BY <2>1 DEF Trying
  <2>4. Tried' = Tried \cup {r} BY <2>1, <2>2 DEF Tried
  <2>5. Gate!End(r) BY <1>3, <2>2, <2>3, <2>4 DEF Gate!End, Ends, Trying, Tried
  <2> QED BY <2>5 DEF Gate!Next
<1>4. CASE Continues(r)
  <2>1. \A s \in Requests : pc'[s] \in Handshaking <=> pc[s] \in Handshaking BY <1>1, <1>4 DEF Continues
  <2>2. \A s \in Requests : pc[s] \notin Handshaking => attempt'[s] = attempt[s]
    BY <1>1, <1>4 DEF Continues
  <2>3. Trying' = Trying BY <2>1 DEF Trying
  <2>4. Tried' = Tried BY <2>1, <2>2 DEF Tried
  <2>5. UNCHANGED accepted BY <1>4 DEF Continues
  <2>6. CASE UNCHANGED spared BY <2>3, <2>4, <2>5, <2>6 DEF Trying, Tried
  <2>7. CASE RecordRefusal(r)
    <3> DEFINE shared == {s \in Requests : pc[s] = "waiting" /\ OriginOf[s] = OriginOf[r]}
    <3>1. spared' = spared \cup shared BY <2>7 DEF RecordRefusal
    <3>2. shared \cap (Trying \cup Tried) = {} BY DEF Trying, Tried, SpareInv, Early
    <3>3. Gate!Spare(shared) BY <2>3, <2>4, <2>5, <3>1, <3>2 DEF Gate!Spare, Trying, Tried
    <3> QED BY <3>3 DEF Gate!Next
  <2> QED BY <1>2, <1>3, <2>6, <2>7, EveryStep DEF Begins, Ends
<1> QED BY <1>2, <1>3, <1>4, EveryStep

\* Where every server challenges, the pool keeps the promise of LogonGate: one handshake to an
\* origin at a time until one is accepted, one to a request, and none for a request spared.
THEOREM RefinesGate == ASSUME ~Unchallenged PROVE Spec => KeepsTheGate
<1>1. Init => Gate!Init BY DEF Init, Gate!Init, Handshaking
<1>2. ASSUME Typed, TurnsInv, SpareInv, AttemptInv, [Next]_vars PROVE [Gate!Next]_(Gate!gateVars)
  <2>1. ASSUME NEW r \in Requests, Advance(r) \/ Interrupt(r) PROVE [Gate!Next]_(Gate!gateVars)
    BY <1>2, <2>1, GateStep
  <2>2. CASE UNCHANGED <<pc, attempt, accepted, spared>> BY <2>2 DEF Gate!gateVars
  <2> QED BY <1>2, <2>1, <2>2 DEF Next, Lapse, ChangePassword, Finished, vars
<1> QED
  BY <1>1, <1>2, TypeCorrect, TurnsInvariant, SpareInvariant, AttemptInvariant, PTL
  DEF Spec, Typed, KeepsTheGate, Gate!Spec

-----------------------------------------------------------------------------
(* Refusals earned. *)

\* Before the gate lets a request by.
Before == {"new", "permitted", "leased", "reusing", "gate", "counting", "waiting", "granted", "confirm"}

\* What a request owes its outcome to: nothing is settled before it is answered; one that holds its
\* turn to the end and is refused has tried; one that has not tried was refused by the count.
Earned(r) ==
    /\ pc[r] \in Early \cup Handshaking => outcome[r] = "none"
    /\ pc[r] \in Before => ~gated[r]
    /\ pc[r] \in {"settle", "record"} => gated[r]
    /\ pc[r] = "record" => outcome[r] = "refused"
    /\ gated[r] /\ outcome[r] = "refused" => attempt[r] > 0
    /\ outcome[r] = "refused" /\ attempt[r] = 0 => count[OriginOf[r]] > 0

\* A count that has moved was moved by a refusal that some request still shows.
Witnessed(o) ==
    \E s \in Requests : OriginOf[s] = o /\ outcome[s] = "refused" /\ attempt[s] > 0

EarnedInv ==
    /\ \A r \in Requests : Earned(r)
    /\ \A o \in Origins : count[o] > 0 => Witnessed(o)

\* A step of r alone: no other request's place, outcome, turn or attempt moves, and r's refusal stays.
Alone(r) ==
    /\ \A s \in Requests \ {r} :
          pc'[s] = pc[s] /\ outcome'[s] = outcome[s] /\ gated'[s] = gated[s] /\ attempt'[s] = attempt[s]
    /\ outcome[r] = "refused" => outcome'[r] = "refused" /\ attempt'[r] = attempt[r]
    /\ UNCHANGED count

LEMMA EarnedHere ==
    ASSUME EarnedInv, NEW r \in Requests, Alone(r), Earned(r)'
    PROVE  EarnedInv'
<1>1. \A s \in Requests : Earned(s)' BY DEF EarnedInv, Earned, Alone
<1>2. ASSUME NEW o \in Origins, count'[o] > 0 PROVE Witnessed(o)'
  <2>1. PICK s \in Requests : OriginOf[s] = o /\ outcome[s] = "refused" /\ attempt[s] > 0
    BY <1>2 DEF EarnedInv, Witnessed, Alone
  <2>2. outcome'[s] = "refused" /\ attempt'[s] > 0 BY <2>1 DEF Alone
  <2> QED BY <2>1, <2>2 DEF Witnessed
<1> QED BY <1>1, <1>2 DEF EarnedInv

LEMMA EarnedStep ==
    ASSUME Typed, AttemptInv, SpareInv, EarnedInv, NEW r \in Requests, Advance(r) \/ Interrupt(r)
    PROVE  EarnedInv'
<1>1. Earned(r) BY DEF EarnedInv
<1>2. OriginOf[r] \in Origins BY RequestsAssumption
<1>3. count[OriginOf[r]] \in Nat /\ attempt[r] \in Nat /\ seen[r] \in Nat
  BY <1>2, BoundsAssumption DEF Typed, TypeOK
<1>4. pc[r] \in Handshaking => attempt[r] > 0 BY DEF AttemptInv
<1>5. pc[r] = "granted" => seen[r] <= count[OriginOf[r]] BY DEF SpareInv
<1>6. /\ pc \in [Requests -> PcValues] /\ outcome \in [Requests -> {"none", "answered", "failed", "refused"}]
      /\ gated \in [Requests -> BOOLEAN] /\ attempt \in [Requests -> 0..MaxAttempts]
  BY DEF Typed, TypeOK
<1>7. CASE Acquire(r)
  <2>1. Alone(r) BY <1>1, <1>6, <1>7 DEF Acquire, Alone, Earned, Goto, Early, Handshaking
  <2>2. Earned(r)' BY <1>1, <1>6, <1>7 DEF Acquire, Earned, Goto, Before, Early, Handshaking
  <2> QED BY <2>1, <2>2, EarnedHere
<1>8. CASE TakeLane(r)
  <2>1. Alone(r) BY <1>1, <1>6, <1>8 DEF TakeLane, Alone, Earned, Goto, Early, Handshaking
  <2>2. Earned(r)' BY <1>1, <1>6, <1>8 DEF TakeLane, Earned, Goto, Before, Early, Handshaking
  <2> QED BY <2>1, <2>2, EarnedHere
<1>9. CASE BuildFails(r)
  <2>1. Alone(r) BY <1>1, <1>6, <1>9 DEF BuildFails, Alone, Earned, Goto, Early, Handshaking
  <2>2. Earned(r)' BY <1>1, <1>6, <1>9 DEF BuildFails, Earned, Goto, Before, Early, Handshaking
  <2> QED BY <2>1, <2>2, EarnedHere
<1>10. CASE AbandonQueue(r)
  <2>1. Alone(r) BY <1>1, <1>6, <1>10 DEF AbandonQueue, Alone, Earned, Goto, Early, Handshaking
  <2>2. Earned(r)' BY <1>1, <1>6, <1>10 DEF AbandonQueue, Earned, Goto, Before, Early, Handshaking
  <2> QED BY <2>1, <2>2, EarnedHere
<1>11. CASE Reuse(r)
  <2>1. Alone(r) BY <1>1, <1>6, <1>11 DEF Reuse, Alone, Earned, Goto, Early, Handshaking
  <2>2. Earned(r)' BY <1>1, <1>6, <1>11 DEF Reuse, Earned, Goto, Before, Early, Handshaking
  <2> QED BY <2>1, <2>2, EarnedHere
<1>12. CASE ReuseDoubted(r)
  <2>1. Alone(r) BY <1>1, <1>6, <1>12 DEF ReuseDoubted, Alone, Earned, Goto, Early, Handshaking
  <2>2. Earned(r)' BY <1>1, <1>6, <1>12 DEF ReuseDoubted, Earned, Goto, Before, Early, Handshaking
  <2> QED BY <2>1, <2>2, EarnedHere
<1>13. CASE ReuseServed(r)
  <2>1. Alone(r) BY <1>1, <1>6, <1>13 DEF ReuseServed, Conclude, Alone, Earned, Goto, Early, Handshaking
  <2>2. Earned(r)' BY <1>1, <1>6, <1>3, <1>4, <1>13 DEF ReuseServed, Conclude, Earned, Goto, Before, Early, Handshaking
  <2> QED BY <2>1, <2>2, EarnedHere
<1>14. CASE LoadProven(r)
  <2>1. Alone(r) BY <1>1, <1>6, <1>14 DEF LoadProven, Alone, Earned, Goto, Early, Handshaking
  <2>2. Earned(r)' BY <1>1, <1>6, <1>14 DEF LoadProven, Earned, Goto, Before, Early, Handshaking
  <2> QED BY <2>1, <2>2, EarnedHere
<1>15. CASE ReadCount(r)
  <2>1. Alone(r) BY <1>1, <1>6, <1>15 DEF ReadCount, Alone, Earned, Goto, Early, Handshaking
  <2>2. Earned(r)' BY <1>1, <1>6, <1>15 DEF ReadCount, Earned, Goto, Before, Early, Handshaking
  <2> QED BY <2>1, <2>2, EarnedHere
<1>16. CASE LockTurn(r)
  <2>1. Alone(r) BY <1>1, <1>6, <1>16 DEF LockTurn, Alone, Earned, Goto, Early, Handshaking
  <2>2. Earned(r)' BY <1>1, <1>6, <1>16 DEF LockTurn, Earned, Goto, Before, Early, Handshaking
  <2> QED BY <2>1, <2>2, EarnedHere
<1>17. CASE CheckRefusals(r)
  <2>1. Alone(r) BY <1>1, <1>6, <1>17 DEF CheckRefusals, Alone, Earned, Goto, Early, Handshaking
  <2>2. Earned(r)' BY <1>1, <1>6, <1>3, <1>5, <1>17 DEF CheckRefusals, Earned, Goto, Before, Early, Handshaking
  <2> QED BY <2>1, <2>2, EarnedHere
<1>18. CASE ConfirmTurn(r)
  <2>1. Alone(r) BY <1>1, <1>6, <1>18 DEF ConfirmTurn, Alone, Earned, Goto, Early, Handshaking
  <2>2. Earned(r)' BY <1>1, <1>6, <1>18 DEF ConfirmTurn, Earned, Goto, Before, Early, Handshaking
  <2> QED BY <2>1, <2>2, EarnedHere
<1>19. CASE TradeForWarm(r)
  <2>1. Alone(r) BY <1>1, <1>6, <1>19 DEF TradeForWarm, Alone, Earned, Goto, Early, Handshaking
  <2>2. Earned(r)' BY <1>1, <1>6, <1>19 DEF TradeForWarm, Earned, Goto, Before, Early, Handshaking
  <2> QED BY <2>1, <2>2, EarnedHere
<1>20. CASE Open(r)
  <2>1. Alone(r) BY <1>1, <1>6, <1>20 DEF Open, Conclude, Alone, Earned, Goto, Early, Handshaking
  <2>2. attempt'[r] > 0 /\ attempt'[r] # 0 BY <1>3, <1>4, <1>6, <1>20 DEF Open, Conclude, Goto, Handshaking
  <2>3. /\ pc'[r] = "handback" \/ (pc'[r] \in Handshaking /\ outcome'[r] = outcome[r])
        /\ pc[r] \in Handshaking
    BY <1>6, <1>20 DEF Open, Conclude, Goto, Handshaking
  <2>4. Earned(r)' BY <1>1, <2>2, <2>3 DEF Earned, Before, Early, Handshaking
  <2> QED BY <2>1, <2>4, EarnedHere
<1>21. CASE SendPlain(r)
  <2>1. Alone(r) BY <1>1, <1>6, <1>21 DEF SendPlain, Conclude, Alone, Earned, Goto, Early, Handshaking
  <2>2. attempt'[r] > 0 /\ attempt'[r] # 0 BY <1>3, <1>4, <1>6, <1>21 DEF SendPlain, Conclude, Goto, Handshaking
  <2>3. /\ pc'[r] = "handback" \/ (pc'[r] \in Handshaking /\ outcome'[r] = outcome[r])
        /\ pc[r] \in Handshaking
    BY <1>6, <1>21 DEF SendPlain, Conclude, Goto, Handshaking
  <2>4. Earned(r)' BY <1>1, <2>2, <2>3 DEF Earned, Before, Early, Handshaking
  <2> QED BY <2>1, <2>4, EarnedHere
<1>22. CASE Accept(r)
  <2>1. Alone(r) BY <1>1, <1>6, <1>22 DEF Accept, Conclude, Alone, Earned, Goto, Early, Handshaking
  <2>2. attempt'[r] > 0 /\ attempt'[r] # 0 BY <1>3, <1>4, <1>6, <1>22 DEF Accept, Conclude, Goto, Handshaking
  <2>3. /\ pc'[r] = "handback" \/ (pc'[r] \in Handshaking /\ outcome'[r] = outcome[r])
        /\ pc[r] \in Handshaking
    BY <1>6, <1>22 DEF Accept, Conclude, Goto, Handshaking
  <2>4. Earned(r)' BY <1>1, <2>2, <2>3 DEF Earned, Before, Early, Handshaking
  <2> QED BY <2>1, <2>4, EarnedHere
<1>23. CASE Refuse(r)
  <2>1. Alone(r) BY <1>1, <1>6, <1>23 DEF Refuse, Conclude, Alone, Earned, Goto, Early, Handshaking
  <2>2. attempt'[r] > 0 /\ attempt'[r] # 0 BY <1>3, <1>4, <1>6, <1>23 DEF Refuse, Conclude, Goto, Handshaking
  <2>3. /\ pc'[r] = "handback" \/ (pc'[r] \in Handshaking /\ outcome'[r] = outcome[r])
        /\ pc[r] \in Handshaking
    BY <1>6, <1>23 DEF Refuse, Conclude, Goto, Handshaking
  <2>4. Earned(r)' BY <1>1, <2>2, <2>3 DEF Earned, Before, Early, Handshaking
  <2> QED BY <2>1, <2>4, EarnedHere
<1>24. CASE Moved(r)
  <2>1. Alone(r) BY <1>1, <1>6, <1>24 DEF Moved, Conclude, Alone, Earned, Goto, Early, Handshaking
  <2>2. attempt'[r] = attempt[r] \/ attempt'[r] = attempt[r] + 1 BY <1>6, <1>24 DEF Moved
  <2>3. attempt'[r] > 0 /\ attempt'[r] # 0 BY <2>2, <1>3, <1>4, <1>24 DEF Moved, Handshaking
  <2>4. /\ pc'[r] = "handback" \/ (pc'[r] \in Handshaking /\ outcome'[r] = outcome[r])
        /\ pc[r] \in Handshaking
    BY <1>6, <1>24 DEF Moved, Conclude, Goto, Handshaking
  <2>5. Earned(r)' BY <1>1, <2>3, <2>4 DEF Earned, Before, Early, Handshaking
  <2> QED BY <2>1, <2>5, EarnedHere
<1>25. CASE HandshakeFails(r)
  <2>1. Alone(r) BY <1>1, <1>6, <1>25 DEF HandshakeFails, Conclude, Alone, Earned, Goto, Early, Handshaking
  <2>2. Earned(r)' BY <1>1, <1>6, <1>3, <1>4, <1>25 DEF HandshakeFails, Conclude, Earned, Goto, Before, Early, Handshaking
  <2> QED BY <2>1, <2>2, EarnedHere
<1>26. CASE ReturnLane(r)
  <2>1. Alone(r) BY <1>1, <1>6, <1>26 DEF ReturnLane, Alone, Earned, Goto, Early, Handshaking
  <2>2. Earned(r)' BY <1>1, <1>6, <1>26 DEF ReturnLane, Earned, Goto, Before, Early, Handshaking
  <2> QED BY <2>1, <2>2, EarnedHere
<1>27. CASE ReleasePermit(r)
  <2>1. Alone(r) BY <1>1, <1>6, <1>27 DEF ReleasePermit, Alone, Earned, Goto, Early, Handshaking
  <2>2. Earned(r)' BY <1>1, <1>6, <1>27 DEF ReleasePermit, Earned, Goto, Before, Early, Handshaking
  <2> QED BY <2>1, <2>2, EarnedHere
<1>28. CASE Settle(r)
  <2>1. Alone(r) BY <1>1, <1>6, <1>28 DEF Settle, Alone, Earned, Goto, Early, Handshaking
  <2>2. Earned(r)' BY <1>1, <1>6, <1>28 DEF Settle, Earned, Goto, Before, Early, Handshaking
  <2> QED BY <2>1, <2>2, EarnedHere
<1>29. CASE GiveUpTurn(r)
  <2>1. Alone(r) BY <1>1, <1>6, <1>29 DEF GiveUpTurn, Alone, Earned, Goto, Early, Handshaking
  <2>2. Earned(r)' BY <1>1, <1>6, <1>29 DEF GiveUpTurn, Earned, Goto, Before, Early, Handshaking
  <2> QED BY <2>1, <2>2, EarnedHere
<1>30. CASE Abandon(r)
  <2>1. Alone(r) BY <1>1, <1>6, <1>30 DEF Abandon, InFlight, Alone, Earned, Goto, Early, Handshaking
  <2>2. Earned(r)' BY <1>1, <1>6, <1>30 DEF Abandon, InFlight, Earned, Goto, Before, Early, Handshaking
  <2> QED BY <2>1, <2>2, EarnedHere
<1>31. CASE RecordRefusal(r)
  <2>1. outcome[r] = "refused" /\ attempt[r] > 0 BY <1>1, <1>31 DEF RecordRefusal, Earned
  <2>2. \A s \in Requests : pc'[s] = IF s = r THEN "free" ELSE pc[s] BY <1>6, <1>31 DEF RecordRefusal, Goto
  <2>3. UNCHANGED <<outcome, gated, attempt>> BY <1>31 DEF RecordRefusal
  <2>4. \A o \in Origins : count[o] \in Nat /\ count'[o] = IF o = OriginOf[r] THEN count[o] + 1 ELSE count[o]
    BY <1>2, <1>31 DEF RecordRefusal, Typed, TypeOK
  <2>5. \A s \in Requests : OriginOf[s] \in Origins BY RequestsAssumption
  <2>6. ASSUME NEW s \in Requests PROVE Earned(s)'
    <3>1. Earned(s) BY DEF EarnedInv
    <3>2. count[OriginOf[s]] > 0 => count'[OriginOf[s]] > 0 BY <2>4, <2>5
    <3>3. pc'[s] = pc[s] \/ pc'[s] = "free" BY <2>2
    <3> QED BY <2>3, <3>1, <3>2, <3>3 DEF Earned, Before, Early, Handshaking
  <2>7. ASSUME NEW o \in Origins, count'[o] > 0 PROVE Witnessed(o)'
    <3>1. CASE o = OriginOf[r] BY <2>1, <2>3, <3>1 DEF Witnessed
    <3>2. CASE o # OriginOf[r]
      <4>1. Witnessed(o) BY <2>4, <2>7, <3>2 DEF EarnedInv
      <4> QED BY <2>3, <4>1 DEF Witnessed
    <3> QED BY <3>1, <3>2
  <2> QED BY <2>6, <2>7 DEF EarnedInv
<1> QED BY <1>7, <1>8, <1>9, <1>10, <1>11, <1>12, <1>13, <1>14, <1>15, <1>16, <1>17, <1>18, <1>19, <1>20, <1>21, <1>22, <1>23, <1>24, <1>25, <1>26, <1>27, <1>28, <1>29, <1>30, <1>31 DEF Advance, Interrupt

\* Each counted refusal was a request's own, of that origin.
THEOREM EarnedInvariant == Spec => []EarnedInv
<1>1. Init => EarnedInv
  <2> SUFFICES ASSUME Init PROVE EarnedInv OBVIOUS
  <2>1. \A r \in Requests : Earned(r) BY RequestsAssumption DEF Init, Earned, Handshaking, Early
  <2>2. \A o \in Origins : ~(count[o] > 0) BY DEF Init
  <2> QED BY <2>1, <2>2 DEF EarnedInv
<1>2. ASSUME Typed, AttemptInv, SpareInv, EarnedInv, [Next]_vars PROVE EarnedInv'
  <2>1. ASSUME UNCHANGED <<pc, outcome, gated, attempt, count>> PROVE EarnedInv'
    BY <1>2, <2>1 DEF EarnedInv, Earned, Witnessed
  <2>2. CASE \E r \in Requests : Advance(r) \/ Interrupt(r) BY <1>2, <2>2, EarnedStep
  <2>3. CASE \E l \in Lanes, o \in Origins : Lapse(l, o) BY <2>1, <2>3 DEF Lapse, requestVars, poolVars
  <2>4. CASE \E o \in Origins : ChangePassword(o) BY <2>1, <2>4 DEF ChangePassword, requestVars, poolVars
  <2>5. CASE Finished BY <2>1, <2>5 DEF Finished, vars, requestVars, poolVars
  <2>6. CASE UNCHANGED vars BY <2>1, <2>6 DEF vars, requestVars, poolVars
  <2> QED BY <1>2, <2>2, <2>3, <2>4, <2>5, <2>6 DEF Next
<1> QED BY <1>1, <1>2, TypeCorrect, AttemptInvariant, SpareInvariant, PTL DEF Spec, Typed

\* A request refused without a handshake of its own was refused for another's, to the same server,
\* however many servers share the pool.
THEOREM RefusalsEarned == Spec => []RefusalsAreEarned
<1>1. ASSUME EarnedInv PROVE RefusalsAreEarned
  <2> SUFFICES ASSUME NEW r \in Requests, outcome[r] = "refused", attempt[r] = 0
               PROVE  Witnessed(OriginOf[r])
    BY DEF RefusalsAreEarned, Witnessed
  <2>1. OriginOf[r] \in Origins BY RequestsAssumption
  <2>2. count[OriginOf[r]] > 0 BY <1>1 DEF EarnedInv, Earned
  <2> QED BY <1>1, <2>1, <2>2 DEF EarnedInv
<1> QED BY <1>1, EarnedInvariant, PTL

=============================================================================
