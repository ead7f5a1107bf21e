------------------------ MODULE SessionContextProofs ------------------------
(***************************************************************************)
(* One request at a time on a Session Context, the sequence cookie, and    *)
(* the columns rows are decoded with, for any handles, columns, slots and  *)
(* number of calls; the last for any batches that are well built.          *)
(***************************************************************************)
EXTENDS SessionContext, TLAPS, SequenceTheorems

USE DEF connectionVars, sessionVars, serverVars, historyVars

\* What the server works on, or has answered, is the request the session awaits a response to, whether
\* or not anybody waits for it still.
FlightInv ==
    /\ run # Idle => pending # Idle
    /\ reply # Idle => run = Idle
    /\ phase = "new" => pending = Idle
    /\ ~overlap

\* Nothing goes out while something is in flight.
LEMMA SendAlone ==
    ASSUME FlightInv, pending = Idle, NEW request, Send(request)
    PROVE  overlap' = FALSE /\ reply' = Idle
BY DEF FlightInv, Send

\* A batch that goes out is pending from then on.
LEMMA BatchSteps ==
    ASSUME FlightInv, pending = Idle, NEW batch, NEW before, SendBatch(batch, before)
    PROVE  pending' # Idle /\ overlap' = FALSE /\ reply' = Idle
<1>1. pending'.kind = "execute" BY DEF SendBatch
<1>2. overlap' = FALSE /\ reply' = Idle BY SendAlone DEF SendBatch
<1> QED BY <1>1, <1>2 DEF Idle

\* The caller's side: what it sends is pending, and nothing else was.
LEMMA CallSteps ==
    ASSUME FlightInv, BeginConnect \/ BeginLogon \/ BeginDisconnect \/ \E batch \in Batches : Execute(batch)
    PROVE  FlightInv'
<1>1. pending = Idle
  BY DEF FlightInv, BeginConnect, BeginLogon, BeginDisconnect, Execute, CheckIdle
<1>2. pending' # Idle /\ overlap' = FALSE /\ reply' = Idle
  <2>1. CASE BeginConnect
    <3>1. pending'.kind = "connect" BY <2>1 DEF BeginConnect
    <3> QED BY <1>1, <2>1, <3>1, SendAlone DEF BeginConnect, Idle
  <2>2. CASE BeginDisconnect
    <3>1. pending'.kind = "disconnect" BY <2>2 DEF BeginDisconnect
    <3> QED BY <1>1, <2>2, <3>1, SendAlone DEF BeginDisconnect, Idle
  <2>3. CASE BeginLogon BY <1>1, <2>3, BatchSteps DEF BeginLogon
  <2>4. ASSUME NEW batch \in Batches, Execute(batch)
        PROVE  pending' # Idle /\ overlap' = FALSE /\ reply' = Idle
    <3>1. PICK bind \in [batch.bound -> held] :
            SendBatch(batch, [s \in Slots |-> IF s \in batch.bound THEN bind[s] ELSE None])
      BY <2>4 DEF Execute
    <3> QED BY <1>1, <3>1, BatchSteps
  <2> QED BY <2>1, <2>2, <2>3, <2>4
<1>3. phase' # "new"
  BY DEF BeginConnect, BeginLogon, BeginDisconnect, Execute
<1> QED BY <1>2, <1>3 DEF FlightInv

\* The server's side: it answers what it worked on, and begins nothing.
LEMMA ServerSteps ==
    ASSUME FlightInv, \/ TurnAway \/ ServerConnect \/ ServerDisconnect \/ RunRop \/ RunOut
                      \/ AnswerBatch \/ Expire
    PROVE  FlightInv'
<1>1. UNCHANGED <<pending, phase, overlap>>
  BY DEF TurnAway, ServerConnect, ServerDisconnect, RunRop, RunOut, AnswerBatch, Expire
<1>2. CASE TurnAway \/ ServerConnect \/ ServerDisconnect \/ AnswerBatch
  <2>1. run' = Idle BY <1>2 DEF TurnAway, ServerConnect, ServerDisconnect, AnswerBatch, Answer
  <2> QED BY <1>1, <2>1 DEF FlightInv
<1>3. CASE RunRop \/ RunOut
  <2>1. run.kind = "execute" /\ UNCHANGED reply BY <1>3 DEF RunRop, RunOut
  <2>2. run # Idle BY <2>1 DEF Idle
  <2> QED BY <1>1, <2>1, <2>2 DEF FlightInv
<1>4. CASE Expire BY <1>1, <1>4 DEF Expire, FlightInv
<1> QED BY <1>2, <1>3, <1>4

\* A reply that comes ends the request's flight on both sides.
LEMMA ResponseSteps ==
    ASSUME FlightInv, OnConnect \/ OnExecuteUnreadable \/ OnExecute \/ OnDisconnect
    PROVE  FlightInv'
<1>1. Receive /\ UNCHANGED <<run, overlap>>
  BY DEF OnConnect, OnExecuteUnreadable, OnExecute, OnDisconnect
<1>2. run' = Idle /\ reply' = Idle /\ pending' = Idle BY <1>1 DEF Receive, FlightInv
<1> QED BY <1>1, <1>2 DEF FlightInv

\* A reply that does not come leaves the request pending for good.
LEMMA LossSteps ==
    ASSUME FlightInv, TransportFails \/ Cancel \/ DropConnection \/ UNCHANGED vars
    PROVE  FlightInv'
<1>1. CASE TransportFails BY <1>1 DEF TransportFails, FlightInv
<1>2. CASE Cancel BY <1>2 DEF Cancel, FlightInv
<1>3. CASE DropConnection BY <1>3 DEF DropConnection, FlightInv
<1>4. CASE UNCHANGED vars BY <1>4 DEF vars, FlightInv
<1> QED BY <1>1, <1>2, <1>3, <1>4

\* What the server works on or has answered is what the session awaits.
THEOREM FlightInvariant == Spec => []FlightInv
<1>1. Init => FlightInv BY DEF Init, FlightInv
<1>2. FlightInv /\ [Next]_vars => FlightInv'
  BY CallSteps, ServerSteps, ResponseSteps, LossSteps DEF Next, Gone
<1> QED BY <1>1, <1>2, PTL DEF Spec

\* The server never has two requests of one context at once, whatever replies are lost, refused or
\* unreadable, and whatever calls are dropped at their await.
THEOREM RequestsAlone == Spec => []OneAtATime
<1>1. FlightInv => OneAtATime BY DEF FlightInv, OneAtATime
<1> QED BY <1>1, FlightInvariant, PTL
-----------------------------------------------------------------------------
(* The sequence cookie. *)

\* Until the server answers, the jar holds the cookie it last set; from then on the answer does.
CookieInv ==
    /\ sequence \in Nat
    /\ run # Idle => cookie = sequence
    /\ (phase # "gone" /\ pending = Idle) => cookie = sequence
    /\ reply # Idle => IF reply.cookie = None THEN cookie = sequence ELSE reply.cookie = sequence

LEMMA CookieCalls ==
    ASSUME FlightInv, CookieInv,
           BeginConnect \/ BeginLogon \/ BeginDisconnect \/ \E batch \in Batches : Execute(batch)
    PROVE  CookieInv'
<1>1. pending = Idle /\ phase # "gone"
  BY DEF FlightInv, BeginConnect, BeginLogon, BeginDisconnect, Execute, CheckIdle
<1>2. reply' = Idle /\ UNCHANGED <<cookie, sequence>>
  BY <1>1, SendAlone DEF BeginConnect, BeginLogon, BeginDisconnect, Execute, SendBatch
<1> QED BY <1>1, <1>2 DEF CookieInv

\* The server's answer carries the cookie it now goes by, and a request turned away changes none.
LEMMA CookieServer ==
    ASSUME CookieInv, \/ TurnAway \/ ServerConnect \/ ServerDisconnect \/ RunRop \/ RunOut
                      \/ AnswerBatch \/ Expire,
           FlightInv
    PROVE  CookieInv'
<1>1. UNCHANGED <<pending, phase, cookie>>
  BY DEF TurnAway, ServerConnect, ServerDisconnect, RunRop, RunOut, AnswerBatch, Expire
<1>2. CASE TurnAway
  <2>1. run # Idle /\ run' = Idle /\ reply'.cookie = None /\ UNCHANGED sequence BY <1>2 DEF TurnAway
  <2> QED BY <1>1, <2>1 DEF CookieInv
<1>3. CASE ServerConnect \/ ServerDisconnect \/ AnswerBatch
  <2>1. PICK kinds, contents : Answer(kinds, contents)
    BY <1>3 DEF ServerConnect, ServerDisconnect, AnswerBatch
  <2>2. run' = Idle /\ sequence' = sequence + 1 /\ reply'.cookie = sequence' BY <2>1 DEF Answer
  <2>3. sequence' \in Nat BY <2>2 DEF CookieInv
  <2>4. run # Idle BY <1>3 DEF ServerConnect, ServerDisconnect, AnswerBatch, Idle
  <2>5. pending' # Idle BY <1>1, <2>4 DEF FlightInv
  <2>6. reply'.cookie # None BY <2>2, <2>3, NoneAssumption
  <2> QED BY <2>2, <2>3, <2>5, <2>6 DEF CookieInv
<1>4. CASE RunRop \/ RunOut
  <2>1. run.kind = "execute" /\ UNCHANGED <<reply, sequence>> BY <1>4 DEF RunRop, RunOut
  <2>2. run # Idle BY <2>1 DEF Idle
  <2> QED BY <1>1, <2>1, <2>2 DEF CookieInv
<1>5. CASE Expire BY <1>1, <1>5 DEF Expire, CookieInv
<1> QED BY <1>2, <1>3, <1>4, <1>5

\* An answer's cookie is taken whatever else the answer says.
LEMMA CookieResponses ==
    ASSUME FlightInv, CookieInv, OnConnect \/ OnExecuteUnreadable \/ OnExecute \/ OnDisconnect
    PROVE  CookieInv'
<1>1. Receive /\ UNCHANGED <<run, sequence>>
  BY DEF OnConnect, OnExecuteUnreadable, OnExecute, OnDisconnect
<1>2. reply # Idle /\ run' = Idle /\ reply' = Idle BY <1>1 DEF Receive, FlightInv
<1>3. CASE Absorb
  <2>1. cookie' = sequence BY <1>2, <1>3 DEF Absorb, CookieInv
  <2> QED BY <1>1, <1>2, <2>1 DEF CookieInv
<1>4. CASE ~Absorb
  <2>1. phase' = "gone" BY <1>4 DEF OnConnect, OnExecuteUnreadable, OnExecute, OnDisconnect
  <2> QED BY <1>1, <1>2, <2>1 DEF CookieInv
<1> QED BY <1>3, <1>4

LEMMA CookieLosses ==
    ASSUME FlightInv, CookieInv, TransportFails \/ Cancel \/ DropConnection \/ UNCHANGED vars
    PROVE  CookieInv'
<1>1. CASE TransportFails BY <1>1 DEF TransportFails, CookieInv
<1>2. CASE Cancel BY <1>2 DEF Cancel, CookieInv
<1>3. CASE DropConnection BY <1>3 DEF DropConnection, CookieInv
<1>4. CASE UNCHANGED vars BY <1>4 DEF vars, CookieInv
<1> QED BY <1>1, <1>2, <1>3, <1>4

\* The current cookie is in the jar, or in the answer on its way there.
THEOREM CookieInvariant == Spec => []CookieInv
<1>1. Init => CookieInv BY DEF Init, CookieInv
<1>2. FlightInv /\ CookieInv /\ [Next]_vars => CookieInv'
  BY CookieCalls, CookieServer, CookieResponses, CookieLosses DEF Next, Gone
<1> QED BY <1>1, <1>2, FlightInvariant, PTL DEF Spec

\* Between calls the jar holds the sequence cookie the server last set.
THEOREM CookieInStep == Spec => []InStep
<1>1. CookieInv => InStep BY DEF CookieInv, InStep
<1> QED BY <1>1, CookieInvariant, PTL

-----------------------------------------------------------------------------
(* The columns rows are decoded with.  The argument follows the handles of a batch from the caller
   through the server and back. *)

(* A batch opens what it needs, configures each table it opens at most once, queries, and gives
   handles back last.  What it binds it only queries or releases. *)
WellBuilt(b) ==
    /\ b.rops \in Seq(Rops)
    /\ \A i \in DOMAIN b.rops :
         b.rops[i].op \in {"object", "table", "columns"} => b.rops[i].slot \notin b.bound
    /\ \A i, j \in DOMAIN b.rops :
         /\ (i < j /\ b.rops[i].op = "release") => b.rops[j].op = "release"
         /\ (b.rops[i].op = "columns" /\ b.rops[j].slot = b.rops[i].slot) =>
              b.rops[j].op # "object" /\ (b.rops[j].op = "columns" => i = j)

-----------------------------------------------------------------------------
(* What is so between calls, and how far it is so while a batch runs. *)

Things == {"free", "object", "plain"} \cup Columns
Filled == [Slots -> Handles \cup {None}]

ColumnsTyped ==
    /\ held \subseteq Handles
    /\ known \in [Handles -> Columns \cup {None}]
    /\ object \in [Handles -> Things]

Young == held = {} /\ known = [h \in Handles |-> None]

Apart(slots) == \A s, t \in Slots : (slots[s] # None /\ slots[s] = slots[t]) => s = t

\* The handles the caller has are there, and remembered with the columns they have.
HeldKnown ==
    \A h \in held : object[h] # "free" /\ (object[h] \in Columns => known[h] = object[h])

\* A handle that the request under way is to release.
Leaving(h) == pending.kind = "execute" /\ \E s \in pending.released : h = pending.before[s]

KnownAgree ==
    \A h \in Handles \ lost :
        known[h] # None => object[h] \in {known[h], "plain"} \/ Leaving(h)

PendingTyped ==
    /\ pending.before \in Filled /\ Apart(pending.before)
    /\ pending.released \subseteq Slots
    /\ pending.columns \in [Slots -> Columns \cup {None}]
    /\ \A s \in pending.released : pending.before[s] \notin held

\* A ROP that is still to run does what the session took it to do.
Foreseen(rop) ==
    /\ rop \in Rops
    /\ rop.op \in {"object", "table", "columns"} => pending.before[rop.slot] = None
    /\ rop.op = "columns" => pending.columns[rop.slot] = rop.columns
    /\ rop.op = "object" => pending.columns[rop.slot] = None
    /\ rop.op = "release" => rop.slot \in pending.released

OnlyReleases(rops) == \A i \in 1..Len(rops) : rops[i].op = "release"

AsBuilt(rops) ==
    /\ rops \in Seq(Rops)
    /\ \A i \in 1..Len(rops) : Foreseen(rops[i])
    /\ \A i, j \in 1..Len(rops) : (i < j /\ rops[i].op = "release") => rops[j].op = "release"

\* A slot holds what it was bound to, or an object the caller has not heard of.
OwnHandle(slots, s) ==
    /\ pending.before[s] # None => slots[s] \in {pending.before[s], None}
    /\ (pending.before[s] = None /\ slots[s] # None) =>
         /\ slots[s] \notin held
         /\ \A t \in Slots : slots[s] # pending.before[t]
         /\ known[slots[s]] = None \/ slots[s] \in lost

\* The table in a slot has the columns the session will decode it with, or none.
SlotAgrees(slots, s) ==
    (slots[s] # None /\ object[slots[s]] # "free") =>
        /\ object[slots[s]] \in Columns => object[slots[s]] = pending.columns[s]
        /\ pending.columns[s] # None =>
             object[slots[s]] \in {pending.columns[s], "plain"} \/ slots[s] \in lost

\* Nothing is freed before the releases begin, and then only what is to be released.
StillThere(slots, rops, s) ==
    /\ (slots[s] # None /\ s \notin pending.released) => object[slots[s]] # "free"
    /\ ~OnlyReleases(rops) =>
         /\ slots[s] # None => object[slots[s]] # "free"
         /\ pending.before[s] # None => object[pending.before[s]] # "free"

UnderWay(slots, rops) ==
    \A s \in Slots : OwnHandle(slots, s) /\ SlotAgrees(slots, s) /\ StillThere(slots, rops, s)

Ops == {"object", "table", "columns", "query", "release", "rest"}

Responses ==
    [op : Ops, slot : Slots, ok : BOOLEAN] \cup
    [op : {"query"}, slot : Slots, ok : {TRUE}, columns : Columns]

AsDecoded(response) ==
    (response.op = "query" /\ response.ok) => response.columns = pending.columns[response.slot]

Decodes(out) == out \in Seq(Responses) /\ \A i \in 1..Len(out) : AsDecoded(out[i])

Running ==
    /\ run = [kind |-> "execute", cookie |-> run.cookie, rops |-> run.rops, slots |-> run.slots,
              out |-> run.out]
    /\ AsBuilt(run.rops) /\ Decodes(run.out)
    /\ run.slots \in Filled /\ Apart(run.slots)
    /\ context => UnderWay(run.slots, run.rops)

Answered ==
    /\ Decodes(reply.contents.out)
    /\ reply.contents.after \in Filled /\ Apart(reply.contents.after)
    /\ context => UnderWay(reply.contents.after, <<>>)

RowsInv ==
    /\ ColumnsTyped
    /\ \A row \in rows : row[1] = row[2]
    /\ (phase = "new" \/ pending.kind = "connect") => Young
    /\ run # Idle => run.kind = pending.kind
    /\ pending.kind = "execute" =>
         /\ PendingTyped
         /\ run # Idle => Running
         /\ reply.kind \in {"answered", "unreadable"} => Answered
    /\ (pending.kind = "disconnect" /\ reply.kind = "answered") => ~context
    /\ context => HeldKnown /\ KnownAgree

-----------------------------------------------------------------------------
(* A batch goes out. *)

LEMMA SentColumns ==
    ASSUME NEW batch, WellBuilt(batch), NEW before \in Filled, ColumnsTyped,
           \A s \in Slots : before[s] # None => s \in batch.bound
    PROVE  LET columns == RecallColumns(SetBy(batch), before) IN
           /\ columns \in [Slots -> Columns \cup {None}]
           /\ \A i \in DOMAIN batch.rops :
                batch.rops[i].op = "columns" => columns[batch.rops[i].slot] = batch.rops[i].columns
           /\ \A s \in Slots :
                before[s] # None /\ (\A i \in DOMAIN batch.rops :
                                        batch.rops[i].op = "columns" => batch.rops[i].slot # s)
                => columns[s] = known[before[s]]
           /\ \A s \in Slots :
                before[s] = None /\ (\A i \in DOMAIN batch.rops :
                                        batch.rops[i].op = "columns" => batch.rops[i].slot # s)
                => columns[s] = None
<1> DEFINE at(s) == {i \in DOMAIN batch.rops : batch.rops[i].op = "columns" /\ batch.rops[i].slot = s}
           last(s) == CHOOSE i \in at(s) : \A j \in at(s) : j <= i
           columns == RecallColumns(SetBy(batch), before)
<1>1. DOMAIN batch.rops = 1..Len(batch.rops) /\ Len(batch.rops) \in Nat
      /\ \A i \in DOMAIN batch.rops : batch.rops[i] \in Rops
  BY DEF WellBuilt
<1>2. \A i \in DOMAIN batch.rops : batch.rops[i].slot \in Slots
  BY <1>1 DEF Rops
<1>3. \A i \in DOMAIN batch.rops : batch.rops[i].op = "columns" => batch.rops[i].columns \in Columns
  BY <1>1 DEF Rops
<1>4. \A s \in Slots : SetBy(batch)[s] = IF at(s) = {} THEN None ELSE batch.rops[last(s)].columns
  BY DEF SetBy
<1>5. ASSUME NEW s \in Slots, NEW i \in at(s) PROVE last(s) = i
  <2>1. \A j \in at(s) : j = i BY DEF WellBuilt
  <2>2. i <= i BY <1>1
  <2> QED BY <2>1, <2>2
<1> HIDE DEF last
<1>6. \A i \in DOMAIN batch.rops :
        batch.rops[i].op = "columns" => SetBy(batch)[batch.rops[i].slot] = batch.rops[i].columns
  <2> SUFFICES ASSUME NEW i \in DOMAIN batch.rops, batch.rops[i].op = "columns"
               PROVE  SetBy(batch)[batch.rops[i].slot] = batch.rops[i].columns
    OBVIOUS
  <2>1. i \in at(batch.rops[i].slot) /\ batch.rops[i].slot \in Slots BY <1>2
  <2>2. last(batch.rops[i].slot) = i BY <1>5, <2>1
  <2> QED BY <1>4, <2>1, <2>2
<1>7. \A s \in Slots : at(s) = {} => SetBy(batch)[s] = None BY <1>4
<1>8. \A s \in Slots : SetBy(batch)[s] \in Columns \cup {None}
  <2> SUFFICES ASSUME NEW s \in Slots, NEW i \in at(s) PROVE SetBy(batch)[s] \in Columns BY <1>7
  <2> QED BY <1>3, <1>6
<1> HIDE DEF at
<1>9. \A s \in Slots : columns[s] =
        IF SetBy(batch)[s] = None /\ before[s] # None THEN known[before[s]] ELSE SetBy(batch)[s]
  BY DEF RecallColumns
<1>10. columns \in [Slots -> Columns \cup {None}]
  <2>1. \A s \in Slots : columns[s] \in Columns \cup {None}
    BY <1>8, <1>9 DEF Filled, ColumnsTyped
  <2>2. columns = [s \in Slots |-> columns[s]] BY DEF RecallColumns
  <2> QED BY <2>1, <2>2
<1>11. \A i \in DOMAIN batch.rops :
        batch.rops[i].op = "columns" => columns[batch.rops[i].slot] = batch.rops[i].columns
  BY <1>2, <1>3, <1>6, <1>9, NoneAssumption
<1>12. ASSUME NEW s \in Slots, \A i \in DOMAIN batch.rops :
                                 batch.rops[i].op = "columns" => batch.rops[i].slot # s
       PROVE  columns[s] = IF before[s] # None THEN known[before[s]] ELSE None
  <2>1. SetBy(batch)[s] = None BY <1>7, <1>12 DEF at
  <2> QED BY <1>9, <2>1
<1> HIDE DEF columns
<1> QED BY <1>10, <1>11, <1>12 DEF columns

\* What the session takes a well built batch to do, it does; and each slot it binds has the columns
\* the server has for the handle.
LEMMA BatchSent ==
    ASSUME RowsInv, FlightInv, pending = Idle,
           NEW batch, WellBuilt(batch), NEW before \in Filled, Apart(before),
           \A s \in Slots : before[s] # None => s \in batch.bound /\ before[s] \in held,
           \A s \in batch.bound : before[s] # None,
           SendBatch(batch, before),
           held' = held \ {before[s] : s \in Released(batch)},
           UNCHANGED <<known, object, context, rows, lost>>,
           phase' # "new"
    PROVE  RowsInv'
<1> DEFINE columns == RecallColumns(SetBy(batch), before)
<1>1. /\ pending'.kind = "execute" /\ pending'.before = before
      /\ pending'.released = Released(batch) /\ pending'.columns = columns
      /\ run' = [kind |-> "execute", cookie |-> cookie, rops |-> batch.rops, slots |-> before,
                 out |-> <<>>]
      /\ reply' = Idle
  BY DEF SendBatch, Send
<1>2. /\ columns \in [Slots -> Columns \cup {None}]
      /\ \A i \in DOMAIN batch.rops :
           batch.rops[i].op = "columns" => columns[batch.rops[i].slot] = batch.rops[i].columns
      /\ \A s \in Slots :
           before[s] # None /\ (\A i \in DOMAIN batch.rops :
                                   batch.rops[i].op = "columns" => batch.rops[i].slot # s)
           => columns[s] = known[before[s]]
      /\ \A s \in Slots :
           before[s] = None /\ (\A i \in DOMAIN batch.rops :
                                   batch.rops[i].op = "columns" => batch.rops[i].slot # s)
           => columns[s] = None
  BY SentColumns DEF RowsInv
<1> HIDE DEF columns
<1>3. /\ DOMAIN batch.rops = 1..Len(batch.rops) /\ batch.rops \in Seq(Rops)
      /\ \A i \in 1..Len(batch.rops) : batch.rops[i] \in Rops
  BY DEF WellBuilt
<1>4. \A i \in 1..Len(batch.rops) : batch.rops[i].slot \in Slots BY <1>3 DEF Rops
<1>5. Released(batch) \subseteq Slots BY <1>3, <1>4 DEF Released
<1>6. ColumnsTyped' BY DEF RowsInv, ColumnsTyped
<1>7. PendingTyped' BY <1>1, <1>2, <1>5 DEF PendingTyped, Apart
<1>8. AsBuilt(run.rops)'
  <2>1. ASSUME NEW i \in 1..Len(batch.rops) PROVE Foreseen(batch.rops[i])'
    <3> DEFINE rop == batch.rops[i]
    <3>1. rop \in Rops /\ rop.slot \in Slots BY <1>3, <1>4
    <3>2. rop.op \in {"object", "table", "columns"} => before[rop.slot] = None
      BY <1>3, <3>1 DEF WellBuilt
    <3>3. rop.op = "columns" => columns[rop.slot] = rop.columns BY <1>2, <1>3
    <3>4. rop.op = "object" => columns[rop.slot] = None
      <4> SUFFICES ASSUME rop.op = "object" PROVE columns[rop.slot] = None OBVIOUS
      <4>1. \A j \in DOMAIN batch.rops :
              batch.rops[j].op = "columns" => batch.rops[j].slot # rop.slot
        BY <1>3 DEF WellBuilt
      <4> QED BY <1>2, <3>1, <3>2, <4>1
    <3>5. rop.op = "release" => rop.slot \in Released(batch) BY <1>3 DEF Released
    <3> QED BY <1>1, <3>1, <3>2, <3>3, <3>4, <3>5 DEF Foreseen
  <2>2. \A i, j \in 1..Len(batch.rops) :
          (i < j /\ batch.rops[i].op = "release") => batch.rops[j].op = "release"
    BY <1>3 DEF WellBuilt
  <2>3. run'.rops = batch.rops BY <1>1
  <2> QED BY <1>3, <2>1, <2>2, <2>3 DEF AsBuilt
<1>9. Decodes(run.out)' BY <1>1 DEF Decodes
<1>10. ASSUME context PROVE UnderWay(run.slots, run.rops)' /\ HeldKnown' /\ KnownAgree'
  <2>1. HeldKnown /\ KnownAgree BY <1>10 DEF RowsInv
  <2>2. pending.kind # "execute" BY DEF Idle
  <2>3. ASSUME NEW s \in Slots, before[s] # None
        PROVE  /\ columns[s] = known[before[s]] /\ before[s] \in held /\ before[s] \in Handles
               /\ object[before[s]] # "free"
               /\ object[before[s]] \in Columns => object[before[s]] = columns[s]
               /\ columns[s] # None =>
                    object[before[s]] \in {columns[s], "plain"} \/ before[s] \in lost
    <3>1. before[s] \in held /\ before[s] \in Handles /\ s \in batch.bound
      BY <2>3 DEF RowsInv, ColumnsTyped
    <3>2. columns[s] = known[before[s]] BY <1>2, <1>3, <2>3, <3>1 DEF WellBuilt
    <3> QED BY <2>1, <2>2, <3>1, <3>2 DEF HeldKnown, KnownAgree, Leaving
  <2>4. run'.slots = before /\ run'.rops = batch.rops /\ object' = object /\ lost' = lost BY <1>1
  <2>5. ASSUME NEW s \in Slots PROVE OwnHandle(run.slots, s)' BY <1>1, <2>4 DEF OwnHandle
  <2>6. ASSUME NEW s \in Slots PROVE SlotAgrees(run.slots, s)' BY <1>1, <2>3, <2>4 DEF SlotAgrees
  <2>7. ASSUME NEW s \in Slots PROVE StillThere(run.slots, run.rops, s)'
    BY <1>1, <2>3, <2>4 DEF StillThere
  <2>8. UnderWay(run.slots, run.rops)'
    BY <2>4, <2>5, <2>6, <2>7 DEF UnderWay
  <2>9. HeldKnown' BY <2>1 DEF HeldKnown
  <2>10. KnownAgree' BY <2>1, <2>2 DEF KnownAgree, Leaving
  <2> QED BY <2>8, <2>9, <2>10
<1>11. Running' BY <1>1, <1>8, <1>9, <1>10 DEF Running, Apart
<1>12. reply'.kind \notin {"answered", "unreadable"} BY <1>1 DEF Idle
<1>13. pending'.kind = "execute" /\ run'.kind = "execute" /\ context' = context BY <1>1
<1>14. \A row \in rows' : row[1] = row[2] BY DEF RowsInv
<1>15. context' => HeldKnown' /\ KnownAgree' BY <1>10, <1>13
<1> QED BY <1>6, <1>7, <1>11, <1>12, <1>13, <1>14, <1>15 DEF RowsInv

\* Requests that are no batch.
LEMMA OtherSent ==
    ASSUME RowsInv, FlightInv, BeginConnect \/ BeginDisconnect PROVE RowsInv'
<1>1. /\ pending = Idle /\ reply' = Idle
      /\ UNCHANGED <<held, known, context, object, rows, lost>>
  BY DEF BeginConnect, BeginDisconnect, Send, CheckIdle, FlightInv
<1>2. pending.kind # "execute" /\ reply'.kind \notin {"answered", "unreadable"} BY <1>1 DEF Idle
<1>3. pending'.kind \in {"connect", "disconnect"} /\ run'.kind = pending'.kind
  BY DEF BeginConnect, BeginDisconnect, Send
<1>4. phase' # "new" /\ (pending'.kind = "connect" => Young)
  <2>1. CASE BeginConnect BY <2>1 DEF BeginConnect, RowsInv
  <2>2. CASE BeginDisconnect BY <2>2 DEF BeginDisconnect
  <2> QED BY <2>1, <2>2
<1>5. ColumnsTyped' /\ (\A row \in rows' : row[1] = row[2]) BY <1>1 DEF RowsInv, ColumnsTyped
<1>6. context' => HeldKnown' /\ KnownAgree'
  BY <1>1, <1>2, <1>3 DEF RowsInv, HeldKnown, KnownAgree, Leaving
<1>7. Young' \/ pending'.kind # "connect" BY <1>1, <1>4 DEF Young
<1> QED BY <1>2, <1>3, <1>4, <1>5, <1>6, <1>7 DEF RowsInv

LEMMA LogonWellBuilt == WellBuilt(Logon) /\ Logon.bound = {} /\ Released(Logon) = {}
<1>1. [op |-> "object", slot |-> 1] \in Rops BY SlotsAssumption DEF Rops
<1>2. Logon.rops \in Seq(Rops) /\ Len(Logon.rops) = 1 /\ Logon.rops[1].op = "object"
  BY <1>1 DEF Logon
<1>3. DOMAIN Logon.rops = {1} BY <1>2
<1> QED BY <1>2, <1>3 DEF WellBuilt, Released, Logon

LEMMA LogonSent == ASSUME RowsInv, FlightInv, BeginLogon PROVE RowsInv'
<1>1. /\ pending = Idle /\ SendBatch(Logon, NoHandles) /\ phase' # "new"
      /\ UNCHANGED <<held, known, object, context, rows, lost>>
  BY DEF BeginLogon, CheckIdle
<1>2. NoHandles \in Filled /\ \A s \in Slots : NoHandles[s] = None BY DEF NoHandles, Filled
<1>3. held' = held \ {NoHandles[s] : s \in Released(Logon)} BY <1>1, LogonWellBuilt
<1> QED BY <1>1, <1>2, <1>3, LogonWellBuilt, BatchSent DEF Apart

LEMMA ExecuteSent ==
    ASSUME RowsInv, FlightInv, NEW batch \in Batches, WellBuilt(batch), Execute(batch)
    PROVE  RowsInv'
<1>1. PICK bind \in [batch.bound -> held] :
        LET before == [s \in Slots |-> IF s \in batch.bound THEN bind[s] ELSE None] IN
        /\ \A s, t \in batch.bound : s # t => bind[s] # bind[t]
        /\ SendBatch(batch, before)
        /\ held' = held \ {before[s] : s \in Released(batch)}
  BY DEF Execute
<1> DEFINE before == [s \in Slots |-> IF s \in batch.bound THEN bind[s] ELSE None]
<1>2. /\ SendBatch(batch, before)
      /\ held' = held \ {before[s] : s \in Released(batch)}
  BY <1>1
<1>3. held \subseteq Handles /\ None \notin Handles BY NoneAssumption DEF RowsInv, ColumnsTyped
<1>4. batch.bound \subseteq Slots BY BatchesAssumption
<1>5. \A s \in batch.bound : before[s] = bind[s] /\ before[s] \in held /\ before[s] # None
  BY <1>1, <1>3, <1>4
<1>6. \A s \in Slots : s \notin batch.bound => before[s] = None OBVIOUS
<1>7. before \in Filled BY <1>1, <1>3 DEF Filled
<1>8. Apart(before) BY <1>1, <1>5, <1>6 DEF Apart
<1> HIDE DEF before
<1>9. /\ pending = Idle /\ phase' # "new"
      /\ UNCHANGED <<known, object, context, rows, lost>>
  BY DEF Execute, CheckIdle
<1> QED BY <1>2, <1>5, <1>6, <1>7, <1>8, <1>9, BatchSent

-----------------------------------------------------------------------------
(* The server's side, but for a ROP. *)

LEMMA TurnedAway == ASSUME RowsInv, TurnAway PROVE RowsInv'
<1>1. /\ run' = Idle /\ reply'.kind = "failed"
      /\ UNCHANGED <<pending, phase, held, known, context, object, rows, lost>>
  BY DEF TurnAway
<1> QED BY <1>1
  DEF RowsInv, ColumnsTyped, Young, HeldKnown, KnownAgree, Leaving, PendingTyped, Apart

LEMMA ConnectServed == ASSUME RowsInv, ServerConnect PROVE RowsInv'
<1>1. /\ run # Idle /\ pending.kind = "connect" BY DEF ServerConnect, Idle, RowsInv
<1>2. /\ run' = Idle /\ UNCHANGED <<pending, phase, held, known, object, rows, lost>>
  BY DEF ServerConnect, Answer
<1>3. Young' BY <1>1, <1>2 DEF RowsInv, Young
<1>4. HeldKnown' /\ KnownAgree'
  BY <1>3 DEF Young, HeldKnown, KnownAgree
<1> QED BY <1>1, <1>2, <1>3, <1>4 DEF RowsInv, ColumnsTyped

\* The context goes, and with it all there is to agree about.
LEMMA ContextGone ==
    ASSUME RowsInv, ServerDisconnect \/ Expire PROVE RowsInv'
<1>1. /\ ~context' /\ run' = Idle /\ object' = [h \in Handles |-> "free"]
      /\ UNCHANGED <<pending, phase, held, known, rows, lost>>
  BY DEF ServerDisconnect, Expire, Answer
<1>2. ColumnsTyped' BY <1>1 DEF RowsInv, ColumnsTyped, Things
<1>3. pending.kind = "execute" => PendingTyped' BY <1>1 DEF RowsInv, PendingTyped, Apart
<1>4. (pending.kind = "execute" /\ reply'.kind \in {"answered", "unreadable"}) => Answered'
  <2>1. CASE Expire
    <3>1. reply' = reply /\ pending' = pending BY <2>1 DEF Expire
    <3> QED BY <1>1, <3>1 DEF RowsInv, Answered, Decodes, AsDecoded, Apart
  <2>2. CASE ServerDisconnect
    <3>1. run # Idle /\ run.kind = "disconnect" BY <2>2 DEF ServerDisconnect, Idle
    <3> QED BY <3>1 DEF RowsInv
  <2> QED BY <2>1, <2>2
<1> QED BY <1>1, <1>2, <1>3, <1>4 DEF RowsInv, Young

LEMMA BatchAnswered == ASSUME RowsInv, AnswerBatch PROVE RowsInv'
<1>1. /\ run # Idle /\ pending.kind = "execute" /\ run.rops = <<>>
  BY DEF AnswerBatch, Idle, RowsInv
<1>2. /\ run' = Idle /\ reply'.contents = [out |-> run.out, after |-> run.slots]
      /\ UNCHANGED <<pending, phase, held, known, context, object, rows, lost>>
  BY DEF AnswerBatch, Answer
<1>3. Running BY <1>1 DEF RowsInv
<1>4. reply'.contents.out = run.out /\ reply'.contents.after = run.slots BY <1>2
<1>5. Decodes(reply.contents.out)' BY <1>2, <1>3, <1>4 DEF Running, Decodes, AsDecoded
<1>6. /\ context => UnderWay(run.slots, <<>>)
      /\ run.slots \in Filled /\ Apart(run.slots)
  BY <1>1, <1>3 DEF Running
<1>7. context' => UnderWay(reply.contents.after, <<>>)'
  BY <1>2, <1>4, <1>6 DEF UnderWay, OwnHandle, SlotAgrees, StillThere, OnlyReleases
<1>8. (reply.contents.after \in Filled /\ Apart(reply.contents.after))' BY <1>4, <1>6 DEF Apart
<1> QED BY <1>1, <1>2, <1>5, <1>7, <1>8
  DEF RowsInv, ColumnsTyped, Young, HeldKnown, KnownAgree, Leaving, PendingTyped, Apart, Answered

-----------------------------------------------------------------------------
(* The session's side. *)

LEMMA Remembered ==
    ASSUME NEW columns \in [Slots -> Columns \cup {None}], NEW after \in Filled, Apart(after),
           NEW h \in Handles
    PROVE  /\ \A s \in Slots : (after[s] = h /\ columns[s] # None) =>
                                  Remember(columns, after)[h] = columns[s]
           /\ (\A s \in Slots : after[s] = h => columns[s] = None) =>
                                  Remember(columns, after)[h] = known[h]
<1> DEFINE of == {s \in Slots : columns[s] # None /\ after[s] = h}
           last == CHOOSE s \in of : \A t \in of : t <= s
<1>1. Remember(columns, after)[h] = IF of = {} THEN known[h] ELSE columns[last]
  BY DEF Remember
<1>2. ASSUME NEW s \in of PROVE last = s
  <2>1. \A t \in of : t = s BY NoneAssumption DEF Apart, Filled
  <2>2. s <= s BY SlotsAssumption
  <2> QED BY <2>1, <2>2
<1> HIDE DEF last
<1> QED BY <1>1, <1>2

\* What is known after a batch: of a handle in a slot that was not released what the slot is decoded
\* with, of one that was released nothing, and of any other what it was.
LEMMA KnownAfter ==
    ASSUME NEW columns \in [Slots -> Columns \cup {None}], NEW before, NEW released,
           NEW after \in Filled, Apart(after), NEW h \in Handles,
           known' = Forget(Remember(columns, after), released, before, after)
    PROVE  /\ (\E s \in released : h \in {before[s], after[s]}) => known'[h] = None
           /\ ~(\E s \in released : h \in {before[s], after[s]}) =>
                /\ \A s \in Slots : (after[s] = h /\ columns[s] # None) => known'[h] = columns[s]
                /\ (\A s \in Slots : after[s] = h => columns[s] = None) => known'[h] = known[h]
BY Remembered DEF Forget

LEMMA BatchRead == ASSUME RowsInv, FlightInv, OnExecute PROVE RowsInv'
<1> DEFINE after == reply.contents.after
           out == reply.contents.out
           released == pending.released
           before == pending.before
           columns == pending.columns
           got == HandlesGot(after, released)
           gone(h) == \E s \in released : h \in {before[s], after[s]}
<1>1. /\ pending.kind = "execute" /\ reply # Idle /\ reply.kind = "answered"
      /\ known' = Forget(Remember(columns, after), released, before, after)
      /\ rows' = RowsRead(columns, out)
      /\ held' = held \/ held' = held \cup got
      /\ reply' = Idle /\ pending' = Idle
      /\ UNCHANGED <<context, object, run, lost>>
  BY DEF OnExecute, Unreadable, Receive
<1>2. /\ PendingTyped /\ Decodes(out) /\ after \in Filled /\ Apart(after)
      /\ context => UnderWay(after, <<>>) /\ HeldKnown /\ KnownAgree
  BY <1>1 DEF RowsInv, Answered
<1>3. run' = Idle BY <1>1 DEF FlightInv
<1>4. phase' # "new"
  <2>1. phase # "new" BY <1>1 DEF FlightInv, Idle
  <2> QED BY <2>1 DEF OnExecute
<1>5. got \subseteq Handles BY <1>2 DEF HandlesGot, Filled
<1> HIDE DEF after, out, released, before, columns, got
<1>6. columns \in [Slots -> Columns \cup {None}] /\ released \subseteq Slots /\ before \in Filled
  BY <1>2 DEF PendingTyped, columns, released, before
<1>7. \A h \in Handles :
        /\ gone(h) => known'[h] = None
        /\ ~gone(h) =>
             /\ \A s \in Slots : (after[s] = h /\ columns[s] # None) => known'[h] = columns[s]
             /\ (\A s \in Slots : after[s] = h => columns[s] = None) => known'[h] = known[h]
  BY <1>1, <1>2, <1>6, KnownAfter
<1>8. ColumnsTyped'
  <2>1. known' = [h \in Handles |-> known'[h]] BY <1>1 DEF Forget
  <2>2. ASSUME NEW h \in Handles PROVE known'[h] \in Columns \cup {None}
    <3>1. known[h] \in Columns \cup {None} BY DEF RowsInv, ColumnsTyped
    <3> QED BY <1>6, <1>7, <3>1
  <2>3. held' \subseteq Handles BY <1>1, <1>5 DEF RowsInv, ColumnsTyped
  <2> QED BY <1>1, <2>1, <2>2, <2>3 DEF RowsInv, ColumnsTyped
<1>9. \A row \in rows' : row[1] = row[2]
  <2> SUFFICES ASSUME NEW i \in DOMAIN out, out[i].op = "query", out[i].ok
               PROVE  columns[out[i].slot] = out[i].columns
    BY <1>1 DEF RowsRead
  <2>1. i \in 1..Len(out) BY <1>2 DEF Decodes
  <2> QED BY <1>2, <2>1 DEF Decodes, AsDecoded, columns
<1>10. ASSUME context PROVE HeldKnown' /\ KnownAgree'
  <2>1. /\ HeldKnown /\ KnownAgree
        /\ \A s \in Slots : /\ OwnHandle(after, s) /\ SlotAgrees(after, s)
                             /\ StillThere(after, <<>>, s)
    BY <1>2, <1>10 DEF UnderWay
  <2>2. /\ \A s \in released : before[s] \notin held
        /\ Apart(before)
    BY <1>2 DEF PendingTyped, released, before
  <2>3. \A s \in Slots : before[s] = None /\ after[s] # None =>
          /\ after[s] \notin held
          /\ \A t \in Slots : after[s] # before[t]
    BY <2>1 DEF OwnHandle, before
  <2>4. \A s \in Slots : before[s] # None => after[s] \in {before[s], None}
    BY <2>1 DEF OwnHandle, before
  <2>5. \A s \in Slots \ released : after[s] # None =>
          /\ after[s] \in Handles /\ object[after[s]] # "free"
          /\ object[after[s]] \in Columns => object[after[s]] = columns[s]
          /\ columns[s] # None => object[after[s]] \in {columns[s], "plain"} \/ after[s] \in lost
    BY <1>2, <2>1 DEF StillThere, SlotAgrees, Filled, released, columns
  <2>6. ASSUME NEW s \in Slots \ released, after[s] # None PROVE ~gone(after[s])
    <3> SUFFICES ASSUME NEW t \in released, after[s] \in {before[t], after[t]} PROVE FALSE OBVIOUS
    <3>1. s # t /\ t \in Slots BY <1>6
    <3>2. after[s] # after[t] BY <1>2, <2>6, <3>1 DEF Apart
    <3>3. after[s] = before[t] BY <3>2
    <3>4. CASE before[s] = None BY <2>3, <2>6, <3>1, <3>3, <3>4
    <3>5. CASE before[s] # None BY <2>2, <2>4, <2>6, <3>1, <3>3, <3>5 DEF Apart
    <3> QED BY <3>4, <3>5
  <2>7. ASSUME NEW h \in held' PROVE object[h] # "free" /\ (object[h] \in Columns => known'[h] = object[h])
    <3>1. CASE \E s \in Slots \ released : after[s] = h
      <4>1. PICK s \in Slots \ released : after[s] = h BY <3>1
      <4>2. h \in Handles /\ h # None BY <1>8, <2>7, NoneAssumption DEF ColumnsTyped
      <4>3. ~gone(h) BY <2>6, <4>1, <4>2
      <4>4. /\ object[h] # "free"
            /\ object[h] \in Columns => object[h] = columns[s]
        BY <2>5, <4>1, <4>2
      <4>5. columns[s] # None => known'[h] = columns[s] BY <1>7, <4>1, <4>2, <4>3
      <4> QED BY <4>4, <4>5, NoneAssumption
    <3>2. CASE ~\E s \in Slots \ released : after[s] = h
      <4>1. h \in held BY <1>1, <2>7, <3>2 DEF HandlesGot, got
      <4>2. h \in Handles /\ h # None BY <4>1, NoneAssumption DEF RowsInv, ColumnsTyped
      <4>3. \A s \in Slots : after[s] # h BY <2>2, <2>3, <2>4, <3>2, <4>1, <4>2
      <4>4. ~gone(h) BY <1>6, <2>2, <4>1, <4>3
      <4>5. known'[h] = known[h] BY <1>7, <4>2, <4>3, <4>4
      <4> QED BY <2>1, <4>1, <4>5 DEF HeldKnown
    <3> QED BY <3>1, <3>2
  <2>8. ASSUME NEW h \in Handles \ lost, known'[h] # None PROVE object[h] \in {known'[h], "plain"}
    <3>1. ~gone(h) BY <1>7, <2>8
    <3>2. h # None BY NoneAssumption
    <3>3. CASE \E s \in Slots : after[s] = h /\ columns[s] # None
      <4>1. PICK s \in Slots : after[s] = h /\ columns[s] # None BY <3>3
      <4>2. s \notin released BY <3>1, <4>1
      <4> QED BY <1>7, <2>5, <2>8, <3>1, <3>2, <4>1, <4>2
    <3>4. CASE ~\E s \in Slots : after[s] = h /\ columns[s] # None
      <4>1. known'[h] = known[h] BY <1>7, <3>1, <3>4
      <4>2. ~Leaving(h) BY <3>1 DEF Leaving, released, before
      <4> QED BY <2>1, <2>8, <4>1, <4>2 DEF KnownAgree
    <3> QED BY <3>3, <3>4
  <2>9. HeldKnown' BY <1>1, <2>7 DEF HeldKnown
  <2>10. KnownAgree' BY <1>1, <2>8 DEF KnownAgree
  <2> QED BY <2>9, <2>10
<1> QED BY <1>1, <1>3, <1>4, <1>8, <1>9, <1>10 DEF RowsInv, Idle

\* A reply that could not be read leaves what is known as it was, and what it may have done to a
\* handle is not known.
LEMMA BatchUnread == ASSUME RowsInv, FlightInv, OnExecuteUnreadable PROVE RowsInv'
<1>1. /\ pending.kind = "execute" /\ reply # Idle
      /\ rows' = {} \/ (reply.kind = "answered" /\ rows' = RowsRead(pending.columns, reply.contents.out))
      /\ lost \cup {pending.before[s] : s \in pending.released} \subseteq lost'
      /\ reply' = Idle /\ pending' = Idle
      /\ UNCHANGED <<held, known, context, object, run>>
  BY DEF OnExecuteUnreadable, Unreadable, Receive, Fail
<1>2. run' = Idle BY <1>1 DEF FlightInv
<1>3. phase' # "new"
  <2>1. phase # "new" BY <1>1 DEF FlightInv, Idle
  <2> QED BY <2>1 DEF OnExecuteUnreadable, Fail
<1>4. \A row \in rows' : row[1] = row[2]
  <2>1. CASE rows' = {} BY <2>1
  <2>2. CASE reply.kind = "answered" /\ rows' = RowsRead(pending.columns, reply.contents.out)
    <3>1. Decodes(reply.contents.out) BY <1>1, <2>2 DEF RowsInv, Answered
    <3> SUFFICES ASSUME NEW i \in DOMAIN reply.contents.out, reply.contents.out[i].op = "query",
                        reply.contents.out[i].ok
                 PROVE  pending.columns[reply.contents.out[i].slot] = reply.contents.out[i].columns
      BY <2>2 DEF RowsRead
    <3>2. i \in 1..Len(reply.contents.out) BY <3>1 DEF Decodes
    <3> QED BY <3>1, <3>2 DEF Decodes, AsDecoded
  <2> QED BY <1>1, <2>1, <2>2
<1>5. ASSUME context PROVE HeldKnown' /\ KnownAgree'
  <2>1. HeldKnown /\ KnownAgree BY <1>5 DEF RowsInv
  <2>2. HeldKnown' BY <1>1, <2>1 DEF HeldKnown
  <2>3. \A h \in Handles \ lost' : ~Leaving(h) BY <1>1 DEF Leaving
  <2> QED BY <1>1, <2>1, <2>2, <2>3 DEF KnownAgree
<1> QED BY <1>1, <1>2, <1>3, <1>4, <1>5 DEF RowsInv, ColumnsTyped, Idle

LEMMA OtherRead == ASSUME RowsInv, FlightInv, OnConnect \/ OnDisconnect PROVE RowsInv'
<1>1. /\ pending.kind \in {"connect", "disconnect"} /\ pending' = Idle /\ reply' = Idle /\ reply # Idle
      /\ UNCHANGED <<held, context, object, run, rows, lost>> /\ phase' # "new"
  BY DEF OnConnect, OnDisconnect, Receive
<1>2. run' = Idle BY <1>1 DEF FlightInv
<1>3. ~context \/ known' = known
  BY DEF OnConnect, OnDisconnect, Unreadable, RowsInv
<1>4. known' \in [Handles -> Columns \cup {None}]
  BY DEF OnConnect, OnDisconnect, RowsInv, ColumnsTyped
<1> QED BY <1>1, <1>2, <1>3, <1>4 DEF RowsInv, ColumnsTyped, HeldKnown, KnownAgree, Leaving, Idle

\* A reply that does not come leaves the batch pending, and the server perhaps at work on it.
LEMMA RowsLost ==
    ASSUME RowsInv, TransportFails \/ Cancel \/ DropConnection \/ UNCHANGED vars
    PROVE  RowsInv'
<1>1. /\ UNCHANGED <<pending, held, known, context, object, rows, lost>>
      /\ run' = run \/ run' = Idle
      /\ reply' = reply \/ reply' = Idle
      /\ phase' = "new" => phase = "new"
  BY DEF TransportFails, Cancel, DropConnection, vars
<1>2. ColumnsTyped' /\ (Young => Young') /\ (PendingTyped => PendingTyped')
      /\ (HeldKnown => HeldKnown') /\ (KnownAgree => KnownAgree')
  BY <1>1 DEF RowsInv, ColumnsTyped, Young, PendingTyped, Apart, HeldKnown, KnownAgree, Leaving
<1>3. run' = run => (Running => Running')
  BY <1>1
  DEF Running, AsBuilt, Foreseen, Decodes, AsDecoded, Apart, UnderWay, OwnHandle, SlotAgrees, StillThere,
      OnlyReleases
<1>4. reply' = reply => (Answered => Answered')
  BY <1>1
  DEF Answered, Decodes, AsDecoded, Apart, UnderWay, OwnHandle, SlotAgrees, StillThere, OnlyReleases
<1> QED BY <1>1, <1>2, <1>3, <1>4 DEF RowsInv, Idle

-----------------------------------------------------------------------------
(* A ROP is run. *)

LEMMA FirstRop ==
    ASSUME NEW rops, AsBuilt(rops), rops # <<>>
    PROVE  /\ Foreseen(Head(rops)) /\ AsBuilt(Tail(rops))
           /\ OnlyReleases(rops) => OnlyReleases(Tail(rops))
           /\ OnlyReleases(rops) <=> Head(rops).op = "release"
<1>1. rops \in Seq(Rops) BY DEF AsBuilt
<1>2. /\ Len(rops) \in Nat \ {0} /\ Tail(rops) \in Seq(Rops) /\ Len(Tail(rops)) = Len(rops) - 1
      /\ Head(rops) = rops[1] /\ \A i \in 1..Len(Tail(rops)) : Tail(rops)[i] = rops[i + 1]
  BY <1>1, HeadTailProperties
<1>3. \A i \in 1..Len(Tail(rops)) : i + 1 \in 1..Len(rops) BY <1>2
<1>4. Foreseen(Head(rops)) BY <1>2 DEF AsBuilt
<1>5. AsBuilt(Tail(rops))
  <2>1. \A i \in 1..Len(Tail(rops)) : Foreseen(Tail(rops)[i]) BY <1>2, <1>3 DEF AsBuilt
  <2>2. ASSUME NEW i \in 1..Len(Tail(rops)), NEW j \in 1..Len(Tail(rops)), i < j,
               Tail(rops)[i].op = "release"
        PROVE  Tail(rops)[j].op = "release"
    <3>1. i + 1 < j + 1 BY <2>2
    <3> QED BY <1>2, <1>3, <2>2, <3>1 DEF AsBuilt
  <2> QED BY <1>2, <2>1, <2>2 DEF AsBuilt
<1>6. OnlyReleases(rops) => OnlyReleases(Tail(rops)) BY <1>2, <1>3 DEF OnlyReleases
<1>7. Head(rops).op = "release" => OnlyReleases(rops)
  <2> SUFFICES ASSUME rops[1].op = "release", NEW i \in 1..Len(rops) PROVE rops[i].op = "release"
    BY <1>2 DEF OnlyReleases
  <2>1. 1 < i \/ i = 1 OBVIOUS
  <2> QED BY <1>2, <2>1 DEF AsBuilt
<1>8. OnlyReleases(rops) => Head(rops).op = "release" BY <1>2 DEF OnlyReleases
<1> QED BY <1>4, <1>5, <1>6, <1>7, <1>8

LEMMA OneAnswerMore ==
    ASSUME NEW out, Decodes(out), NEW response \in Responses, AsDecoded(response)
    PROVE  Decodes(out \o <<response>>) /\ Decodes(Append(out, response))
<1>1. out \in Seq(Responses) BY DEF Decodes
<1>2. Append(out, response) = out \o <<response>> BY <1>1, AppendIsConcat
<1>3. /\ Append(out, response) \in Seq(Responses)
      /\ Len(Append(out, response)) = Len(out) + 1
      /\ \A i \in 1..Len(out) : Append(out, response)[i] = out[i]
      /\ Append(out, response)[Len(out) + 1] = response
  BY <1>1, AppendProperties
<1>4. ASSUME NEW i \in 1..Len(Append(out, response)) PROVE AsDecoded(Append(out, response)[i])
  <2>1. i \in 1..Len(out) \/ i = Len(out) + 1 BY <1>1, <1>3
  <2> QED BY <1>3, <2>1 DEF Decodes
<1> QED BY <1>2, <1>3, <1>4 DEF Decodes

\* What is to be shown of a ROP: with these slots, and the objects as they are then.
StillAgrees(slots) ==
    /\ object' \in [Handles -> Things]
    /\ slots \in Filled /\ Apart(slots)
    /\ \A s \in Slots : OwnHandle(slots, s) /\ SlotAgrees(slots, s)'
    /\ \A s \in Slots : (slots[s] # None /\ s \notin pending.released) => object'[slots[s]] # "free"
    /\ ~OnlyReleases(Tail(run.rops)) =>
         \A s \in Slots :
           /\ slots[s] # None => object'[slots[s]] # "free"
           /\ pending.before[s] # None => object'[pending.before[s]] # "free"
    /\ HeldKnown' /\ KnownAgree'

Ran(slots, response) ==
    run' = [run EXCEPT !.rops = Tail(@), !.slots = slots, !.out = @ \o response]

LEMMA RopRan ==
    ASSUME RowsInv, FlightInv, run # Idle, pending.kind = "execute", context, run.rops # <<>>,
           NEW slots, StillAgrees(slots),
           NEW response, response = <<>> \/ \E r \in Responses : AsDecoded(r) /\ response = <<r>>,
           Ran(slots, response),
           UNCHANGED <<pending, phase, held, known, context, reply, rows, lost>>
    PROVE  RowsInv'
<1>1. Running /\ PendingTyped BY DEF RowsInv
<1>2. /\ run'.kind = "execute" /\ run'.cookie = run.cookie /\ run'.rops = Tail(run.rops)
      /\ run'.slots = slots /\ run'.out = run.out \o response
      /\ run' = [kind |-> "execute", cookie |-> run'.cookie, rops |-> run'.rops,
                 slots |-> run'.slots, out |-> run'.out]
  <2>1. PICK c, r, sl, o : run = [kind |-> "execute", cookie |-> c, rops |-> r, slots |-> sl, out |-> o]
    BY <1>1 DEF Running
  <2>2. run' = [kind |-> "execute", cookie |-> c, rops |-> Tail(r), slots |-> slots,
                out |-> o \o response]
    BY <2>1 DEF Ran
  <2> QED BY <2>1, <2>2
<1>3. AsBuilt(Tail(run.rops)) BY <1>1, FirstRop DEF Running
<1>4. AsBuilt(run.rops)' BY <1>2, <1>3 DEF AsBuilt, Foreseen
<1>5. Decodes(run.out \o response)
  <2>1. CASE response = <<>> BY <1>1, <2>1, ConcatEmptySeq DEF Running, Decodes
  <2>2. CASE response # <<>> BY <1>1, <2>2, OneAnswerMore DEF Running
  <2> QED BY <2>1, <2>2
<1>6. Decodes(run.out)' BY <1>2, <1>5 DEF Decodes, AsDecoded
<1>7. UnderWay(run.slots, run.rops)'
  <2>1. OnlyReleases(run.rops)' <=> OnlyReleases(Tail(run.rops)) BY <1>2 DEF OnlyReleases
  <2>2. ASSUME NEW s \in Slots PROVE OwnHandle(run.slots, s)'
    BY <1>2 DEF StillAgrees, OwnHandle
  <2>3. ASSUME NEW s \in Slots PROVE SlotAgrees(run.slots, s)'
    BY <1>2 DEF StillAgrees, SlotAgrees
  <2>4. ASSUME NEW s \in Slots PROVE StillThere(run.slots, run.rops, s)'
    BY <1>2, <2>1 DEF StillAgrees, StillThere
  <2> QED BY <2>2, <2>3, <2>4 DEF UnderWay
<1>8. run'.slots \in Filled /\ Apart(run.slots)' BY <1>2 DEF StillAgrees, Apart
<1>9. Running' BY <1>2, <1>4, <1>6, <1>7, <1>8 DEF Running
<1>10. PendingTyped' BY <1>1 DEF PendingTyped, Apart
<1>11. ColumnsTyped' BY DEF RowsInv, ColumnsTyped, StillAgrees
<1>12. HeldKnown' /\ KnownAgree' BY DEF StillAgrees
<1>13. reply' = Idle BY DEF FlightInv
<1> QED BY <1>2, <1>9, <1>10, <1>11, <1>12, <1>13 DEF RowsInv, Young, Idle

\* Refused, a ROP changes nothing.
LEMMA RopLeaves ==
    ASSUME RowsInv, run # Idle, pending.kind = "execute", context, run.rops # <<>>,
           UNCHANGED <<pending, held, known, lost, object>>,
           NEW slots, slots = run.slots
    PROVE  StillAgrees(slots)
<1>1. Running /\ UnderWay(slots, run.rops) /\ HeldKnown /\ KnownAgree BY DEF RowsInv, Running
<1>2. ~OnlyReleases(Tail(run.rops)) => ~OnlyReleases(run.rops) BY <1>1, FirstRop DEF Running
<1>3. object' \in [Handles -> Things] BY DEF RowsInv, ColumnsTyped
<1>4. slots \in Filled /\ Apart(slots) BY <1>1 DEF Running
<1>5. \A s \in Slots : OwnHandle(slots, s) /\ SlotAgrees(slots, s) /\ StillThere(slots, run.rops, s)
  BY <1>1 DEF UnderWay
<1>6. HeldKnown' /\ KnownAgree' BY <1>1 DEF HeldKnown, KnownAgree, Leaving
<1>7. \A s \in Slots : SlotAgrees(slots, s)' BY <1>5 DEF SlotAgrees
<1> QED BY <1>2, <1>3, <1>4, <1>5, <1>6, <1>7 DEF StillAgrees, StillThere

\* A new object gets a handle that nothing has, and that nothing is known of.
LEMMA RopOpens ==
    ASSUME RowsInv, run # Idle, pending.kind = "execute", context, run.rops # <<>>,
           UNCHANGED <<pending, held, known, lost>>,
           NEW rop, rop = Head(run.rops), rop.op \in {"object", "table"},
           NEW h \in Handles, object[h] = "free",
           object' = [object EXCEPT ![h] = IF rop.op = "table" THEN "plain" ELSE "object"],
           NEW slots, slots = [run.slots EXCEPT ![rop.slot] = h]
    PROVE  StillAgrees(slots)
<1> DEFINE at == rop.slot
<1>1. /\ Running /\ PendingTyped /\ HeldKnown /\ KnownAgree /\ ColumnsTyped
      /\ UnderWay(run.slots, run.rops)
  BY DEF RowsInv, Running
<1>2. /\ Foreseen(rop) /\ ~OnlyReleases(run.rops) /\ run.slots \in Filled /\ Apart(run.slots)
  BY <1>1, FirstRop DEF Running
<1>3. at \in Slots /\ pending.before[at] = None /\ (rop.op = "object" => pending.columns[at] = None)
  BY <1>2 DEF Foreseen, Rops
<1> HIDE DEF at
<1>4. slots \in Filled /\ slots[at] = h /\ \A s \in Slots : s # at => slots[s] = run.slots[s]
  BY <1>2, <1>3 DEF Filled, at
<1>5. \A s \in Slots : /\ OwnHandle(run.slots, s) /\ SlotAgrees(run.slots, s)
                       /\ run.slots[s] # None => object[run.slots[s]] # "free"
                       /\ pending.before[s] # None => object[pending.before[s]] # "free"
  BY <1>1, <1>2 DEF UnderWay, StillThere
<1>6. h # None BY NoneAssumption
<1>7. \A s \in Slots : run.slots[s] # h /\ pending.before[s] # h BY <1>5, <1>6
<1>8. Apart(slots) BY <1>2, <1>4, <1>7 DEF Apart
<1>9. h \notin held BY <1>1 DEF HeldKnown
<1>10. known[h] = None \/ h \in lost
  <2>1. ~Leaving(h) BY <1>1, <1>7 DEF Leaving, PendingTyped
  <2>2. known[h] \in Columns \cup {None} BY <1>1 DEF ColumnsTyped
  <2> QED BY <1>1, <2>1, <2>2, ColumnsAssumption DEF KnownAgree
<1>11. \A s \in Slots : OwnHandle(slots, s)
  <2>1. OwnHandle(slots, at) BY <1>3, <1>4, <1>7, <1>9, <1>10 DEF OwnHandle
  <2>2. \A s \in Slots : s # at => OwnHandle(slots, s) BY <1>4, <1>5 DEF OwnHandle
  <2> QED BY <2>1, <2>2
<1>12. /\ object' \in [Handles -> Things] /\ object'[h] \in {"plain", "object"}
       /\ rop.op = "table" => object'[h] = "plain"
       /\ \A g \in Handles : g # h => object'[g] = object[g]
  BY <1>1 DEF ColumnsTyped, Things
<1>13. \A s \in Slots : slots[s] # None => slots[s] \in Handles BY <1>4 DEF Filled
<1>14. \A s \in Slots : SlotAgrees(slots, s)'
  <2>1. SlotAgrees(slots, at)'
    BY <1>3, <1>4, <1>12, ColumnsAssumption DEF SlotAgrees
  <2>2. ASSUME NEW s \in Slots, s # at PROVE SlotAgrees(slots, s)'
    BY <1>4, <1>5, <1>7, <1>12, <1>13, <2>2 DEF SlotAgrees
  <2> QED BY <2>1, <2>2
<1>15. \A s \in Slots : slots[s] # None => object'[slots[s]] # "free"
  BY <1>4, <1>5, <1>7, <1>12, <1>13
<1>16. \A s \in Slots : pending.before[s] # None => object'[pending.before[s]] # "free"
  BY <1>1, <1>5, <1>7, <1>12 DEF PendingTyped, Filled
<1>17. HeldKnown' BY <1>1, <1>9, <1>12 DEF HeldKnown, ColumnsTyped
<1>18. KnownAgree' BY <1>1, <1>10, <1>12 DEF KnownAgree, Leaving
<1> QED BY <1>4, <1>8, <1>11, <1>12, <1>14, <1>15, <1>16, <1>17, <1>18 DEF StillAgrees

\* Columns are set on a table the batch opened, which the caller has not heard of.
LEMMA RopConfigures ==
    ASSUME RowsInv, run # Idle, pending.kind = "execute", context, run.rops # <<>>,
           UNCHANGED <<pending, held, known, lost>>,
           NEW rop, rop = Head(run.rops), rop.op = "columns",
           NEW h, h = run.slots[rop.slot], h # None,
           object' = [object EXCEPT ![h] = rop.columns],
           NEW slots, slots = run.slots
    PROVE  StillAgrees(slots)
<1> DEFINE at == rop.slot
<1>1. /\ Running /\ PendingTyped /\ HeldKnown /\ KnownAgree /\ ColumnsTyped
      /\ UnderWay(slots, run.rops)
  BY DEF RowsInv, Running
<1>2. /\ Foreseen(rop) /\ ~OnlyReleases(run.rops) /\ slots \in Filled /\ Apart(slots)
  BY <1>1, FirstRop DEF Running
<1>3. /\ at \in Slots /\ pending.before[at] = None
      /\ rop.columns \in Columns /\ pending.columns[at] = rop.columns
  BY <1>2 DEF Foreseen, Rops
<1> HIDE DEF at
<1>4. slots[at] = h /\ h \in Handles BY <1>2, <1>3 DEF Filled, at
<1>5. \A s \in Slots : /\ OwnHandle(slots, s) /\ SlotAgrees(slots, s)
                       /\ slots[s] # None => object[slots[s]] # "free"
                       /\ pending.before[s] # None => object[pending.before[s]] # "free"
  BY <1>1, <1>2 DEF UnderWay, StillThere
<1>6. /\ object' \in [Handles -> Things] /\ object'[h] = rop.columns /\ rop.columns # "free"
      /\ \A g \in Handles : g # h => object'[g] = object[g]
  BY <1>1, <1>3, <1>4, ColumnsAssumption DEF ColumnsTyped, Things
<1>7. h \notin held /\ (known[h] = None \/ h \in lost) BY <1>3, <1>4, <1>5 DEF OwnHandle
<1>8. \A s \in Slots : s # at => slots[s] # h BY <1>2, <1>3, <1>4 DEF Apart
<1>9. \A s \in Slots : slots[s] # None => slots[s] \in Handles BY <1>2 DEF Filled
<1>10. \A s \in Slots : SlotAgrees(slots, s)'
  <2>1. SlotAgrees(slots, at)' BY <1>3, <1>4, <1>6 DEF SlotAgrees
  <2>2. ASSUME NEW s \in Slots, s # at PROVE SlotAgrees(slots, s)'
    BY <1>5, <1>6, <1>8, <1>9, <2>2 DEF SlotAgrees
  <2> QED BY <2>1, <2>2
<1>11. \A s \in Slots : slots[s] # None => object'[slots[s]] # "free" BY <1>5, <1>6, <1>9
<1>12. \A s \in Slots : pending.before[s] # None => object'[pending.before[s]] # "free"
  BY <1>1, <1>5, <1>6 DEF PendingTyped, Filled
<1>13. HeldKnown' BY <1>1, <1>6, <1>7 DEF HeldKnown, ColumnsTyped
<1>14. KnownAgree'
  <2> SUFFICES ASSUME NEW g \in Handles \ lost, known[g] # None
               PROVE  object'[g] \in {known[g], "plain"} \/ Leaving(g)
    BY DEF KnownAgree, Leaving
  <2>1. g # h BY <1>7
  <2> QED BY <1>1, <1>6, <2>1 DEF KnownAgree
<1> QED BY <1>2, <1>5, <1>6, <1>10, <1>11, <1>12, <1>13, <1>14 DEF StillAgrees

\* What is released was the caller's to give up, or is the batch's own; nothing is opened after it.
LEMMA RopReleases ==
    ASSUME RowsInv, run # Idle, pending.kind = "execute", context, run.rops # <<>>,
           UNCHANGED <<pending, held, known, lost>>,
           NEW rop, rop = Head(run.rops), rop.op = "release",
           NEW h, h = run.slots[rop.slot], h # None,
           object' = [object EXCEPT ![h] = "free"],
           NEW left \in {h, None},
           NEW slots, slots = [run.slots EXCEPT ![rop.slot] = left]
    PROVE  StillAgrees(slots)
<1> DEFINE at == rop.slot
<1>1. /\ Running /\ PendingTyped /\ HeldKnown /\ KnownAgree /\ ColumnsTyped
      /\ UnderWay(run.slots, run.rops)
  BY DEF RowsInv, Running
<1>2. /\ Foreseen(rop) /\ OnlyReleases(Tail(run.rops)) /\ run.slots \in Filled /\ Apart(run.slots)
  BY <1>1, FirstRop DEF Running
<1>3. at \in Slots /\ at \in pending.released BY <1>2 DEF Foreseen, Rops
<1> HIDE DEF at
<1>4. run.slots[at] = h /\ h \in Handles BY <1>2, <1>3 DEF Filled, at
<1>5. slots \in Filled /\ slots[at] = left /\ \A s \in Slots : s # at => slots[s] = run.slots[s]
  BY <1>2, <1>3, <1>4 DEF Filled, at
<1>6. \A s \in Slots : /\ OwnHandle(run.slots, s) /\ SlotAgrees(run.slots, s)
                       /\ run.slots[s] # None /\ s \notin pending.released =>
                            object[run.slots[s]] # "free"
  BY <1>1 DEF UnderWay, StillThere
<1>7. \A s \in Slots : s # at => run.slots[s] # h BY <1>2, <1>3, <1>4 DEF Apart
<1>8. Apart(slots)
  <2> SUFFICES ASSUME NEW s \in Slots, NEW t \in Slots, slots[s] # None, slots[s] = slots[t], s # t
               PROVE  FALSE
    BY DEF Apart
  <2>1. CASE s = at \/ t = at BY <1>4, <1>5, <1>7, <2>1
  <2>2. CASE s # at /\ t # at BY <1>2, <1>5, <2>2 DEF Apart
  <2> QED BY <2>1, <2>2
<1>9. /\ object' \in [Handles -> Things] /\ object'[h] = "free"
      /\ \A g \in Handles : g # h => object'[g] = object[g]
  BY <1>1, <1>4 DEF ColumnsTyped, Things
<1>10. \A s \in Slots : slots[s] # None => slots[s] \in Handles BY <1>5 DEF Filled
<1>11. \A s \in Slots : OwnHandle(slots, s)
  <2>1. OwnHandle(slots, at)
    <3>1. slots[at] \in {run.slots[at], None} BY <1>4, <1>5
    <3>2. OwnHandle(run.slots, at) BY <1>3, <1>6
    <3>3. CASE pending.before[at] # None BY <3>1, <3>2, <3>3 DEF OwnHandle
    <3>4. CASE pending.before[at] = None BY <3>1, <3>2, <3>4 DEF OwnHandle
    <3> QED BY <3>3, <3>4
  <2>2. ASSUME NEW s \in Slots, s # at PROVE OwnHandle(slots, s)
    <3>1. slots[s] = run.slots[s] /\ OwnHandle(run.slots, s) BY <1>5, <1>6, <2>2
    <3> QED BY <3>1 DEF OwnHandle
  <2> QED BY <2>1, <2>2
<1>12. \A s \in Slots : SlotAgrees(slots, s)'
  <2>1. SlotAgrees(slots, at)' BY <1>5, <1>9 DEF SlotAgrees
  <2>2. ASSUME NEW s \in Slots, s # at PROVE SlotAgrees(slots, s)'
    <3>1. slots[s] = run.slots[s] /\ slots[s] # h BY <1>5, <1>7, <2>2
    <3>2. slots[s] # None => object'[slots[s]] = object[slots[s]] BY <1>9, <1>10, <3>1
    <3>3. SlotAgrees(run.slots, s) BY <1>6
    <3> QED BY <3>1, <3>2, <3>3 DEF SlotAgrees
  <2> QED BY <2>1, <2>2
<1>13. \A s \in Slots : (slots[s] # None /\ s \notin pending.released) => object'[slots[s]] # "free"
  <2> SUFFICES ASSUME NEW s \in Slots, slots[s] # None, s \notin pending.released
               PROVE  object'[slots[s]] # "free"
    OBVIOUS
  <2>1. s # at BY <1>3
  <2>2. slots[s] = run.slots[s] /\ slots[s] # h BY <1>5, <1>7, <2>1
  <2> QED BY <1>6, <1>9, <1>10, <2>2
<1>14. h \notin held /\ (known[h] = None \/ h \in lost \/ Leaving(h))
  <2>1. CASE pending.before[at] = None BY <1>3, <1>4, <1>6, <2>1 DEF OwnHandle
  <2>2. CASE pending.before[at] # None
    <3>1. h = pending.before[at] BY <1>3, <1>4, <1>6, <2>2 DEF OwnHandle
    <3> QED BY <1>1, <1>3, <3>1 DEF PendingTyped, Leaving
  <2> QED BY <2>1, <2>2
<1>15. HeldKnown' BY <1>1, <1>9, <1>14 DEF HeldKnown, ColumnsTyped
<1>16. KnownAgree'
  <2> SUFFICES ASSUME NEW g \in Handles \ lost, known[g] # None
               PROVE  object'[g] \in {known[g], "plain"} \/ Leaving(g)
    BY DEF KnownAgree, Leaving
  <2>1. CASE g = h BY <1>14, <2>1
  <2>2. CASE g # h BY <1>1, <1>9, <2>2 DEF KnownAgree
  <2> QED BY <2>1, <2>2
<1> QED BY <1>2, <1>5, <1>8, <1>9, <1>11, <1>12, <1>13, <1>15, <1>16 DEF StillAgrees

LEMMA RopSteps == ASSUME RowsInv, FlightInv, RunRop PROVE RowsInv'
<1>1. /\ run # Idle /\ pending.kind = "execute" /\ context /\ run.rops # <<>>
      /\ UNCHANGED <<pending, phase, held, known, context, reply, rows, lost>>
  <2>1. run.kind = "execute" /\ Fits /\ run.rops # <<>> BY Zenon DEF RunRop
  <2>2. UNCHANGED <<connectionVars, sessionVars, context, sequence, reply, historyVars>>
    BY Zenon DEF RunRop
  <2>3. run # Idle BY <2>1 DEF Idle
  <2>4. pending.kind = "execute" BY <2>1, <2>3 DEF RowsInv
  <2>5. context BY <2>1 DEF Fits
  <2> QED BY <2>1, <2>2, <2>3, <2>4, <2>5 DEF connectionVars, sessionVars, historyVars
<1>2. PICK rop : rop = Head(run.rops) OBVIOUS
<1>3. PICK handle : handle = run.slots[rop.slot] OBVIOUS
<1>4. PICK before : before = run.slots OBVIOUS
<1>5. /\ Running /\ Foreseen(rop) /\ rop \in Rops /\ rop.slot \in Slots /\ rop.op \in Ops
      /\ rop.op = "query" => ~OnlyReleases(run.rops)
  <2>1. Running BY <1>1 DEF RowsInv
  <2>2. Foreseen(rop) /\ (rop.op = "query" => ~OnlyReleases(run.rops))
    BY <1>1, <1>2, <2>1, FirstRop DEF Running
  <2>3. rop \in Rops BY <2>2 DEF Foreseen
  <2>4. rop.slot \in Slots /\ rop.op \in Ops
    <3>1. CASE rop \in [op : {"object", "table", "query", "release"}, slot : Slots]
      BY <3>1 DEF Ops
    <3>2. CASE rop \in [op : {"columns"}, slot : Slots, columns : Columns] BY <3>2 DEF Ops
    <3> QED BY <2>3, <3>1, <3>2 DEF Rops
  <2> QED BY <2>1, <2>2, <2>3, <2>4
<1> DEFINE Response(ok) == [op |-> rop.op, slot |-> rop.slot, ok |-> ok]
<1>6. \A ok \in BOOLEAN : Response(ok) \in Responses BY <1>5 DEF Responses
<1>7. CASE Ran(before, <<Response(FALSE)>>) /\ UNCHANGED object
  <2>1. StillAgrees(before) BY <1>1, <1>4, <1>7, RopLeaves
  <2>2. AsDecoded(Response(FALSE)) /\ Response(FALSE) \in Responses BY <1>6 DEF AsDecoded
  <2> QED BY <1>1, <1>7, <2>1, <2>2, RopRan
<1>8. ASSUME rop.op \in {"object", "table"}, NEW h \in Handles, object[h] = "free",
             Ran([before EXCEPT ![rop.slot] = h], <<Response(TRUE)>>),
             object' = [object EXCEPT ![h] = IF rop.op = "table" THEN "plain" ELSE "object"]
      PROVE  RowsInv'
  <2>1. PICK slots : slots = [before EXCEPT ![rop.slot] = h] OBVIOUS
  <2>2. StillAgrees(slots) BY <1>1, <1>2, <1>4, <1>8, <2>1, RopOpens
  <2>3. AsDecoded(Response(TRUE)) /\ Response(TRUE) \in Responses BY <1>6, <1>8 DEF AsDecoded
  <2>4. Ran(slots, <<Response(TRUE)>>) BY <1>8, <2>1
  <2> QED BY <1>1, <2>2, <2>3, <2>4, RopRan
<1>9. CASE /\ rop.op = "columns" /\ handle # None
           /\ Ran(before, <<Response(TRUE)>>)
           /\ object' = [object EXCEPT ![handle] = rop.columns]
  <2>1. StillAgrees(before) BY <1>1, <1>2, <1>3, <1>4, <1>9, RopConfigures
  <2>2. AsDecoded(Response(TRUE)) /\ Response(TRUE) \in Responses BY <1>6, <1>9 DEF AsDecoded
  <2> QED BY <1>1, <1>9, <2>1, <2>2, RopRan
<1>10. CASE /\ rop.op = "query" /\ handle # None /\ object[handle] \in Columns
            /\ Ran(before, <<[op |-> "query", slot |-> rop.slot, ok |-> TRUE,
                              columns |-> object[handle]]>>)
            /\ UNCHANGED object
  <2>1. StillAgrees(before) BY <1>1, <1>4, <1>10, RopLeaves
  <2>2. PICK r : r = [op |-> "query", slot |-> rop.slot, ok |-> TRUE, columns |-> object[handle]]
    OBVIOUS
  <2>3. r \in Responses BY <1>5, <1>10, <2>2 DEF Responses
  <2>4. object[handle] = pending.columns[rop.slot]
    <3>1. SlotAgrees(run.slots, rop.slot) BY <1>1, <1>5 DEF Running, UnderWay
    <3>2. object[handle] # "free" BY <1>10, ColumnsAssumption
    <3> QED BY <1>3, <1>10, <3>1, <3>2 DEF SlotAgrees
  <2>5. AsDecoded(r) BY <2>2, <2>4 DEF AsDecoded
  <2>6. Ran(before, <<r>>) BY <1>10, <2>2
  <2> QED BY <1>1, <2>1, <2>3, <2>5, <2>6, RopRan
<1>11. ASSUME rop.op = "release", handle # None, NEW left \in {handle, None},
              Ran([before EXCEPT ![rop.slot] = left], <<>>),
              object' = [object EXCEPT ![handle] = "free"]
       PROVE  RowsInv'
  <2>1. PICK slots : slots = [before EXCEPT ![rop.slot] = left] OBVIOUS
  <2>2. StillAgrees(slots) BY <1>1, <1>2, <1>3, <1>4, <1>11, <2>1, RopReleases
  <2>3. Ran(slots, <<>>) BY <1>11, <2>1
  <2> QED BY <1>1, <2>2, <2>3, RopRan
<1> HIDE DEF Response
<1> QED BY <1>2, <1>3, <1>4, <1>7, <1>8, <1>9, <1>10, <1>11 DEF RunRop, Ran, Response

\* The rest of a batch that is not run.
LEMMA RopsLeftOut == ASSUME RowsInv, FlightInv, RunOut PROVE RowsInv'
<1>1. /\ run # Idle /\ pending.kind = "execute" /\ context /\ run.rops # <<>>
      /\ UNCHANGED <<pending, phase, held, known, context, object, reply, rows, lost>>
  BY DEF RunOut, Fits, Idle, RowsInv
<1>2. Running /\ PendingTyped BY <1>1 DEF RowsInv
<1>3. PICK rest : rest = [op |-> "rest", slot |-> 1, ok |-> FALSE] OBVIOUS
<1>4. rest \in Responses /\ AsDecoded(rest)
  <2>1. rest \in [op : Ops, slot : Slots, ok : BOOLEAN] BY <1>3, SlotsAssumption DEF Ops
  <2>2. rest.op = "rest" BY <1>3
  <2>3. AsDecoded(rest) BY <2>2 DEF AsDecoded
  <2> QED BY <2>1, <2>3 DEF Responses
<1>5. /\ run'.kind = "execute" /\ run'.rops = <<>> /\ run'.slots = run.slots
      /\ run'.out = Append(run.out, rest)
      /\ run' = [kind |-> "execute", cookie |-> run'.cookie, rops |-> run'.rops,
                 slots |-> run'.slots, out |-> run'.out]
  <2>1. PICK c, r, sl, o : run = [kind |-> "execute", cookie |-> c, rops |-> r, slots |-> sl, out |-> o]
    BY <1>2 DEF Running
  <2>2. run' = [kind |-> "execute", cookie |-> c, rops |-> <<>>, slots |-> sl, out |-> Append(o, rest)]
    BY <1>3, <2>1 DEF RunOut
  <2> QED BY <2>1, <2>2
<1>6. AsBuilt(run.rops)' BY <1>5 DEF AsBuilt
<1>7. Decodes(Append(run.out, rest)) BY <1>2, <1>4, OneAnswerMore DEF Running
<1>8. Decodes(run.out)' BY <1>1, <1>5, <1>7 DEF Decodes, AsDecoded
<1>9. UnderWay(run.slots, run.rops)'
  <2>1. \A s \in Slots : /\ OwnHandle(run.slots, s) /\ SlotAgrees(run.slots, s)
                         /\ StillThere(run.slots, run.rops, s)
    BY <1>1, <1>2 DEF Running, UnderWay
  <2>2. OnlyReleases(run.rops)' BY <1>5 DEF OnlyReleases
  <2> QED BY <1>1, <1>5, <2>1, <2>2 DEF UnderWay, OwnHandle, SlotAgrees, StillThere
<1>10. run'.slots \in Filled /\ Apart(run.slots)' BY <1>2, <1>5 DEF Running, Apart
<1>11. Running' BY <1>5, <1>6, <1>8, <1>9, <1>10 DEF Running
<1>12. PendingTyped' /\ ColumnsTyped' /\ HeldKnown' /\ KnownAgree' /\ (Young => Young')
  BY <1>1, <1>2 DEF RowsInv, PendingTyped, Apart, ColumnsTyped, HeldKnown, KnownAgree, Leaving, Young
<1>13. reply' = Idle BY <1>1 DEF FlightInv
<1> QED BY <1>1, <1>5, <1>11, <1>12, <1>13 DEF RowsInv, Idle

-----------------------------------------------------------------------------

LEMMA RowsInit == ASSUME Init PROVE RowsInv
BY DEF Init, RowsInv, ColumnsTyped, Things, Young, HeldKnown, KnownAgree, Idle

LEMMA RowsNext ==
    ASSUME \A batch \in Batches : WellBuilt(batch), FlightInv, RowsInv, [Next]_vars
    PROVE  RowsInv'
<1>1. CASE \E batch \in Batches : Execute(batch) BY <1>1, ExecuteSent
<1>2. CASE BeginConnect \/ BeginLogon \/ BeginDisconnect BY <1>2, OtherSent, LogonSent
<1>3. CASE TurnAway \/ ServerConnect \/ ServerDisconnect \/ Expire \/ AnswerBatch
  BY <1>3, TurnedAway, ConnectServed, ContextGone, BatchAnswered
<1>4. CASE RunRop \/ RunOut BY <1>4, RopSteps, RopsLeftOut
<1>5. CASE OnConnect \/ OnDisconnect \/ OnExecute \/ OnExecuteUnreadable
  BY <1>5, OtherRead, BatchRead, BatchUnread
<1>6. CASE TransportFails \/ Cancel \/ DropConnection \/ UNCHANGED vars BY <1>6, RowsLost
<1> QED BY <1>1, <1>2, <1>3, <1>4, <1>5, <1>6 DEF Next, Gone

\* Whatever the server refuses, leaves out or hands out again, and whatever replies are lost, rows are
\* decoded with the columns they were encoded with, for any batches that are well built
\* (session.rs on_execute, remember and forget; batch.rs recall_columns).
THEOREM RowsDecoded ==
    ASSUME \A batch \in Batches : WellBuilt(batch) PROVE Spec => []RowsDecode
<1>1. RowsInv => RowsDecode
  BY DEF RowsInv, RowsDecode, ColumnsAgree, KnownAgree, Leaving, Idle
<1>2. FlightInv /\ RowsInv /\ [Next]_vars => RowsInv' BY RowsNext
<1> QED BY <1>1, <1>2, RowsInit, FlightInvariant, PTL DEF Spec
=============================================================================
