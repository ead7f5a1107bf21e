--------------------------- MODULE SessionContext ---------------------------
(***************************************************************************)
(* One Session Context: the sans-I/O state machine of                      *)
(* crates/mapi-proto/src/session.rs, driven by                             *)
(* crates/mapi-client/src/connection.rs, against a server that runs a      *)
(* batch one ROP at a time.                                                *)
(*                                                                         *)
(* What is at stake is twofold.  A context takes one request at a time,    *)
(* though calls time out and are cancelled.  And rows carry neither tags   *)
(* nor types, so the columns a reply is decoded with have to be the ones   *)
(* the server encoded it with, though they may have been set several       *)
(* round trips ago, on a handle the server has since handed out again.     *)
(*                                                                         *)
(* Abstractions.  A column set is a name.  A batch is one of Batches: its  *)
(* ROPs, and the slots bound to handles of earlier replies.  Every failure *)
(* that ends on_response before the ROPs are decoded, and every failure to *)
(* decode one but for want of columns, is a reply that is "unreadable".    *)
(***************************************************************************)
EXTENDS Naturals, Sequences, FiniteSets

CONSTANTS
    Handles,     \* values the server gives objects
    Columns,     \* column sets
    Slots,       \* places in a batch's handle table
    Batches,     \* the batches the caller sends: [bound, rops]
    MaxCalls,    \* bound: calls after the logon
    None         \* no handle, no columns

ASSUME SlotsAssumption == Slots \subseteq Nat \ {0} /\ 1 \in Slots
ASSUME NoneAssumption == None \notin Handles \cup Columns \cup Nat /\ Handles \cap Columns = {}
ASSUME CallsAssumption == MaxCalls \in Nat
ASSUME ColumnsAssumption == Columns \cap {"free", "object", "plain"} = {}

Rops ==
    [op : {"object", "table", "query", "release"}, slot : Slots] \cup
    [op : {"columns"}, slot : Slots, columns : Columns]

ASSUME BatchesAssumption ==
    \A b \in Batches : b.bound \subseteq Slots /\ \A i \in DOMAIN b.rops : b.rops[i] \in Rops

VARIABLES
    \* Connection, and its caller
    phase,      \* how far the connection has come
    waiting,    \* whether the caller awaits a reply
    poison,     \* Connection::poison
    held,       \* handles the caller may bind
    calls,
    \* Session
    pending,    \* Session::pending
    connected,  \* Session::connected
    known,      \* Session::table_columns
    cookie,     \* the sequence cookie in the jar
    \* the server
    context,    \* whether it knows the Session Context
    object,     \* what each handle names: nothing, an object, a table with no columns, or its columns
    sequence,   \* the sequence cookie it last set
    run,        \* the request it is working on
    reply,      \* the reply on its way
    \* history
    rows,       \* the rows of the last reply: decoded with, and encoded with
    overlap,    \* whether a request ever reached the server while another was under way
    lost        \* handles of replies that could not be read

connectionVars == <<phase, waiting, poison, held, calls>>
sessionVars    == <<pending, connected, known, cookie>>
serverVars     == <<context, object, sequence, run, reply>>
historyVars    == <<rows, overlap, lost>>
vars == <<connectionVars, sessionVars, serverVars, historyVars>>

Idle == [kind |-> "none"]
Table == {"plain"} \cup Columns                 \* what a handle that names a table is
NoHandles == [s \in Slots |-> None]

Logon == [bound |-> {}, rops |-> <<[op |-> "object", slot |-> 1]>>]

Init ==
    /\ phase = "new" /\ waiting = FALSE /\ poison = FALSE /\ held = {} /\ calls = 0
    /\ pending = Idle /\ connected = FALSE /\ known = [h \in Handles |-> None] /\ cookie = 0
    /\ context = FALSE /\ object = [h \in Handles |-> "free"] /\ sequence = 0
    /\ run = Idle /\ reply = Idle
    /\ rows = {} /\ overlap = FALSE /\ lost = {}

-----------------------------------------------------------------------------
(* Building a request *)

\* The columns a batch gives each slot's table.  A slot keeps one set: the last.
SetBy(batch) ==
    [s \in Slots |->
        LET at == {i \in DOMAIN batch.rops : batch.rops[i].op = "columns" /\ batch.rops[i].slot = s}
        IN  IF at = {} THEN None
            ELSE batch.rops[CHOOSE i \in at : \A j \in at : j <= i].columns]

Released(batch) == {batch.rops[i].slot : i \in {j \in DOMAIN batch.rops : batch.rops[j].op = "release"}}

\* A slot bound to a table configured before has that table's columns, unless the batch sets its own.
RecallColumns(columns, before) ==
    [s \in Slots |-> IF columns[s] = None /\ before[s] # None THEN known[before[s]] ELSE columns[s]]

\* For each slot that had columns and now holds a handle, the later slot winning.
Remember(columns, after) ==
    [h \in Handles |->
        LET of == {s \in Slots : columns[s] # None /\ after[s] = h}
        IN  IF of = {} THEN known[h] ELSE columns[CHOOSE s \in of : \A t \in of : t <= s]]

ForgetAfter(columns, released, before, after) ==   \* mutant: what the slot held before is kept
    [h \in Handles |-> IF \E s \in released : h = after[s] THEN None ELSE columns[h]]

\* By the handle a released slot held before, and by the one the server left in it.
Forget(columns, released, before, after) ==
    [h \in Handles |-> IF \E s \in released : h \in {before[s], after[s]} THEN None ELSE columns[h]]

\* One request goes out.  The server works on one at a time.
Send(request) ==
    /\ waiting' = TRUE
    /\ run' = request
    /\ reply' = Idle
    /\ overlap' = (overlap \/ run # Idle)

CheckPoison == ~poison          \* mutant: a request in flight is no obstacle

\* Connection::usable and Session::check_idle: refused, the call ends with an error and no change.
CheckIdle == ~poison /\ pending = Idle

-----------------------------------------------------------------------------
(* Calls *)

BeginConnect ==
    /\ phase = "new"
    /\ phase' = "connecting"
    /\ pending' = [kind |-> "connect"]
    /\ Send([kind |-> "connect", cookie |-> cookie])
    /\ UNCHANGED <<poison, held, calls, connected, known, cookie, context, object, sequence,
                   rows, lost>>

\* A batch, with this handle in each of its bound slots.
SendBatch(batch, before) ==
    /\ pending' = [kind |-> "execute", before |-> before, released |-> Released(batch),
                   columns |-> RecallColumns(SetBy(batch), before)]
    /\ Send([kind |-> "execute", cookie |-> cookie, rops |-> batch.rops, slots |-> before, out |-> <<>>])

BeginLogon ==
    /\ phase = "connected" /\ CheckIdle
    /\ phase' = "logon"
    /\ SendBatch(Logon, NoHandles)
    /\ UNCHANGED <<poison, held, calls, connected, known, cookie, context, object, sequence,
                   rows, lost>>

\* The caller gives up the handles it releases when it asks, not when it is answered.
Execute(batch) ==
    /\ phase = "open" /\ ~waiting /\ connected /\ CheckIdle
    /\ calls < MaxCalls
    /\ calls' = calls + 1
    /\ \E bind \in [batch.bound -> held] :
         LET before == [s \in Slots |-> IF s \in batch.bound THEN bind[s] ELSE None] IN
         /\ \A s, t \in batch.bound : s # t => bind[s] # bind[t]
         /\ SendBatch(batch, before)
         /\ held' = held \ {before[s] : s \in Released(batch)}
    /\ UNCHANGED <<phase, poison, connected, known, cookie, context, object, sequence, rows, lost>>

\* Connection::disconnect, and close_quietly after a logon that failed.
BeginDisconnect ==
    /\ phase \in {"open", "failed"} /\ ~waiting /\ connected /\ CheckIdle
    /\ phase' = "closing"
    /\ pending' = [kind |-> "disconnect"]
    /\ Send([kind |-> "disconnect", cookie |-> cookie])
    /\ UNCHANGED <<poison, held, calls, connected, known, cookie, context, object, sequence,
                   rows, lost>>

\* The connection is dropped, by the caller or because it was consumed.
DropConnection ==
    /\ phase \in {"connected", "open", "failed", "closing", "connecting", "logon"} /\ ~waiting
    /\ phase' = "gone"
    /\ UNCHANGED <<waiting, poison, held, calls, sessionVars, serverVars, historyVars>>

-----------------------------------------------------------------------------
(* The server *)

\* It turns a request away without acting on it: its context is gone, its cookie is out of step, or
\* something in front of the server answers for it.
TurnAway ==
    /\ run # Idle
    /\ run.kind = "execute" => run.out = <<>>
    /\ run' = Idle
    /\ reply' = [kind |-> "failed", cookie |-> None]
    /\ UNCHANGED <<connectionVars, sessionVars, context, object, sequence, historyVars>>

Fits == run.cookie = sequence /\ (run.kind # "connect" => context)

\* Every answer sets the sequence cookie anew.  A reply that cannot be read is one that was run.
Answer(kinds, contents) ==
    /\ sequence' = sequence + 1
    /\ run' = Idle
    /\ \E kind \in kinds :
         reply' = [kind |-> kind, cookie |-> sequence + 1, contents |-> contents]

ServerConnect ==
    /\ run.kind = "connect" /\ Fits
    /\ \/ context' = TRUE /\ Answer({"answered", "unreadable"}, <<>>)
       \/ UNCHANGED context /\ Answer({"unreadable"}, <<>>)
    /\ UNCHANGED <<connectionVars, sessionVars, object, historyVars>>

ServerDisconnect ==
    /\ run.kind = "disconnect" /\ Fits
    /\ context' = FALSE
    /\ object' = [h \in Handles |-> "free"]
    /\ Answer({"answered"}, <<>>)
    /\ UNCHANGED <<connectionVars, sessionVars, historyVars>>

\* One ROP of the batch, run or refused; the handle in its slot is its own or an earlier ROP's.
RunRop ==
    /\ run.kind = "execute" /\ Fits /\ run.rops # <<>>
    /\ LET rop == Head(run.rops)
           handle == run.slots[rop.slot]
           Ran(slots, response) ==
               run' = [run EXCEPT !.rops = Tail(@), !.slots = slots, !.out = @ \o response]
           Refused == Ran(run.slots, <<[op |-> rop.op, slot |-> rop.slot, ok |-> FALSE]>>)
                      /\ UNCHANGED object
           Response == [op |-> rop.op, slot |-> rop.slot, ok |-> TRUE]
       IN  \/ Refused
           \/ /\ rop.op \in {"object", "table"}
              /\ \E h \in {h \in Handles : object[h] = "free"} :
                   /\ Ran([run.slots EXCEPT ![rop.slot] = h], <<Response>>)
                   /\ object' = [object EXCEPT ![h] = IF rop.op = "table" THEN "plain" ELSE "object"]
           \/ /\ rop.op = "columns" /\ handle # None /\ object[handle] \in Table
              /\ Ran(run.slots, <<Response>>)
              /\ object' = [object EXCEPT ![handle] = rop.columns]
           \/ /\ rop.op = "query" /\ handle # None /\ object[handle] \in Columns
              /\ Ran(run.slots, <<[op |-> "query", slot |-> rop.slot, ok |-> TRUE,
                                   columns |-> object[handle]]>>)
              /\ UNCHANGED object
           \/ /\ rop.op = "release" /\ handle # None /\ object[handle] # "free"
              /\ \E left \in {handle, None} : Ran([run.slots EXCEPT ![rop.slot] = left], <<>>)
              /\ object' = [object EXCEPT ![handle] = "free"]
    /\ UNCHANGED <<connectionVars, sessionVars, context, sequence, reply, historyVars>>

\* The rest of the batch is not run: RopBufferTooSmall in the place of its answers.
RunOut ==
    /\ run.kind = "execute" /\ Fits /\ run.rops # <<>>
    /\ run' = [run EXCEPT !.rops = <<>>, !.out = Append(@, [op |-> "rest", slot |-> 1, ok |-> FALSE])]
    /\ UNCHANGED <<connectionVars, sessionVars, context, object, sequence, reply, historyVars>>

AnswerBatch ==
    /\ run.kind = "execute" /\ Fits /\ run.rops = <<>>
    /\ Answer({"answered", "unreadable"}, [out |-> run.out, after |-> run.slots])
    /\ UNCHANGED <<connectionVars, sessionVars, context, object, historyVars>>

\* The server gives the context up, and what it held.
Expire ==
    /\ context /\ run = Idle
    /\ context' = FALSE
    /\ object' = [h \in Handles |-> "free"]
    /\ UNCHANGED <<connectionVars, sessionVars, sequence, run, reply, historyVars>>

-----------------------------------------------------------------------------
(* Session::on_response *)

\* The request is no longer in flight, whatever the reply says, and its cookies are taken first.
Receive ==
    /\ waiting /\ reply # Idle
    /\ waiting' = FALSE
    /\ reply' = Idle
    /\ pending' = Idle

AbsorbLate ==                   \* mutant: only a reply that could be read has its cookies taken
    cookie' = IF reply.kind # "answered" THEN cookie ELSE reply.cookie

Absorb == cookie' = IF reply.cookie = None THEN cookie ELSE reply.cookie

Unreadable == reply.kind # "answered"

\* A query of a slot without columns stops the decoding of its batch.
Undecodable ==
    ~Unreadable /\ \E i \in DOMAIN reply.contents.out :
        LET response == reply.contents.out[i]
        IN  response.op = "query" /\ response.ok /\ pending.columns[response.slot] = None

OnConnect ==
    /\ pending.kind = "connect" /\ Receive /\ Absorb
    /\ connected' = ~Unreadable
    /\ phase' = IF Unreadable THEN "gone" ELSE "connected"
    /\ UNCHANGED <<poison, held, calls, known, context, object, sequence, run, historyVars>>

\* The error path of an Execute.  A logon that fails has its context torn down.
Fail ==
    /\ phase' = IF phase = "logon" THEN "failed" ELSE phase
    /\ UNCHANGED <<held, known>>

RowsRead(columns, out) ==
    {<<columns[out[i].slot], out[i].columns>> : i \in {j \in DOMAIN out : out[j].op = "query" /\ out[j].ok}}

\* The handles a caller takes from the reply: of the slots not released, those the server filled.
HandlesGot(after, released) == {after[s] : s \in Slots \ released} \ {None}

\* Not read, or not decoded as far as its end.  What a reply that was run did to the handles is not
\* known: those it left in the table, and those it released.
OnExecuteUnreadable ==
    /\ pending.kind = "execute" /\ reply # Idle /\ (Unreadable \/ Undecodable)
    /\ Receive /\ Absorb /\ Fail
    /\ lost' = lost \cup {pending.before[s] : s \in pending.released}
                    \cup (IF reply.kind = "failed" THEN {} ELSE {reply.contents.after[s] : s \in Slots})
    /\ rows' = IF Unreadable THEN {} ELSE RowsRead(pending.columns, reply.contents.out)
    /\ UNCHANGED <<poison, calls, connected, context, object, sequence, run, overlap>>

\* Decoded.  The caller gets the handles unless a ROP was refused and it did not allow for that.
OnExecute ==
    /\ pending.kind = "execute" /\ reply # Idle /\ ~Unreadable /\ ~Undecodable
    /\ LET after == reply.contents.after
           out == reply.contents.out
           got == HandlesGot(after, pending.released)
       IN  /\ known' = Forget(Remember(pending.columns, after), pending.released, pending.before, after)
           /\ rows' = RowsRead(pending.columns, out)
           /\ \/ held' = held \cup got /\ phase' = IF phase = "logon" THEN "open" ELSE phase
              \/ /\ \E i \in DOMAIN out : ~out[i].ok
                 /\ phase' = IF phase = "logon" THEN "failed" ELSE phase
                 /\ UNCHANGED held
           /\ phase = "logon" => got # {} \/ phase' = "failed"
    /\ Receive /\ Absorb
    /\ UNCHANGED <<poison, calls, connected, context, object, sequence, run, overlap, lost>>

OnDisconnect ==
    /\ pending.kind = "disconnect" /\ Receive
    /\ phase' = "gone"
    /\ IF Unreadable
         THEN Absorb /\ UNCHANGED <<connected, known>>
         ELSE /\ connected' = FALSE
              /\ cookie' = 0
              /\ known' = [h \in Handles |-> None]
    /\ UNCHANGED <<poison, held, calls, context, object, sequence, run, historyVars>>

-----------------------------------------------------------------------------
(* Replies that never come *)

\* The round trip failed or timed out: the server may have acted, or be acting still.
TransportFails ==
    /\ waiting
    /\ waiting' = FALSE
    /\ poison' = TRUE
    /\ reply' = Idle
    /\ phase' = IF phase = "logon" THEN "failed" ELSE phase
    /\ \/ UNCHANGED run
       \/ run' = Idle
    /\ UNCHANGED <<held, calls, sessionVars, context, object, sequence, historyVars>>

\* The caller drops the future; the server does not hear of it.
Cancel ==
    /\ waiting
    /\ waiting' = FALSE
    /\ reply' = Idle
    /\ UNCHANGED <<phase, poison, held, calls, sessionVars, context, object, sequence, run,
                   historyVars>>

Gone == phase = "gone" /\ UNCHANGED vars

-----------------------------------------------------------------------------
Next ==
    \/ BeginConnect \/ BeginLogon \/ BeginDisconnect \/ DropConnection
    \/ \E batch \in Batches : Execute(batch)
    \/ TurnAway \/ ServerConnect \/ ServerDisconnect \/ RunRop \/ RunOut \/ AnswerBatch \/ Expire
    \/ OnConnect \/ OnExecuteUnreadable \/ OnExecute \/ OnDisconnect
    \/ TransportFails \/ Cancel
    \/ Gone

Spec == Init /\ [][Next]_vars

-----------------------------------------------------------------------------
(* Properties *)

\* The server never has two requests of one context at once, though replies are lost and calls
\* cancelled while it works (session.rs:7-9, connection.rs:3-6).
OneAtATime == ~overlap

\* Between calls, the columns remembered for a handle are those of the table the server holds under
\* it: a released handle has none, so the object that is next given its value inherits none
\* (session.rs:390-393).  What an unreadable reply did is not known.
ColumnsAgree ==
    (pending = Idle /\ run = Idle /\ context) =>
        \A h \in Handles \ lost : known[h] # None => object[h] \in {known[h], "plain"}

\* Every row is decoded with the columns the server encoded it with, and the next one will be: the
\* caller of a table it opened never has to say them again (batch/tables.rs:79-82).
RowsDecode == (\A row \in rows : row[1] = row[2]) /\ ColumnsAgree

\* Between calls the jar holds the sequence cookie the server last set, or the next request would
\* be out of step, unless the reply was lost: cookies are taken from a reply that is an error too.
InStep == (pending = Idle /\ run = Idle /\ phase \notin {"new", "gone"}) => cookie = sequence

=============================================================================
