----------------------------- MODULE ObjectCalls -----------------------------
(***************************************************************************)
(* The calls on a mailbox's objects that take one round trip, or two:      *)
(* logon.rs, folder.rs, message.rs, message/attachment.rs, properties.rs,  *)
(* logon/names.rs and named.rs of crates/mapi-client/src.                  *)
(*                                                                         *)
(* Each builds one batch that opens what it needs, does one thing and      *)
(* releases what it opened; the server runs it ROP by ROP, past what it    *)
(* refuses, and the answers are matched to the questions by their place.   *)
(*                                                                         *)
(* Abstractions.  A slot is named for what is opened in it.  The store's   *)
(* id for a name is the name, and a special folder's id is the folder, so  *)
(* that an answer that is paired with the wrong question shows.  What a    *)
(* message has of an update is the set of kinds of change in it.           *)
(***************************************************************************)
EXTENDS MailboxConstants, FiniteSets, SequencesExt

VARIABLES
    \* the call
    call, trip,
    result,     \* what its caller is told
    told,       \* kinds of change it is told were refused
    specials,   \* SpecialFolders: what became of each
    \* Logon
    names,      \* NamedProperties::entries
    \* Connection
    usable,
    \* the server
    store,      \* its messages and its special folders
    registered, \* the names that have an id in it
    left,       \* the handles batches have left open
    \* history
    refusals,   \* kinds of changes the server said it refused, of a call that it otherwise did
    learnt,     \* names whose id the client was told
    roomless    \* whether a batch stopped for lack of room

clientVars == <<call, trip, result, told, specials, names>>
serverVars == <<store, registered, left>>
historyVars == <<refusals, learnt, roomless>>
vars == <<clientVars, usable, serverVars, historyVars>>

NoCall == [kind |-> "none"]
Unread == [f \in ToSet(Specials) |-> "unread"]

\* The mailbox a call finds.
Mailbox(inbox) ==
    [here |-> Messages, there |-> {}, read |-> {}, item |-> {}, posted |-> {"nothing"}, inbox |-> inbox]

\* A program that holds a Logon of its own: what it resolved, and the store it resolved it in.
Init ==
    /\ call = NoCall /\ trip = "idle" /\ result = "none" /\ told = {} /\ specials = Unread
    /\ names = <<>> /\ usable \in BOOLEAN
    /\ store = Mailbox(Unread) /\ registered = {} /\ left = {}
    /\ refusals = {} /\ learnt = {} /\ roomless = FALSE

\* Those of a sequence that are in a set, in its order: SelectSeq, as a function that proofs can follow.
Among(seq, set) ==
    LET kept[n \in 0..Len(seq)] ==
            IF n = 0 THEN <<>> ELSE IF seq[n] \in set THEN Append(kept[n - 1], seq[n]) ELSE kept[n - 1]
    IN  kept[Len(seq)]

-----------------------------------------------------------------------------
(* What the calls ask *)

Open(of, on) == [op |-> "open", on |-> on, makes |-> of]
Rop(op, on) == [op |-> op, on |-> on]
Release(slot) == [op |-> "release", on |-> slot]

\* Target::open and Opened::release: what is opened to reach an object, and back inside out.
Path == [logon |-> <<>>, folder |-> <<"folder">>, message |-> <<"message">>,
         attachment |-> <<"message", "attachment">>,
         embedded |-> <<"message", "attachment", "embedded">>]

Around(path, rops) ==
    [i \in DOMAIN path |-> Open(path[i], IF i = 1 THEN "logon" ELSE path[i - 1])]
        \o rops \o [i \in DOMAIN path |-> Release(Reverse(path)[i])]

OneRop(op, target) == Around(Path[target], IF op = "open" THEN <<>> ELSE <<Rop(op, target)>>)

\* delete_messages, move_or_copy and set_read
DeleteMessages == OneRop("delete_messages", "folder")
SetRead == OneRop("set_read_flags", "folder")
MoveOrCopy(op) ==
    <<Open("folder", "logon"), Open("to", "logon"), Rop(op, "folder"), Release("folder"), Release("to")>>

\* MessageUpdate::save.  The properties are always written, though there be none.
Update(changes, submit) ==
    LET ops == Among(<<"set", "delete", "clear", "add", "save", "submit">>,
                     changes \cup {"set", "save"} \cup IF submit THEN {"submit"} ELSE {})
    IN  Around(Path.message, [i \in DOMAIN ops |-> Rop(ops[i], "message")])

\* Message::send
Send == OneRop("submit", "message")

\* The Inbox's properties, and the conversions of those that hold an entry id.
Pending == Among(Specials, {f \in ToSet(Specials) : specials[f] = "entry_id"})
Conversions == [i \in DOMAIN Pending |-> [op |-> "convert", on |-> "logon", of |-> Pending[i]]]

PropertyIds(wanted, create) == <<[op |-> "names", on |-> "logon", wanted |-> wanted, create |-> create]>>

AskedFirst ==
    CASE call.kind = "delete" -> DeleteMessages
      [] call.kind = "read" -> SetRead
      [] call.kind \in {"move", "copy"} -> MoveOrCopy(call.kind)
      [] call.kind = "update" -> Update(call.changes, call.submit)
      [] call.kind = "send" -> Send
      [] call.kind \in {"resolve", "register"} -> PropertyIds(call.wanted, call.kind = "register")
      [] OTHER -> OneRop(call.kind, call.target)

Asked == IF trip = "second" THEN Conversions ELSE AskedFirst

-----------------------------------------------------------------------------
(* A server that runs a batch *)

Running == [store |-> store, registered |-> registered, held |-> {"logon"}, edit |-> {}, out |-> <<>>,
            refused |-> FALSE, roomless |-> FALSE, refusals |-> {}]

Said(run, rop, how) == [run EXCEPT !.out = Append(@, [op |-> rop.op, how |-> how])]

\* A list of messages: some of them are done, and a flag says whether some are not.  A server may also
\* run it on its own schedule, which the request said it must not.
Handled(box, op, done) ==
    LET If(ops) == IF op \in ops THEN done ELSE {}
    IN  [box EXCEPT !.here = @ \ If({"delete_messages", "move"}),
                    !.there = @ \cup If({"move", "copy"}),
                    !.read = @ \cup If({"set_read_flags"})]

DoneTo(run, rop, done, how) == [Said(run, rop, how) EXCEPT !.store = Handled(@, rop.op, done)]

OverMessages(run, rop) ==
    LET Says(done) == {IF done = Messages THEN "ok" ELSE "partial"}
                        \cup IF rop.op = "delete_messages" THEN {} ELSE {"progress"}
    IN  UNION {{DoneTo(run, rop, done, how) : how \in Says(done)} : done \in SUBSET run.store.here}

\* Properties are refused one by one, in a report that comes with a success.
Change(run, rop) ==
    {[Said(run, rop, "ok") EXCEPT !.edit = @ \cup {rop.op}]}
        \cup IF rop.op \notin {"set", "delete"} THEN {}
             ELSE {[Said(run, rop, "problems") EXCEPT !.refusals = @ \cup {rop.op}]}

\* Names are registered, unless the store is full or the user may not.  A server may answer short.
Mapped(run, rop, new, n) ==
    LET known == run.registered \cup new
        ids == [i \in 1..n |-> IF rop.wanted[i] \in known THEN rop.wanted[i] ELSE "zero"]
    IN  [run EXCEPT !.registered = known, !.out = Append(@, [op |-> "names", how |-> "ok", ids |-> ids])]

Identify(run, rop) ==
    {Mapped(run, rop, new, n) :
        new \in IF rop.create THEN SUBSET (ToSet(rop.wanted) \ run.registered) ELSE {{}},
        n \in {Len(rop.wanted), Len(rop.wanted) - 1}}

Succeeds(run, rop) ==
    CASE rop.op = "open" ->
           {[run EXCEPT !.held = @ \cup {rop.makes},
                        !.edit = IF rop.makes = "message" THEN run.store.item ELSE @]}
      [] rop.op \in {"delete_messages", "move", "copy", "set_read_flags"} -> OverMessages(run, rop)
      [] rop.op \in {"set", "delete", "clear", "add"} -> Change(run, rop)
      [] rop.op = "save" -> {[run EXCEPT !.store.item = run.edit]}
      [] rop.op = "submit" -> {[run EXCEPT !.store.posted = run.store.item]}
      [] rop.op = "names" -> Identify(run, rop)
      [] rop.op = "convert" ->
           {[run EXCEPT !.out = Append(@, [op |-> "convert", how |-> "ok", folder |-> rop.of])]}
      [] OTHER -> {run}

\* What a ROP needs to be in the batch's slots.
Needs(rop) == {rop.on} \cup IF rop.op \in {"move", "copy"} THEN {"to"} ELSE {}

\* What is asked past a refusal, and answered in its place: only conversions.
Fails(run, rop, how) ==
    IF rop.op = "convert" THEN Said(run, rop, how) ELSE [run EXCEPT !.refused = TRUE]

\* A ROP is done, refused, put off, or found to have no room for its answer, which ends the batch.  A
\* release has no answer.
RunRop(run, rop) ==
    IF run.roomless THEN {run}
    ELSE IF rop.op = "release" THEN {[run EXCEPT !.held = @ \ {rop.on}]}
    ELSE {Fails(run, rop, "refused"), Fails(run, rop, "backoff"),
          [Fails(run, rop, "no_room") EXCEPT !.roomless = TRUE]}
            \cup (IF Needs(rop) \subseteq run.held THEN Succeeds(run, rop) ELSE {})

\* How a batch may go, ROP by ROP.
RunBatch(batch) ==
    LET after[n \in 0..Len(batch)] ==
            IF n = 0 THEN {Running} ELSE UNION {RunRop(run, batch[n]) : run \in after[n - 1]}
    IN  after[Len(batch)]

\* The batch is of a set of one for TLC, which then builds it once.
Runs == UNION {RunBatch(batch) : batch \in {Asked}}

\* What became of a batch that failed is asked by nobody.
NotLookedAt == Mailbox(Unread)

\* What a batch does to the server, whatever becomes of its answer.
Effect(run) ==
    /\ registered' = run.registered
    /\ left' = run.held \ {"logon"}
    /\ refusals' = run.refusals
    /\ roomless' = run.roomless

-----------------------------------------------------------------------------
(* NamedProperties *)

\* NamedPropertyEntry: a name, and the store's id for it or that it has none.
Entry(name, id) == [name |-> name, id |-> id]

\* get, of some entries: the first entry of the name decides.
Get(entries, n) ==
    LET of == Among(entries, {e \in ToSet(entries) : e.name = n})
    IN  IF of = <<>> THEN "unasked" ELSE of[1].id

\* wanted: in the order given, without repeats.
Wanted(asked, ids) ==
    LET first == {i \in DOMAIN asked : \A j \in 1..(i - 1) : asked[j] # asked[i]}
        places == Among([i \in DOMAIN asked |-> i], {i \in first : Get(names, asked[i]) \in ids})
    IN  [k \in DOMAIN places |-> asked[places[k]]]

Missing(asked) == Wanted(asked, {"unasked"})
Unregistered(asked) == Wanted(asked, {"unasked", "zero"})

ForgetNothing(wanted) == names          \* mutant: a name the store would not map stays as it was

Forget(wanted) == Among(names, {e \in ToSet(names) : e.name \notin ToSet(wanted)})

\* absorb: a name beyond the answers is not mapped.
AbsorbNames(wanted, ids) ==
    names \o [i \in DOMAIN wanted |-> Entry(wanted[i], IF i \in DOMAIN ids THEN ids[i] ELSE "zero")]

-----------------------------------------------------------------------------
(* A call *)

Finish(how) == trip' = "done" /\ result' = how

\* The batch is posted, if the connection takes one.
Post(c) ==
    /\ call' = c
    /\ IF usable THEN trip' = "first" /\ result' = "none" ELSE Finish("failed")
    /\ UNCHANGED <<told, specials, usable, registered, left, historyVars>>

Call(c) == trip = "idle" /\ Post(c) /\ UNCHANGED <<names, store>>

OverList(kind) == Call([kind |-> kind])

UpdateMessage == \E changes \in SUBSET {"delete", "clear", "add"}, submit \in BOOLEAN :
    Call([kind |-> "update", changes |-> changes, submit |-> submit])

SendMessage == Call([kind |-> "send"])

\* read, read_all, write and delete
AskProperties ==
    \E kind \in {"get", "set_properties", "delete_properties"},
       target \in {"logon", "folder", "message", "attachment", "embedded"} :
      Call([kind |-> kind, target |-> target])

OpenObject == \E target \in {"message", "embedded"} : Call([kind |-> "open", target |-> target])

\* short_term_id and long_term_id
ConvertId ==
    \E kind \in {"from_long_term_id", "to_long_term_id"} : Call([kind |-> kind, target |-> "logon"])

NamesOf == Call([kind |-> "names_of", target |-> "logon"])

\* special_folders, of a mailbox whose Inbox says anything of each.
ResolveSpecialFolders ==
    /\ trip = "idle" /\ Post([kind |-> "special_folders", target |-> "folder"])
    /\ \E inbox \in [ToSet(Specials) -> {"entry_id", "absent", "refused", "unreadable"}] :
         store' = Mailbox(inbox)
    /\ UNCHANGED names

\* resolve_names and register_names.  What is known already is not asked; what is to be registered is
\* forgotten first.
AskNames(kind, wanted) ==
    /\ trip = "idle" \/ (trip = "done" /\ call.kind \in {"resolve", "register"})
    /\ names' = IF kind = "register" THEN Forget(wanted) ELSE names
    /\ UNCHANGED store
    /\ IF wanted # <<>> THEN Post([kind |-> kind, wanted |-> wanted])
       ELSE /\ call' = [kind |-> kind, wanted |-> wanted]
            /\ Finish("ok")
            /\ UNCHANGED <<told, specials, usable, registered, left, historyVars>>

ResolveNames(asked) == AskNames("resolve", Missing(asked))
RegisterNames(asked) == AskNames("register", Unregistered(asked))

Begin ==
    \/ \E kind \in {"delete", "read", "move", "copy"} : OverList(kind)
    \/ UpdateMessage \/ SendMessage \/ AskProperties \/ OpenObject \/ ConvertId \/ NamesOf
    \/ ResolveSpecialFolders
    \/ \E asked \in Lists : ResolveNames(asked) \/ RegisterNames(asked)

\* The call returned, and what is said of it has been said.
Renew ==
    /\ trip = "done"
    /\ call' = NoCall /\ trip' = "idle" /\ result' = "none" /\ told' = {} /\ specials' = Unread
    /\ names' = <<>> /\ store' = Mailbox(Unread) /\ registered' = {} /\ left' = {}
    /\ refusals' = {} /\ learnt' = {} /\ roomless' = FALSE

-----------------------------------------------------------------------------
(* What the answer comes to *)

\* mutant: the ROP succeeded, so it was all done
ListDoneWhole(out) == Finish("ok") /\ UNCHANGED <<told, specials, names, learnt>>

\* delete_messages, and complete.
ListDone(out) ==
    LET last == out[Len(out)].how
    IN  Finish(IF last = "progress" THEN "failed" ELSE last) /\ UNCHANGED <<told, specials, names, learnt>>

\* The first report there is.
Problems(out) ==
    LET reports == Among(out, {o \in ToSet(out) : o.op \in {"set", "delete"}})
    IN  IF reports[1].how = "problems" THEN {reports[1].op} ELSE {}

UpdateDone(out) ==
    /\ told' = Problems(out)
    /\ Finish("ok")
    /\ UNCHANGED <<specials, names, learnt>>

\* classify, and whether there is anything to convert.
InboxRead ==
    /\ specials' = store.inbox
    /\ IF \E f \in DOMAIN specials : store.inbox[f] = "entry_id" THEN trip' = "second" /\ UNCHANGED result
       ELSE Finish("ok")
    /\ UNCHANGED <<told, names, learnt>>

\* The answers to conversions, in their order.
Answers(out) == Among(out, {o \in ToSet(out) : o.how \in {"ok", "refused"}})

\* convert: each answer is the next pending folder's.
Converted(out) ==
    LET state(f) == LET a == Answers(out)[CHOOSE i \in DOMAIN Pending : Pending[i] = f]
                    IN  IF a.how = "ok" THEN a.folder ELSE "refused"
    IN  IF Len(Answers(out)) < Len(Pending) THEN Finish("failed") /\ UNCHANGED <<told, specials, names, learnt>>
        ELSE /\ specials' = [f \in DOMAIN specials |-> IF f \in ToSet(Pending) THEN state(f) ELSE specials[f]]
             /\ Finish("ok")
             /\ UNCHANGED <<told, names, learnt>>

NamesGot(ids) ==
    /\ names' = AbsorbNames(call.wanted, ids)
    /\ learnt' = learnt \cup (ToSet(ids) \ {"zero"})
    /\ Finish("ok")
    /\ UNCHANGED <<told, specials>>

\* Connection::execute: any refusal is the call's.
Absorb(run) ==
    \/ trip = "second" /\ Converted(run.out)
    \/ trip = "first" /\ run.refused /\ Finish("refused") /\ UNCHANGED <<told, specials, names, learnt>>
    \/ /\ trip = "first" /\ ~run.refused
       /\ \/ call.kind \in {"delete", "read", "move", "copy"} /\ ListDone(run.out)
          \/ call.kind = "update" /\ UpdateDone(run.out)
          \/ call.kind = "special_folders" /\ InboxRead
          \/ call.kind \in {"resolve", "register"} /\ NamesGot(run.out[1].ids)
          \/ /\ call.kind \notin {"delete", "read", "move", "copy", "update", "special_folders",
                                 "resolve", "register"}
             /\ Finish("ok") /\ UNCHANGED <<told, specials, names, learnt>>

Waiting == trip \in {"first", "second"}

Answered ==
    /\ Waiting
    /\ \E run \in Runs :
         /\ Effect(run)
         /\ Absorb(run)
         /\ store' = IF result' \in {"ok", "partial", "none"} THEN run.store ELSE NotLookedAt
    /\ UNCHANGED <<call, usable>>

\* The server ran it and its reply could not be read.
Unreadable ==
    /\ Waiting
    /\ \E run \in Runs : Effect(run)
    /\ Finish("failed") /\ store' = NotLookedAt
    /\ UNCHANGED <<call, told, specials, names, usable, learnt>>

\* The round trip fails, or the caller drops it.  The server may run it all the same.
Gone(how) ==
    /\ Waiting
    /\ (UNCHANGED <<registered, left, refusals, roomless>> \/ \E run \in Runs : Effect(run))
    /\ Finish(how) /\ store' = NotLookedAt
    /\ usable' = FALSE
    /\ UNCHANGED <<call, told, specials, names, learnt>>

Lost == Gone("failed")
Cancel == Gone("cancelled")

\* Another client registers a name.
OtherRegisters ==
    /\ trip = "done" /\ call.kind \in {"resolve", "register"}
    /\ \E n \in Names : registered' = registered \cup {n}
    /\ UNCHANGED <<clientVars, usable, store, left, historyVars>>

Progress == Answered \/ Unreadable \/ Lost

Next == Begin \/ Progress \/ Cancel \/ OtherRegisters

Spec == Init /\ [][Next]_vars

-----------------------------------------------------------------------------
(* Properties *)

\* A caller told that a list of messages was all deleted, moved, copied or marked is told the truth,
\* though the ROP succeeds whether or not it was (folder.rs:123-126, 357-362); one told that a
\* message was updated has every change in the store that it was not told, or at least that the server
\* did not report, as refused, and what was sent is what is in the store (message.rs:365-368).
ObjectsAreAsTold ==
    (trip = "done" /\ result = "ok") =>
        /\ call.kind \in {"delete", "move"} => store.here = {}
        /\ call.kind \in {"move", "copy"} => store.there = Messages
        /\ call.kind = "read" => store.read = Messages
        /\ call.kind = "update" =>
              /\ store.item = (call.changes \cup {"set"}) \ refusals
              /\ call.submit => store.posted = store.item
              /\ told \subseteq refusals /\ ("set" \in refusals => "set" \in told)
        /\ call.kind = "send" => store.posted = store.item

\* Each special folder is reported as what its own entry id, and the answer to its own conversion,
\* came to, whichever others were refused (logon.rs:284-288).
SpecialFoldersAreTheirOwn ==
    (trip = "done" /\ call.kind = "special_folders" /\ result = "ok") =>
        \A f \in ToSet(Specials) :
            specials[f] \in IF store.inbox[f] = "entry_id" THEN {f, "refused"} ELSE {store.inbox[f]}

\* A name is never given another's id, however short the store answers; an id the client was told is
\* found under its name from then on, though the store had refused it one before
\* (named.rs, absorb and forget).
NamesAreTheStores ==
    /\ \A i \in DOMAIN names : names[i].id \in {names[i].name, "zero"}
    /\ \A n \in learnt : Get(names, n) = n

\* Every batch releases what it opened, whatever was refused on the way, unless it ran out of room.
GivesBack == left = {} \/ roomless

=============================================================================
