------------------------------ MODULE Scenario ------------------------------
(***************************************************************************)
(* The conversations that become fixtures: crates/mapi-cli/src/scenario.rs *)
(* and scenario/session.rs, items.rs, writes.rs and acts.rs, as a program  *)
(* that calls the client, one step a call, against a mailbox that keeps    *)
(* what it leaves behind from one run to the next.                         *)
(*                                                                         *)
(* A call is one exchange, or none when the connection is lost before its  *)
(* answer is in: the round trips of one call share its label and its fate. *)
(* Of the mailbox only the messages these conversations write are kept, by *)
(* the conversation whose subject they carry.                              *)
(***************************************************************************)
EXTENDS Naturals, Sequences, SequencesExt

CONSTANT None       \* no message

VARIABLES
    doing,      \* the conversation
    place,      \* the next step of its script
    own,        \* the message its save was told of
    found,      \* what the sweep found in the folder it is at
    outcome,    \* "fine", or "failed" once a step before the cleanup has failed
    swept,      \* the same of the cleanup
    alive,      \* whether the connection can still be used
    ended,      \* "no", "ok" or "failed"
    told,       \* the exchanges the recorder has seen
    assigned,   \* what the conversation said the server minted
    \* the server
    mailbox,    \* the messages in each folder
    minted      \* how many identifiers it has given out

programVars == <<doing, place, own, found, outcome, swept, alive, ended, assigned>>
serverVars == <<mailbox, minted>>
scenarioVars == <<programVars, told, serverVars>>

Conversations == {"session", "items", "writes", "acts", "connect-refused", "wrong-server"}
Folders == {"drafts", "deleted"}

-----------------------------------------------------------------------------
(* The scripts.  A step is the part of the conversation it belongs to, the *)
(* call it makes, the label it is recorded under and whether the answer is *)
(* looked at before the conversation goes on.  A failure in "plain" ends   *)
(* the conversation there; one in "guarded" goes to the cleanup.           *)

Step(part, call, label, needs) ==
    [part |-> part, call |-> call, label |-> label, needs |-> needs, folder |-> "drafts"]
Read(label) == Step("plain", "read", label, FALSE)
Look(label) == Step("plain", "read", label, TRUE)
Guarded(call, label, needs) == Step("guarded", call, label, needs)
Clean(call, label) == Step("clean", call, label, FALSE)

Connect == Step("plain", "connect", "", FALSE)
Logon(needs) == Step("plain", "logon", "logon", needs)
Disconnect == Step("last", "disconnect", "", FALSE)

StoreObject == <<Step("plain", "measure", "properties", FALSE), Look("properties-refused")>>

NamedProperties ==
    <<Look("named-properties"), Look("named-property-unregistered"), Look("named-properties-inverse")>>

Hierarchy ==
    <<Read("hierarchy"), Read("hierarchy-release"), Read("hierarchy-deep"), Read("hierarchy-deep-release")>>

SpecialFolders == <<Look("special-folders"), Read("folder-properties")>>

SessionScript ==
    <<Step("plain", "ping", "", FALSE), Connect, Logon(TRUE)>>
    \o StoreObject \o NamedProperties \o Hierarchy \o SpecialFolders
    \o <<Read("contents"), Read("contents-release"), Disconnect>>

\* What is missing from a listing is said once its table has been released.
Calendar ==
    <<Look("calendar-folder"), Look("appointment-names"), Read("events"), Look("events-release")>>

Contacts ==
    <<Look("contacts-folder"), Look("contact-names"), Read("contacts"), Look("contacts-release")>>

FindMessage == <<Read("filtered-contents"), Look("filtered-contents-release")>>

OpenMessage == <<Read("open-message"), Read("message-properties")>>

Attachments ==
    <<Read("attachment-table"), Look("attachment-table-release"),
      Read("attachment-content"), Look("embedded-message")>>

Body == <<Look("body-stream")>>

ItemsScript ==
    <<Connect, Logon(TRUE)>>
    \o Calendar \o Contacts \o FindMessage \o OpenMessage \o Attachments \o Body \o <<Disconnect>>

ReadBack ==
    <<Guarded("use", "read-draft", TRUE), Guarded("use", "draft-properties", TRUE),
      Guarded("use", "attachment-table", TRUE), Guarded("use", "attachment-content", TRUE)>>

\* The attachment's number is looked at as soon as the draft is saved, outside the guarded part.
WritesScript ==
    <<Connect, Logon(FALSE), Look("drafts-folder"), Step("plain", "create", "create-draft", TRUE)>>
    \o ReadBack \o <<Clean("delete", "delete-draft"), Disconnect>>

SweepOf(folders) ==
    FoldLeft(LAMBDA steps, folder : steps \o
        <<[Clean("find", "delete-leftovers") EXCEPT !.folder = folder],
          [Clean("take", "delete-leftovers") EXCEPT !.folder = folder]>>, <<>>, folders)

SweepDraftsOnly == SweepOf(<<"drafts">>)    \* mutant: the message is looked for where it was made

\* Both folders: where the message is depends on how far the run got.
Sweep == SweepOf(<<"deleted", "drafts">>)

SubmitRefused ==
    <<Guarded("use", "remove-recipients", FALSE), Guarded("submit", "submit-refused", FALSE)>>

Act ==
    <<Guarded("use", "replace-recipients", FALSE), Guarded("use", "read-recipients", TRUE),
      Guarded("mark", "mark-read", FALSE), Guarded("mark", "mark-unread", FALSE)>>
    \o SubmitRefused
    \o <<Guarded("move", "move-message", FALSE), Guarded("locate", "find-moved-message", FALSE)>>

ActsScript ==
    <<Connect, Logon(TRUE), Look("drafts-folder"), Step("plain", "create", "create-message", FALSE)>>
    \o Act \o Sweep \o <<Disconnect>>

\* What the server refuses is what these two are for: the last step is to fail.
RefusedScript == <<[Connect EXCEPT !.part = "refusal"], Disconnect>>
WrongServerScript ==
    <<Connect, [Logon(FALSE) EXCEPT !.part = "refusal", !.label = "logon-redirect"], Disconnect>>

Script(conversation) ==
    CASE conversation = "session" -> SessionScript
      [] conversation = "items" -> ItemsScript
      [] conversation = "writes" -> WritesScript
      [] conversation = "acts" -> ActsScript
      [] conversation = "connect-refused" -> RefusedScript
      [] conversation = "wrong-server" -> WrongServerScript

\* The steps that are about one special folder and are answered for every one of them.
FolderSteps == {"special-folders", "calendar-folder", "contacts-folder", "drafts-folder"}
CreateSteps == {"create-draft", "create-message"}

Now == Script(doing)[place]
Talking == ended = "no" /\ doing \in Conversations

\* The first step of the cleanup, and the last step.
FirstOf(part) == SelectInSeq(Script(doing), LAMBDA step : step.part = part)

-----------------------------------------------------------------------------
(* How a conversation goes on.  Each constrains place, outcome, swept and   *)
(* ended.                                                                  *)

End(result) == ended' = result /\ UNCHANGED <<place, outcome, swept>>

OfTheCleanup == swept       \* mutant: what failed before the cleanup is forgotten

Verdict == IF outcome = "failed" \/ swept = "failed" THEN "failed" ELSE "fine"

\* To the next step.  The last one gives what the guarded part and the cleanup came to, and an
\* answer to what should have been refused ends in a failure once the session is torn down.
GoOn ==
    CASE Now.part = "last" ->
            End(IF Verdict = "failed" THEN "failed" ELSE "ok")
      [] Now.part = "refusal" ->
            place' = FirstOf("last") /\ outcome' = "failed" /\ UNCHANGED <<swept, ended>>
      [] OTHER -> place' = place + 1 /\ UNCHANGED <<outcome, swept, ended>>

\* A step has failed.  In the cleanup `?` leaves the rest of it out, but not the Disconnect.
GiveUp ==
    CASE Now.part = "plain" -> End("failed")
      [] Now.part = "last" -> End("failed")
      [] Now.part = "refusal" -> End("ok")
      [] Now.part = "guarded" ->
            place' = FirstOf("clean") /\ outcome' = "failed" /\ UNCHANGED <<swept, ended>>
      [] Now.part = "clean" ->
            place' = FirstOf("last") /\ swept' = "failed" /\ UNCHANGED <<outcome, ended>>

\* What a call that is served may still be refused: the conversion of a special folder, the one the
\* step is for or another (execute_allowing_refusals), or a property that is written.  A refused
\* "call" is none of these: see Refused.
PartRefused(step) ==
    {"nothing"}
    \cup (IF step.label \in FolderSteps THEN {"needed", "others"} ELSE {})
    \cup (IF step.label \in {"properties-refused"} \cup CreateSteps THEN {"property"} ELSE {})

\* What the conversation goes on with: without the folder it is for it cannot, and the one property
\* that is written to be refused has to be.
Accepted(step) ==
    IF step.label = "properties-refused" THEN {"property"} ELSE PartRefused(step) \ {"needed"}

\* What the recorder sees of an exchange: the identifiers in its request, those in its response,
\* and what the server refused of it.
Exchange(call, asks, tells, refused) ==
    [call |-> call, label |-> Now.label, asks |-> asks, tells |-> tells, refused |-> refused]

Observed(asks, tells, refused) == told' = Append(told, Exchange(Now.call, asks, tells, refused))
Observe(asks, tells) == Observed(asks, tells, "nothing")

Declare(what, identifier) ==
    assigned' = Append(assigned, [what |-> what, value |-> identifier])

Unmoved == UNCHANGED <<mailbox, minted>>
ForgetNothing == UNCHANGED <<doing, own, found>>

-----------------------------------------------------------------------------
(* What the server does with a call that it serves.                        *)

Message(identifier) == [id |-> identifier, by |-> doing]
Named(folder, identifier) == {m \in mailbox[folder] : m.id = identifier}

\* RopSaveChangesMessage mints an identifier.
Create ==
    /\ minted' = minted + 1
    /\ mailbox' = [mailbox EXCEPT !["drafts"] = @ \cup {Message(minted + 1)}]

\* A message that is moved is given another identifier; none of this depends on its being so.
Move(identifier, renamed) ==
    /\ minted' = IF renamed THEN minted + 1 ELSE minted
    /\ mailbox' = [mailbox EXCEPT
         !["drafts"] = @ \ Named("drafts", identifier),
         !["deleted"] = @ \cup {[m EXCEPT !.id = IF renamed THEN minted + 1 ELSE @] :
                                 m \in Named("drafts", identifier)}]

TakeOut(folder, identifier) ==
    /\ mailbox' = [mailbox EXCEPT ![folder] = @ \ Named(folder, identifier)]
    /\ UNCHANGED minted

\* The identifiers a listing of a folder carries: of this conversation's subject.
Listed(folder) == {m.id : m \in {n \in mailbox[folder] : n.by = doing}}

\* What the call does to the mailbox, whoever hears of it.
Effect ==
    CASE Now.call = "create" -> Create
      [] Now.call = "move" -> \E renamed \in BOOLEAN : Move(own, renamed)
      [] Now.call = "delete" -> TakeOut("drafts", own)
      [] Now.call = "submit" -> TakeOut("drafts", own)
      [] Now.call = "take" -> TakeOut(Now.folder, found)
      [] OTHER -> Unmoved

-----------------------------------------------------------------------------
(* The calls, served.                                                      *)

Served(call) == Talking /\ alive /\ Now.call = call

\* A call about nothing that was minted.
Plain ==
    /\ Talking /\ alive /\ Now.call \in {"ping", "connect", "logon", "read", "disconnect"}
    /\ \E refused \in PartRefused(Now) :
         /\ Observed(<<>>, <<>>, refused)
         /\ \/ refused \in Accepted(Now) /\ GoOn
            \/ Now.needs /\ GiveUp
    /\ UNCHANGED <<alive, assigned>> /\ ForgetNothing /\ Unmoved

\* The mailbox's size is a number of the moment: declared if the server gives it.
Measure ==
    /\ Served("measure")
    /\ minted' = minted + 1
    /\ \/ Observe(<<>>, <<minted + 1>>) /\ Declare("size", minted + 1)
       \/ Observe(<<>>, <<>>) /\ UNCHANGED assigned
    /\ GoOn
    /\ UNCHANGED <<alive, mailbox>> /\ ForgetNothing

\* The identifier is declared before anything of the answer is looked at, and a property that was
\* refused is printed at most.
Save ==
    /\ Served("create")
    /\ Create
    /\ \E refused \in Accepted(Now) : Observed(<<>>, <<minted + 1>>, refused)
    /\ own' = minted + 1
    /\ Declare("saved", minted + 1)
    /\ GoOn \/ (Now.needs /\ GiveUp)
    /\ UNCHANGED <<doing, found, alive>>

\* A read or an update of the message, by its identifier, which a save tells again.
Use ==
    /\ Served("use")
    /\ Observe(<<own>>, <<own>>)
    /\ GoOn \/ (Now.needs /\ GiveUp)
    /\ UNCHANGED <<alive, assigned>> /\ ForgetNothing /\ Unmoved

\* Marked, or reported as partly done.
Mark ==
    /\ Served("mark")
    /\ Observe(<<own>>, <<>>)
    /\ GoOn \/ GiveUp
    /\ UNCHANGED <<alive, assigned>> /\ ForgetNothing /\ Unmoved

\* A message without recipients is sent after all, and is not in the folder any more.
Submitted ==
    /\ Served("submit")
    /\ Observe(<<own>>, <<>>)
    /\ TakeOut("drafts", own)
    /\ GiveUp
    /\ UNCHANGED <<alive, assigned>> /\ ForgetNothing

\* Moved, and said to be or not, or left where it was.
MoveMessage ==
    /\ Served("move")
    /\ Observe(<<own>>, <<>>)
    /\ \/ (\E renamed \in BOOLEAN : Move(own, renamed)) /\ (GoOn \/ GiveUp)
       \/ Unmoved /\ GiveUp
    /\ UNCHANGED <<alive, assigned>> /\ ForgetNothing

\* The destination is listed, and the first message with the subject taken for the one that moved:
\* there must be one, and under another name.
Locate ==
    /\ Served("locate")
    /\ Observe(<<>>, SetToSeq(Listed("deleted")))
    /\ \/ /\ Listed("deleted") = {}
          /\ GiveUp
          /\ UNCHANGED assigned
       \/ \E identifier \in Listed("deleted") :
            /\ Declare("moved", identifier)
            /\ IF identifier = own THEN GiveUp ELSE GoOn
    /\ UNCHANGED <<doing, own, found, alive>> /\ Unmoved

DeleteDraft ==
    /\ Served("delete")
    /\ Observe(<<own>>, <<>>)
    /\ place' = place + 1
    /\ \/ TakeOut("drafts", own) /\ UNCHANGED swept
       \/ Unmoved /\ swept' = "failed"
    /\ UNCHANGED <<alive, assigned, outcome, ended>> /\ ForgetNothing

\* The sweep lists a folder; with nothing of its subject there it goes on to the next.
SweepFind ==
    /\ Served("find")
    /\ Observe(<<>>, SetToSeq(Listed(Now.folder)))
    /\ \/ /\ Listed(Now.folder) = {}
          /\ found' = None
          /\ place' = place + 2
       \/ \E identifier \in Listed(Now.folder) :
            /\ found' = identifier
            /\ place' = place + 1
    /\ UNCHANGED <<doing, own, outcome, swept, alive, ended, assigned>> /\ Unmoved

\* A delete that is reported as partly done is remembered, and the other folder still tried.
SweepTake ==
    /\ Served("take")
    /\ Observe(<<found>>, <<>>)
    /\ place' = place + 1
    /\ \/ TakeOut(Now.folder, found) /\ UNCHANGED swept
       \/ Unmoved /\ swept' = "failed"
    /\ UNCHANGED <<alive, assigned, outcome, ended>> /\ ForgetNothing

\* The server refuses the call, which fails of it.  Of a submit that is what is wanted, if it is for
\* want of recipients.
\* A connection whose logon is refused is torn down by the client, under the label of the logon.
Refused ==
    /\ Talking /\ alive
    /\ told' = told
         \o <<Exchange(Now.call, IF Now.call \in {"use", "mark", "submit", "move", "delete"}
                                   THEN <<own>> ELSE <<>>, <<>>, "call")>>
         \o IF Now.call = "logon" THEN <<Exchange("disconnect", <<>>, <<>>, "nothing")>> ELSE <<>>
    /\ IF Now.call = "submit" THEN GoOn \/ GiveUp ELSE GiveUp
    /\ UNCHANGED <<alive, assigned>> /\ ForgetNothing /\ Unmoved

\* The connection is lost, before the server had the request or after, and with it every call
\* after this one.
Lost ==
    /\ Talking /\ alive
    /\ alive' = FALSE
    /\ Effect \/ Unmoved
    /\ GiveUp
    /\ UNCHANGED <<told, assigned>> /\ ForgetNothing

\* A call on a connection that cannot be used fails before anything is sent.
Unusable ==
    /\ Talking /\ ~alive
    /\ GiveUp
    /\ UNCHANGED <<told, alive, assigned>> /\ ForgetNothing /\ Unmoved

Talk ==
    \/ Plain \/ Measure \/ Save \/ Use \/ Mark \/ Submitted \/ MoveMessage \/ Locate
    \/ DeleteDraft \/ SweepFind \/ SweepTake \/ Refused \/ Lost \/ Unusable

-----------------------------------------------------------------------------
StartOver(conversation) ==
    /\ doing' = conversation /\ place' = 1
    /\ own' = None /\ found' = None
    /\ outcome' = "fine" /\ swept' = "fine" /\ alive' = TRUE /\ ended' = "no"
    /\ told' = <<>> /\ assigned' = <<>>

=============================================================================
