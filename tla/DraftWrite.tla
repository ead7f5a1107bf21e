----------------------------- MODULE DraftWrite -----------------------------
(***************************************************************************)
(* Creating, saving and sending one item: crates/mapi-client/src/draft.rs  *)
(* and draft/attachment.rs, against a server that works through a batch in *)
(* order and does not stop at the first refusal (draft.rs:311-314).        *)
(*                                                                         *)
(* What is at stake is that nothing half written is saved, that a refusal  *)
(* leaves the mailbox as it was, and that each handle is given back once.  *)
(*                                                                         *)
(* Abstractions.  Content is counted in chunks.  A handle is named for     *)
(* what it opens.  Properties and recipients are one ROP each, which the   *)
(* server takes or refuses; problems with single properties are left out.  *)
(***************************************************************************)
EXTENDS MailboxConstants, FiniteSets

VARIABLES
    stage,
    at,         \* the attachment being written
    chunk,      \* how many of its chunks have been sent
    filled,     \* whether all of it was written, as fill found
    outcome,     \* what the caller is given
    submit,     \* NewMessage::submit: whether the item is to be sent as well
    usable,     \* whether the connection is
    \* the server
    handles,    \* what it holds open for this item
    content,    \* how many whole chunks the open stream holds
    attached,   \* the attachments saved into the message: which, and whether with all their content
    stored,     \* the item in the mailbox: none, or with which attachments
    sent,       \* what was handed to the transport
    \* history
    cut,        \* whether a batch that opens handles was refused after it had opened some
    stray       \* whether a handle was released that was not open

clientVars  == <<stage, at, chunk, filled, outcome, submit, usable>>
serverVars  == <<handles, content, attached, stored, sent>>
historyVars == <<cut, stray>>
vars == <<clientVars, serverVars, historyVars>>

Absent == {[n |-> 0, whole |-> FALSE]}      \* no item in the mailbox

Init ==
    /\ stage = "create" /\ at = 1 /\ chunk = 0 /\ filled = TRUE /\ outcome = "none"
    /\ submit \in BOOLEAN /\ usable \in BOOLEAN
    /\ handles = {} /\ content = 0 /\ attached = {} /\ stored = Absent /\ sent = "none"
    /\ cut = FALSE /\ stray = FALSE

\* The caller's next item, to be sent or not.
Renew(send) ==
    /\ stage \in {"create", "done"}
    /\ stage' = "create" /\ at' = 1 /\ chunk' = 0 /\ filled' = TRUE /\ outcome' = "none"
    /\ submit' = send
    /\ handles' = {} /\ content' = 0 /\ attached' = {} /\ stored' = Absent /\ sent' = "none"
    /\ cut' = FALSE /\ stray' = FALSE

Finish(what) == stage' = "done" /\ outcome' = what

\* The server releases these handles.
Released(given) ==
    /\ handles' = handles \ given
    /\ stray' = (stray \/ ~(given \subseteq handles))

AllOf(number, whole) == [n |-> number, whole |-> whole]
WholeItem == {AllOf(n, TRUE) : n \in DOMAIN Chunks}

-----------------------------------------------------------------------------
(* NewMessage::write *)

\* The message, its properties and its recipients: any of them may be refused, the rest still run.
CreateMessage ==
    /\ stage = "create" /\ usable
    /\ \/ /\ handles' = {"message"}
          /\ stage' = IF Chunks = <<>> THEN "commit" ELSE "attach"
          /\ UNCHANGED <<outcome, cut>>
       \/ /\ handles' \in {{}, {"message"}}
          /\ cut' = (handles' # {})
          /\ Finish("refused")
    /\ UNCHANGED <<at, chunk, filled, submit, usable, content, attached, stored, sent, stray>>

\* The connection was lost to an earlier call: nothing is sent.
CreateUnsent ==
    /\ stage = "create" /\ ~usable
    /\ Finish("failed")
    /\ UNCHANGED <<at, chunk, filled, submit, usable, serverVars, historyVars>>

\* NewAttachment::write's first batch: the attachment, its stream, its first chunk, of which the
\* server may write less than it was sent.
CreateAttachment ==
    /\ stage = "attach"
    /\ chunk' = 1
    /\ handles' = {"message", "attachment", "stream"}
    /\ \/ content' = 1 /\ filled' = TRUE
       \/ content' = 0 /\ filled' = FALSE
    /\ stage' = IF filled' /\ Chunks[at] > 1 THEN "fill" ELSE "finish"
    /\ UNCHANGED <<at, outcome, submit, usable, attached, stored, sent, historyVars>>

\* Some of it refused: the message is given back, and what was opened beside it is not known.
AttachmentRefused ==
    /\ stage = "attach"
    /\ \E more \in {{}, {"attachment"}, {"attachment", "stream"}} :
         /\ handles' = handles \cup more
         /\ cut' = (more # {})
    /\ stage' = "abandon" /\ outcome' = "refused"
    /\ UNCHANGED <<at, chunk, filled, submit, usable, content, attached, stored, sent, stray>>

WriteUnchecked ==               \* mutant: a short write counts as written
    /\ stage = "fill"
    /\ chunk' = chunk + 1
    /\ content' \in {content, content + 1}
    /\ stage' = IF chunk + 1 = Chunks[at] THEN "finish" ELSE "fill"
    /\ UNCHANGED <<at, filled, outcome, submit, usable, handles, attached, stored, sent, historyVars>>

\* fill: the next chunk, whose length is checked against what the server says it wrote.
WriteChunk ==
    /\ stage = "fill"
    /\ chunk' = chunk + 1
    /\ \/ content' = content + 1 /\ filled' = TRUE
       \/ content' = content /\ filled' = FALSE
    /\ stage' = IF filled' /\ chunk + 1 < Chunks[at] THEN "fill" ELSE "finish"
    /\ UNCHANGED <<at, outcome, submit, usable, handles, attached, stored, sent, historyVars>>

WriteRefused ==
    /\ stage = "fill"
    /\ filled' = FALSE /\ stage' = "finish"
    /\ UNCHANGED <<at, chunk, outcome, submit, usable, serverVars, historyVars>>

Next1(n) == IF n = Len(Chunks) THEN "commit" ELSE "attach"

\* finish: the content committed and the attachment saved, if all of it was written; both released
\* whether it was or not, and whether either is refused or not.
FinishAttachment ==
    /\ stage = "finish"
    /\ Released({"attachment", "stream"})
    /\ \/ filled
          /\ attached' = attached \cup {AllOf(at, content = Chunks[at])}
          /\ at' = at + 1 /\ stage' = Next1(at) /\ UNCHANGED outcome
       \/ filled                            \* the commit is refused, or the save, or both
          /\ attached' \in {attached, attached \cup {AllOf(at, FALSE)}}
          /\ stage' = "abandon" /\ outcome' = "refused" /\ UNCHANGED at
       \/ ~filled /\ stage' = "abandon" /\ outcome' = "refused" /\ UNCHANGED <<at, attached>>
    /\ UNCHANGED <<chunk, filled, submit, usable, content, stored, sent, cut>>

AbandonRegardless ==            \* mutant: on a connection that is lost as well
    /\ stage = "abandon"
    /\ stage' = "done"
    /\ Released({"message"})
    /\ UNCHANGED <<at, chunk, filled, outcome, submit, usable, content, attached, stored, sent, cut>>

\* abandon, whose own failure is not reported; nothing is sent on a connection that is not usable.
Abandon ==
    /\ stage = "abandon"
    /\ stage' = "done"
    /\ IF usable THEN Released({"message"}) ELSE UNCHANGED <<handles, stray>>
    /\ UNCHANGED <<at, chunk, filled, outcome, submit, usable, content, attached, stored, sent, cut>>

SaveAndSubmit(save, send) ==
    /\ stored' = IF save THEN attached ELSE stored
    /\ sent' = IF ~send THEN sent ELSE IF stored' = Absent THEN "empty"
               ELSE IF stored' = WholeItem THEN "whole" ELSE "part"

\* commit: save, submit, release in one buffer.  A submit acts on what is in the store; the release
\* runs whatever becomes of the others, so nothing is released on the way out of a refusal.
Commit ==
    /\ stage = "commit"
    /\ Released({"message"})
    /\ \E save \in BOOLEAN, send \in {FALSE, submit} :
         /\ SaveAndSubmit(save, send)
         /\ Finish(IF ~save THEN "refused" ELSE IF send = submit THEN "ok" ELSE "unsent")
    /\ UNCHANGED <<at, chunk, filled, submit, usable, content, attached, cut>>

\* The buffer ran and its reply cannot be read, or lacks the answer looked for: an error that says
\* nothing of the item, on a connection that goes on.
CommitUnread ==
    /\ stage = "commit"
    /\ Released({"message"})
    /\ \E save \in BOOLEAN, send \in {FALSE, submit} : SaveAndSubmit(save, send)
    /\ Finish("failed")
    /\ UNCHANGED <<at, chunk, filled, submit, usable, content, attached, cut>>

-----------------------------------------------------------------------------
(* Round trips that fail, and callers that go away *)

\* The server may have run the batch or not.  Where handles are held, the client tries to give them
\* back, on a connection it can no longer use.
LostCreate ==
    /\ stage = "create"
    /\ handles' \in {{}, {"message"}}
    /\ Finish("failed")
    /\ UNCHANGED <<at, chunk, filled, content, attached, stored, sent>>

LostAttach ==
    /\ stage = "attach"
    /\ handles' \in {handles, {"message", "attachment", "stream"}}
    /\ stage' = "abandon" /\ outcome' = "failed"
    /\ UNCHANGED <<at, chunk, filled, content, attached, stored, sent>>

LostFill ==
    /\ stage = "fill"
    /\ content' \in {content, content + 1}
    /\ stage' = "abandon" /\ outcome' = "failed"
    /\ UNCHANGED <<at, chunk, filled, handles, attached, stored, sent>>

LostFinish ==
    /\ stage = "finish"
    /\ \/ UNCHANGED <<handles, attached>>
       \/ /\ handles' = {"message"}
          /\ attached' = IF filled THEN attached \cup {AllOf(at, content = Chunks[at])} ELSE attached
    /\ stage' = "abandon" /\ outcome' = "failed"
    /\ UNCHANGED <<at, chunk, filled, content, stored, sent>>

LostCommit ==
    /\ stage = "commit"
    /\ \/ UNCHANGED <<handles, stored, sent>>
       \/ handles' = {} /\ \E save \in BOOLEAN, send \in {FALSE, submit} : SaveAndSubmit(save, send)
    /\ Finish("failed")
    /\ UNCHANGED <<at, chunk, filled, content, attached>>

TransportFails ==
    /\ usable
    /\ usable' = FALSE
    /\ LostCreate \/ LostAttach \/ LostFill \/ LostFinish \/ LostCommit
    /\ UNCHANGED <<submit, historyVars>>

\* The future is dropped at an await; the server may still run the batch that was under way, of
\* which only the last one's effect outlives the handles.
Cancel ==
    /\ stage # "done" /\ usable
    /\ Finish("cancelled")
    /\ usable' = FALSE
    /\ \/ UNCHANGED <<handles, stored, sent>>
       \/ /\ stage = "commit" /\ handles' = {}
          /\ \E save \in BOOLEAN, send \in {FALSE, submit} : SaveAndSubmit(save, send)
    /\ UNCHANGED <<at, chunk, filled, submit, content, attached, historyVars>>

-----------------------------------------------------------------------------
\* What the write does of itself: every round trip is answered or fails, by its timeout if not before.
Progress ==
    \/ CreateMessage \/ CreateUnsent \/ CreateAttachment \/ AttachmentRefused
    \/ WriteChunk \/ WriteRefused \/ FinishAttachment \/ Abandon \/ Commit
    \/ CommitUnread \/ TransportFails

Next == Progress \/ Cancel

Spec == Init /\ [][Next]_vars

-----------------------------------------------------------------------------
(* Properties *)

\* An item in the mailbox has every attachment with all of its content, whatever was refused, cut
\* short or lost on the way: a short write succeeds as a ROP (draft/attachment.rs:225-227), and an
\* attachment saved after its message is lost without anything failing (draft.rs:224-226).
SavedIsWhole == stored \in {Absent, WholeItem}

\* What the documentation of save says of a refusal: until the save has succeeded the mailbox is
\* unchanged, and nothing is sent (draft.rs:234-235).
RefusalChangesNothing == outcome = "refused" => stored = Absent /\ sent = "none"

\* The same, of an item that was not to be sent; of one that was, the mailbox alone.
RefusalKeepsTheMailbox == outcome = "refused" => stored = Absent /\ (submit \/ sent = "none")

\* An item reported saved is in the mailbox, one reported sent went out as it is there, and one whose
\* submission alone was refused is an ordinary draft (draft.rs:211-212).
ResultIsTrue ==
    /\ outcome = "ok" => stored = WholeItem /\ sent = (IF submit THEN "whole" ELSE "none")
    /\ outcome = "unsent" => stored = WholeItem /\ sent = "none"

\* No handle is released twice: its value may have been given to another object since
\* (draft.rs:314-316).
ReleasesOnce == ~stray

\* On a connection that can still be used, what was opened is given back on the way out of a failure
\* as of a success, unless a batch that opens handles was itself refused.
GivesBack == (stage = "done" /\ usable /\ ~cut) => handles = {}

=============================================================================
