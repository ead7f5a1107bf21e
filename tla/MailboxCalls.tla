---------------------------- MODULE MailboxCalls ----------------------------
(***************************************************************************)
(* The calls one program makes on a mailbox over one Connection: tables    *)
(* read a page at a time (TableRows), properties read as streams           *)
(* (StreamRead), items written (DraftWrite) and calls of one or two round  *)
(* trips on what is there (ObjectCalls).  Each borrows the Connection, so  *)
(* one runs at a time; what passes from one to the next is whether the     *)
(* connection still takes a request, which a lost reply or a dropped       *)
(* future ends for good (crates/mapi-client/src/connection.rs,             *)
(* Connection::usable).                                                    *)
(***************************************************************************)
EXTENDS MailboxConstants, FiniteSets

VARIABLES
    doing,      \* which kind of call borrows the connection
    usable,     \* whether the connection takes a request
    \* TableRows
    start, table, page, finished, calling, awaited, given, ended, errors, cancels,
    total, cursor, missed, forgotten, closing, lent,
    \* StreamRead
    step, bytes, reads, reported, held, verdict, value, size, offset, opened, last, short,
    \* DraftWrite
    stage, at, chunk, filled, outcome, submit, handles, content, attached, stored, sent, cut, stray,
    \* ObjectCalls
    call, trip, result, told, specials, names, store, registered, left, refusals, learnt, roomless

tableVars == <<start, table, page, finished, calling, awaited, given, ended, errors, cancels,
               total, cursor, missed, forgotten, closing, lent>>
streamVars == <<step, bytes, reads, reported, held, verdict, value, size, offset, opened, last, short>>
draftVars == <<stage, at, chunk, filled, outcome, submit, handles, content, attached, stored, sent,
               cut, stray>>
objectVars == <<call, trip, result, told, specials, names, store, registered, left, refusals, learnt, roomless>>
vars == <<doing, usable, tableVars, streamVars, draftVars, objectVars>>

Table == INSTANCE TableRows
Stream == INSTANCE StreamRead
Draft == INSTANCE DraftWrite
Object == INSTANCE ObjectCalls

Init ==
    /\ doing = "nothing" /\ usable = TRUE
    /\ Table!Init /\ total = 0
    /\ Stream!Init /\ size = 0
    /\ Draft!Init /\ ~submit
    /\ Object!Init

-----------------------------------------------------------------------------
\* A call is made.
Begin(kind) == doing = "nothing" /\ doing' = kind /\ UNCHANGED usable

BeginTable ==
    /\ Begin("table")
    /\ \E rows \in 0..MaxRows : Table!Renew(rows)
    /\ UNCHANGED <<streamVars, draftVars, objectVars>>

BeginStream ==
    /\ Begin("stream")
    /\ \E length \in 0..MaxSize : Stream!Renew(length)
    /\ UNCHANGED <<tableVars, draftVars, objectVars>>

BeginDraft ==
    /\ Begin("draft")
    /\ \E send \in BOOLEAN : Draft!Renew(send)
    /\ UNCHANGED <<tableVars, streamVars, objectVars>>

BeginObject == Begin("object") /\ Object!Begin /\ UNCHANGED <<tableVars, streamVars, draftVars>>

InTable(A) == doing = "table" /\ A /\ UNCHANGED <<doing, streamVars, draftVars, objectVars>>
InStream(A) == doing = "stream" /\ A /\ UNCHANGED <<doing, tableVars, draftVars, objectVars>>
InDraft(A) == doing = "draft" /\ A /\ UNCHANGED <<doing, tableVars, streamVars, objectVars>>
InObject(A) == doing = "object" /\ A /\ UNCHANGED <<doing, tableVars, streamVars, draftVars>>

\* The call returned, or was dropped, and the connection is the program's again.
End ==
    /\ doing' = "nothing"
    /\ UNCHANGED usable
    /\ \/ doing = "table" /\ Table!Renew(0) /\ UNCHANGED <<streamVars, draftVars, objectVars>>
       \/ doing = "stream" /\ step = "done" /\ Stream!Renew(0)
          /\ UNCHANGED <<tableVars, draftVars, objectVars>>
       \/ doing = "draft" /\ stage = "done" /\ Draft!Renew(FALSE)
          /\ UNCHANGED <<tableVars, streamVars, objectVars>>
       \/ doing = "object" /\ Object!Renew /\ UNCHANGED <<tableVars, streamVars, draftVars>>

\* A connection that takes no request is good for nothing but to be replaced.
Reconnect ==
    /\ doing = "nothing" /\ ~usable
    /\ usable' = TRUE
    /\ UNCHANGED <<doing, tableVars, streamVars, draftVars, objectVars>>

\* What a call does of itself.
Progress ==
    \/ InTable(Table!Progress)
    \/ InStream(Stream!Progress)
    \/ InDraft(Draft!Progress)
    \/ InObject(Object!Progress)

Next ==
    \/ BeginTable \/ BeginStream \/ BeginDraft \/ BeginObject \/ End \/ Reconnect
    \/ Progress
    \/ InTable(Table!Call) \/ InTable(Table!Cancel)
    \/ InTable(Table!Close) \/ InTable(Table!CloseAtOnce)
    \/ InStream(Stream!Cancel) \/ InStream(Stream!Extend)
    \/ InDraft(Draft!Cancel)
    \/ InObject(Object!Begin) \/ InObject(Object!Cancel) \/ InObject(Object!OtherRegisters)

Spec == Init /\ [][Next]_vars

\* Every round trip ends, by its timeout if not before.  Nothing makes a program call, drop a call, or
\* replace its connection.
FairSpec == Spec /\ WF_vars(Progress)

-----------------------------------------------------------------------------
(* Properties *)

\* The end of a table is reported only when it was read to its end: a server that refused to open
\* the folder never looks like an empty inbox (table.rs:370-375), nor a failed page like the last.
NoFalseEnd == Table!NoFalseEnd

\* The same where the program dropped no first call at its await; and no row is given twice, or
\* before one the table has first, whatever failed between two pages.  A value reported complete is
\* the whole property as it was when it was last read, though another client extended it meanwhile,
\* unless the server answers short of the end (stream.rs:9-12).
ReadsAreWhole == Table!EndIsTheEnd /\ Table!InOrder /\ Stream!CompleteIsWhole

\* What the documentation of save says: a refusal leaves the mailbox unchanged (draft.rs:234-235).
RefusalChangesNothing == Draft!RefusalChangesNothing

\* An item in the mailbox has every attachment with all of its content (draft.rs:224-226,
\* draft/attachment.rs:225-227); and what the caller is told of an item is what became of it
\* (draft.rs:211-212), of a refusal that the mailbox is unchanged, if not always the outbox.
SavedAsTold == Draft!SavedIsWhole /\ Draft!ResultIsTrue /\ Draft!RefusalKeepsTheMailbox

\* On a connection that can still be used, a stream read that got its stream open, and a write none
\* of whose opening batches was refused, leave nothing open (stream.rs:154-158,
\* draft/attachment.rs:7-10); and no handle is given back twice (draft.rs:314-316).  A
\* table whose close reports no error is not left at the server (table.rs:349-353).
HandlesComeBackOnce ==
    /\ Table!ClosedIsReleased
    /\ Stream!GivesBack /\ Draft!GivesBack /\ Draft!ReleasesOnce /\ Object!GivesBack

\* A caller told that a list of messages was all deleted, moved, copied or marked, or that a message
\* was updated or sent, is told the truth (folder.rs:123-126, 357-362, message.rs:365-368); and each
\* special folder is reported as what its own entry id and the answer to its own conversion came to,
\* whichever others were refused (logon.rs:284-288).
ObjectsAreAsTold == Object!ObjectsAreAsTold /\ Object!SpecialFoldersAreTheirOwn

\* A named property is never read or written under another's id, however short the store answers;
\* and an id the store gave is found from then on, though it had none before (logon/names.rs:105-106).
NamesAreTheStores == Object!NamesAreTheStores

\* Once a reply was lost or a future dropped, the client asks the server for nothing more on that
\* connection: its next request could be read against the answer to the last (connection.rs:177-180).
LostIsLost ==
    [][(doing' = doing /\ ~usable /\ ~usable') =>
           UNCHANGED <<cursor, lent, offset, opened, handles, content, attached, stored, sent, store, left>>]_vars

InCall ==
    \/ calling
    \/ doing = "stream" /\ step # "done"
    \/ doing = "draft" /\ stage # "done"
    \/ doing = "object" /\ trip # "done"

\* Every call returns: an empty page that does not say it is the last ends a table (table.rs:443-446),
\* a stream that another client keeps extending is read no more often than its limit.
EveryCallReturns == InCall ~> ~InCall

=============================================================================
