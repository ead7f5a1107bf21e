----------------------------- MODULE TableRows ------------------------------
(***************************************************************************)
(* Reading a table a page at a time: Rows of crates/mapi-client/src/       *)
(* table.rs, over a Connection, against a server that pages its rows.      *)
(*                                                                         *)
(* The first call of try_next opens the object and its table, each further *)
(* page is one round trip, and what is at stake is that the end the caller *)
(* sees is the table's end: an inbox half read, or not read at all, looks  *)
(* exactly like a short one.                                               *)
(*                                                                         *)
(* Abstractions.  Rows are numbered.  The ROPs of the opening batch are    *)
(* the opening of the table and the first query, and an answer to a query  *)
(* is rows or a refusal: absorb takes one with neither for the end, which  *)
(* a server would have to leave the query unanswered for.  A caller keeps  *)
(* calling try_next, and may give up after an error.                       *)
(***************************************************************************)
EXTENDS MailboxConstants

VARIABLES
    \* Rows
    start,      \* whether Rows::start still holds the unopened table
    table,      \* whether it has the table's handle
    page,       \* the rows of the current page not given yet
    finished,
    closing,    \* what became of close: not called, asked for, closed or failed
    \* its caller
    calling,    \* whether try_next or close was called and has not returned
    awaited,    \* the round trip it awaits
    given,      \* the rows it was given, in order
    ended,      \* whether it was told that there are no more
    errors, cancels,
    \* Connection
    usable,     \* whether it takes a request: not poisoned, and awaiting no response
    \* the server
    total,      \* how many rows the table holds
    cursor,     \* how many of them it has sent
    lent,       \* whether it holds the table it gave the handle of
    \* history
    missed,     \* rows of pages that could not be read
    forgotten   \* whether a first call was dropped while it opened the table

closeVars == <<closing, lent>>
vars == <<start, table, page, finished, calling, awaited, given, ended, errors, cancels, usable,
          total, cursor, missed, forgotten, closeVars>>

Init ==
    /\ start = TRUE /\ table = FALSE /\ page = <<>> /\ finished = FALSE
    /\ calling = FALSE /\ awaited = "none" /\ given = <<>> /\ ended = FALSE
    /\ errors = 0 /\ cancels = 0 /\ usable \in BOOLEAN
    /\ total \in 0..MaxRows /\ cursor = 0 /\ missed = {} /\ forgotten = FALSE
    /\ closing = "no" /\ lent = FALSE

\* The caller drops this read; the next is of a table of this many rows.
Renew(rows) ==
    /\ ~calling
    /\ start' = TRUE /\ table' = FALSE /\ page' = <<>> /\ finished' = FALSE
    /\ calling' = FALSE /\ awaited' = "none" /\ given' = <<>> /\ ended' = FALSE
    /\ errors' = 0 /\ cancels' = 0
    /\ total' = rows /\ cursor' = 0 /\ missed' = {} /\ forgotten' = FALSE
    /\ closing' = "no" /\ lent' = FALSE

-----------------------------------------------------------------------------
(* try_next *)

Call ==
    /\ ~calling /\ ~ended /\ closing = "no"
    /\ calling' = TRUE
    /\ UNCHANGED <<start, table, page, finished, awaited, given, ended, errors, cancels, usable,
                   total, cursor, missed, forgotten, closeVars>>

\* A row of the page there is.
NextRow ==
    /\ calling /\ awaited = "none" /\ page # <<>>
    /\ given' = Append(given, Head(page))
    /\ page' = Tail(page)
    /\ calling' = FALSE
    /\ UNCHANGED <<start, table, finished, awaited, ended, errors, cancels, usable, total, cursor,
                   missed, forgotten, closeVars>>

ReportEnd ==
    /\ calling /\ awaited = "none" /\ page = <<>> /\ finished
    /\ ended' = TRUE
    /\ calling' = FALSE
    /\ UNCHANGED <<start, table, page, finished, awaited, given, errors, cancels, usable, total,
                   cursor, missed, forgotten, closeVars>>

Fetching == calling /\ awaited = "none" /\ page = <<>> /\ ~finished

-----------------------------------------------------------------------------
(* fetch *)

\* The unopened table is taken before the round trip that opens it.
FetchFirst ==
    /\ Fetching /\ start /\ usable
    /\ start' = FALSE
    /\ awaited' = "open"
    /\ usable' = FALSE
    /\ UNCHANGED <<table, page, finished, calling, given, ended, errors, cancels, total, cursor,
                   missed, forgotten, closeVars>>

FetchPage ==
    /\ Fetching /\ ~start /\ table /\ usable
    /\ awaited' = "page"
    /\ usable' = FALSE
    /\ UNCHANGED <<start, table, page, finished, calling, given, ended, errors, cancels, total,
                   cursor, missed, forgotten, closeVars>>

\* Neither a table nor one to open: there is nothing left to do.
FetchNothing ==
    /\ Fetching /\ ~start /\ ~table
    /\ finished' = TRUE
    /\ UNCHANGED <<start, table, page, calling, awaited, given, ended, errors, cancels, usable, total,
                   cursor, missed, forgotten, closeVars>>

\* The connection refuses: a call dropped before this one is still in flight.  An unopened table is
\* put back as it was.
FetchBusy ==
    /\ Fetching /\ (start \/ table) /\ ~usable
    /\ errors' = IF errors < MaxErrors THEN errors + 1 ELSE errors
    /\ calling' = FALSE
    /\ UNCHANGED <<start, table, page, finished, awaited, given, ended, cancels, usable, total, cursor,
                   missed, forgotten, closeVars>>

\* What absorb makes of a page that says it is the last, or not.
AbsorbUntilEnd(rows, end) ==    \* mutant: an empty page is not the end
    finished' = end /\ page' = rows

Absorb(rows, end) == finished' = (end \/ rows = <<>>) /\ page' = rows

Reading == calling /\ awaited \in {"open", "page"}

\* Where the page starts: a table just opened is at its first row.
From == IF awaited = "open" THEN 0 ELSE cursor

\* How many rows the server may send, asked for PageSize: any it has left, but some if it has any.
PageLengths == {n \in 0..PageSize : From + n <= total /\ (n = 0 => From = total)}

\* A page that reaches the last row may say so, or leave it to an empty page.
Answered ==
    /\ Reading
    /\ \E n \in PageLengths, end \in BOOLEAN :
         /\ end => From + n = total
         /\ Absorb([i \in 1..n |-> From + i], end)
         /\ cursor' = From + n
    /\ table' = TRUE
    /\ awaited' = "none"
    /\ usable' = TRUE
    /\ lent' = TRUE
    /\ UNCHANGED <<start, calling, given, ended, errors, cancels, total, missed, forgotten, closing>>

FailForgetting ==               \* mutant: an unopened table is not put back
    /\ Reading /\ errors < MaxErrors
    /\ errors' = errors + 1
    /\ awaited' = "none" /\ calling' = FALSE
    /\ usable' \in BOOLEAN
    /\ UNCHANGED <<start, table, page, finished, given, ended, cancels, total, cursor, missed, forgotten,
                   closeVars>>

\* Refused, or never answered, which leaves the connection unusable.  A table that was to be opened is
\* put back.
Fail ==
    /\ Reading /\ errors < MaxErrors
    /\ errors' = errors + 1
    /\ start' = (awaited = "open")
    /\ awaited' = "none" /\ calling' = FALSE
    /\ usable' \in BOOLEAN
    /\ UNCHANGED <<table, page, finished, given, ended, cancels, total, cursor, missed, forgotten,
                   closeVars>>

\* The server sent a page and the reply could not be read: the next query goes on from there, and a
\* table opened again starts again.
FailUnread ==
    /\ Reading /\ errors < MaxErrors
    /\ errors' = errors + 1
    /\ IF awaited = "open"
         THEN start' = TRUE /\ UNCHANGED <<cursor, missed>>
         ELSE /\ \E n \in PageLengths :
                   /\ cursor' = cursor + n
                   /\ missed' = missed \cup {cursor + i : i \in 1..n}
              /\ UNCHANGED start
    /\ awaited' = "none" /\ calling' = FALSE
    /\ usable' = TRUE
    /\ UNCHANGED <<table, page, finished, given, ended, cancels, total, forgotten, closeVars>>

\* The caller drops the future: the request stays in flight, and what was taken is gone.
Cancel ==
    /\ calling /\ awaited # "none" /\ cancels < MaxCancels
    /\ cancels' = cancels + 1
    /\ forgotten' = (forgotten \/ awaited = "open")
    /\ calling' = FALSE /\ awaited' = "none"
    /\ UNCHANGED <<start, table, page, finished, given, ended, errors, usable, total, cursor, missed,
                   closeVars>>

-----------------------------------------------------------------------------
(* close, which collect ends with: the read is the caller's no more *)

\* The handle is taken, and released in a round trip of its own.
Close ==
    /\ ~calling /\ closing = "no" /\ table /\ usable
    /\ closing' = "asked"
    /\ table' = FALSE
    /\ calling' = TRUE /\ awaited' = "release"
    /\ usable' = FALSE
    /\ UNCHANGED <<start, page, finished, given, ended, errors, cancels, total, cursor, missed,
                   forgotten, lent>>

\* No table was opened, or the connection takes no request.
CloseAtOnce ==
    /\ ~calling /\ closing = "no" /\ (table => ~usable)
    /\ closing' = IF table THEN "failed" ELSE "closed"
    /\ table' = FALSE
    /\ UNCHANGED <<start, page, finished, calling, awaited, given, ended, errors, cancels, usable, total,
                   cursor, missed, forgotten, lent>>

\* The release is answered with nothing.  Refused as a request, or lost, it fails; an answer that
\* cannot be read is to one that was run.
Released ==
    /\ calling /\ awaited = "release"
    /\ \/ closing' = "closed" /\ lent' = FALSE /\ usable' = TRUE
       \/ closing' = "failed" /\ usable' \in BOOLEAN /\ UNCHANGED lent
       \/ closing' = "failed" /\ lent' = FALSE /\ usable' = TRUE
    /\ awaited' = "none" /\ calling' = FALSE
    /\ UNCHANGED <<start, table, page, finished, given, ended, errors, cancels, total, cursor, missed,
                   forgotten>>

-----------------------------------------------------------------------------
\* What a call does of itself: every round trip is answered or fails, by its timeout if not before,
\* and nothing in try_next waits for anything else.
Progress ==
    \/ NextRow \/ ReportEnd
    \/ FetchFirst \/ FetchPage \/ FetchNothing \/ FetchBusy
    \/ Answered \/ Fail \/ FailUnread
    \/ Released

Next == Call \/ Close \/ CloseAtOnce \/ Progress \/ Cancel

Spec == Init /\ [][Next]_vars

-----------------------------------------------------------------------------
(* Properties *)

Given == {given[i] : i \in DOMAIN given}

\* The end is reported only of a table read to its end: a server that refused to open the folder
\* never looks like an empty inbox (table.rs:370-375), nor a failed page like the last.
NoFalseEnd == ended => Given \cup missed = 1..total

\* The same of a table whose first call the caller did not drop.
EndIsTheEnd == ended /\ ~forgotten => Given \cup missed = 1..total

\* No row is given twice, or before one the table has first, whatever failed between two pages.
InOrder == \A i, j \in DOMAIN given : i < j => given[i] < given[j]

\* A table that was closed is not left at the server (table.rs:349-353).
ClosedIsReleased == closing = "closed" => ~lent

=============================================================================
