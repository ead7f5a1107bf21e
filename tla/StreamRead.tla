----------------------------- MODULE StreamRead -----------------------------
(***************************************************************************)
(* Reading one property as a stream: crates/mapi-client/src/stream.rs,     *)
(* with the chain of target.rs it is opened through, and the handles both  *)
(* leave with the server.                                                  *)
(*                                                                         *)
(* The first round trip opens the chain and the stream and reads a chunk,  *)
(* each further one reads a chunk, the last gives every handle back.       *)
(* Another client may extend the property meanwhile.                       *)
(*                                                                         *)
(* Abstractions.  Bytes are counted, not carried.  A handle is named for   *)
(* what it opens.  A batch is refused from its first failing ROP on, since *)
(* each ROP here needs the handle of the one before.                       *)
(***************************************************************************)
EXTENDS MailboxConstants

VARIABLES
    step,
    bytes,      \* how many bytes the caller will get
    reads,      \* reads after the first
    reported,   \* how long the server said the property was, at the open
    held,       \* the handles to give back
    verdict,    \* what read_rest reported: whether the read reached the end, or that it failed
    value,      \* what the caller is given
    usable,     \* whether the connection is
    \* the server
    size,       \* the property's length
    offset,     \* the stream's position
    opened,     \* what it holds open for this read
    \* history
    last,       \* the property's length when it was last read
    short       \* whether an answer fell short of the end, or had no handle or no data

clientVars == <<step, bytes, reads, reported, held, verdict, value, usable>>
serverVars == <<size, offset, opened>>
historyVars == <<last, short>>
vars == <<clientVars, serverVars, historyVars>>

Chained(n) == {Chain[i] : i \in 1..n}
Everything == Chained(Len(Chain)) \cup {"stream"}

Init ==
    /\ step = "start" /\ bytes = 0 /\ reads = 0 /\ reported = 0 /\ held = {}
    /\ verdict = "none" /\ value = "none" /\ usable \in BOOLEAN
    /\ size \in 0..MaxSize /\ offset = 0 /\ opened = {}
    /\ last = 0 /\ short = FALSE

\* The caller's next read, of a property this long.
Renew(length) ==
    /\ step \in {"start", "done"}
    /\ step' = "start" /\ bytes' = 0 /\ reads' = 0 /\ reported' = 0 /\ held' = {}
    /\ verdict' = "none" /\ value' = "none"
    /\ size' = length /\ offset' = 0 /\ opened' = {}
    /\ last' = 0 /\ short' = FALSE

Smaller(a, b) == IF a < b THEN a ELSE b

\* The most the server can answer a read of Chunk bytes with.
Most == Smaller(Chunk, size - offset)

\* The server answers a read with n bytes, some if it has any, and the client takes them.
Take(n) ==
    /\ n \in 0..Most /\ (n = 0 => Most = 0)
    /\ bytes' = bytes + n
    /\ offset' = offset + n
    /\ last' = size

Decide(what) == verdict' = what /\ step' = "release"

-----------------------------------------------------------------------------
(* StreamRead::read *)

\* Opened, with its first chunk.  A short one is the last; without a handle there is no reading on.
OpenStream ==
    /\ step = "start" /\ usable
    /\ reported' = size
    /\ \E n \in 0..Chunk, handle \in BOOLEAN :
         /\ Take(n)
         /\ short' = (n < Most \/ ~handle)
         /\ opened' = IF handle THEN Everything ELSE Chained(Len(Chain))
         /\ IF n < Chunk \/ ~handle THEN Decide("complete") ELSE step' = "rest" /\ UNCHANGED verdict
    /\ held' = opened'
    /\ UNCHANGED <<reads, value, usable, size>>

\* Some ROP of the batch is refused, which is an error before any handle is taken from the reply.
OpenRefused ==
    /\ step = "start" /\ usable
    /\ \E n \in 0..Len(Chain) : opened' \in {Chained(n), Everything}
    /\ step' = "done" /\ value' = "refused"
    /\ UNCHANGED <<bytes, reads, reported, held, verdict, usable, size, offset, historyVars>>

\* The connection was lost to an earlier call: nothing is sent.
OpenUnsent ==
    /\ step = "start" /\ ~usable
    /\ step' = "done" /\ value' = "refused"
    /\ UNCHANGED <<bytes, reads, reported, held, verdict, usable, serverVars, historyVars>>

\* read_rest: a chunk, until one is short or the limit is reached.
ReadOn ==
    /\ step = "rest"
    /\ reads' = reads + 1
    /\ \E n \in 0..Chunk :
         /\ Take(n)
         /\ short' = (short \/ n < Most)
         /\ IF n < Chunk THEN Decide("complete")
            ELSE IF reads + 1 = MaxReads THEN Decide("prefix")
            ELSE UNCHANGED <<step, verdict>>
    /\ UNCHANGED <<reported, held, value, usable, size, opened>>

\* An answer with no data in it ends the read as well.
ReadNothing ==
    /\ step = "rest"
    /\ reads' = reads + 1
    /\ short' = TRUE
    /\ Decide("complete")
    /\ UNCHANGED <<bytes, reported, held, value, usable, serverVars, last>>

\* The read is refused, or its reply cannot be read.
ReadFails ==
    /\ step = "rest"
    /\ Decide("failed")
    /\ UNCHANGED <<bytes, reads, reported, held, value, usable, serverVars, historyVars>>

ReleaseTheRead ==               \* mutant: a failed read gives nothing back
    /\ step = "release"
    /\ opened' = IF verdict = "failed" THEN opened ELSE opened \ held
    /\ value' = verdict /\ step' = "done"
    /\ UNCHANGED <<bytes, reads, reported, held, verdict, usable, size, offset, historyVars>>

\* release: whether the reads succeeded or not, if the connection can still be used.
Release ==
    /\ step = "release"
    /\ opened' = IF usable THEN opened \ held ELSE opened
    /\ value' = verdict /\ step' = "done"
    /\ UNCHANGED <<bytes, reads, reported, held, verdict, usable, size, offset, historyVars>>

\* A round trip fails: the connection is poisoned, and what the server did is not known.
TransportFails ==
    /\ usable
    /\ usable' = FALSE
    /\ \/ step = "start" /\ step' = "done" /\ value' = "failed" /\ opened' \in {{}, Everything}
          /\ UNCHANGED verdict
       \/ step = "rest" /\ Decide("failed") /\ UNCHANGED <<value, opened>>
       \/ step = "release" /\ step' = "done" /\ value' = verdict /\ opened' \in {opened, opened \ held}
          /\ UNCHANGED verdict
    /\ UNCHANGED <<bytes, reads, reported, held, size, offset, historyVars>>

\* The caller drops the future at an await; the server may still run what was under way.
Cancel ==
    /\ step # "done" /\ usable
    /\ step' = "done" /\ value' = "cancelled" /\ usable' = FALSE
    /\ opened' \in {opened, opened \cup (IF step = "start" THEN Everything ELSE {}), opened \ held}
    /\ UNCHANGED <<bytes, reads, reported, held, verdict, size, offset, historyVars>>

-----------------------------------------------------------------------------
\* Another client writes to the property.
Extend ==
    /\ size < MaxSize /\ step # "done"
    /\ \E more \in 1..(MaxSize - size) : size' = size + more
    /\ UNCHANGED <<clientVars, offset, opened, historyVars>>

\* What the read does of itself: every round trip is answered or fails, by its timeout if not before.
Progress ==
    \/ OpenStream \/ OpenRefused \/ OpenUnsent \/ ReadOn \/ ReadNothing \/ ReadFails
    \/ Release \/ TransportFails

Next == Progress \/ Cancel \/ Extend

Spec == Init /\ [][Next]_vars

-----------------------------------------------------------------------------
(* Properties *)

\* A value reported complete is the property as it was when it was last read, to its last byte,
\* though another client extended it since the stream was opened (stream.rs:9-12, 287-290), if the
\* server answers short of the end only at the end.
CompleteIsWhole == (value = "complete" /\ ~short) => bytes = last

\* Once the stream is open, the read gives back all it opened, on its way out of a failed read as
\* of a whole one (stream.rs:154-158), unless the connection itself was lost.
GivesBack == (step = "done" /\ usable /\ value # "refused") => opened = {}

=============================================================================
