-------------------------- MODULE MailboxConstants --------------------------
(* What the calls of MailboxCalls, and the modules of each kind of call, are parameterised by. *)
EXTENDS Naturals, Sequences

CONSTANTS
    \* TableRows
    MaxRows,      \* bound: how many rows a table holds
    PageSize,     \* Rows::page_size
    MaxErrors,    \* bound: how many round trips of one read fail
    MaxCancels,   \* bound: how many calls of one read the caller drops
    \* StreamRead
    Chain,        \* what Target::open opens to reach the object, outermost first
    Chunk,        \* CHUNK of stream.rs
    MaxReads,     \* MAX_READS of stream.rs
    MaxSize,      \* bound: the longest the property gets
    \* DraftWrite
    Chunks,       \* the attachments to create: how many chunks each one's content is
    \* ObjectCalls
    Messages,     \* the messages a call over a list names
    Specials,     \* SpecialFolder::ALL
    Names,        \* the named properties there are
    Lists         \* the lists of them a caller asks about

ASSUME TableAssumption ==
    /\ MaxRows \in Nat /\ PageSize \in Nat \ {0} /\ MaxErrors \in Nat /\ MaxCancels \in Nat
ASSUME StreamAssumption ==
    /\ Chain \in Seq(STRING)
    /\ Chunk \in Nat \ {0} /\ MaxReads \in Nat \ {0} /\ MaxSize \in Nat
ASSUME DraftAssumption == Chunks \in Seq(Nat \ {0})
ASSUME ObjectAssumption == Messages # {} /\ Specials \in Seq(STRING) /\ Lists \subseteq Seq(Names)

\* What NamedProperties::get says of a name that has no id is none.
ASSUME NamesAssumption == "zero" \notin Names /\ "unasked" \notin Names
=============================================================================
