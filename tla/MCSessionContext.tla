-------------------------- MODULE MCSessionContext --------------------------
(* Small instances of SessionContext. *)
EXTENDS SessionContext, TLC

CONSTANTS h1, h2, h3, c1, c2

TwoSlots == {1, 2}
Alike == Permutations({h1, h2, h3})

Object(s) == [op |-> "object", slot |-> s]
NewTable(s) == [op |-> "table", slot |-> s]
Set(s, c) == [op |-> "columns", slot |-> s, columns |-> c]
Query(s) == [op |-> "query", slot |-> s]
Release(s) == [op |-> "release", slot |-> s]

\* What Rows sends: open, page, close.
Open(c) == [bound |-> {}, rops |-> <<Object(1), NewTable(2), Set(2, c), Query(2), Release(1)>>]
Page == [bound |-> {1}, rops |-> <<Query(1)>>]
Close == [bound |-> {1}, rops |-> <<Release(1)>>]
TableReads == {Open(c1), Open(c2), Page, Close}
=============================================================================
