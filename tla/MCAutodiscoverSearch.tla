------------------------ MODULE MCAutodiscoverSearch ------------------------
(* A small instance of AutodiscoverSearch. *)
EXTENDS AutodiscoverSearch

CONSTANTS a1, a2, s1, u1

\* No alternative, one that has an address, and one that has none before one that has.
FewAlternatives == {<<>>, <<a2>>, <<Directory, a1>>}
=============================================================================
