--------------------------------- MODULE Lists ---------------------------------
(***************************************************************************)
(* What several components do with their lists.                            *)
(***************************************************************************)
EXTENDS Sequences, SequencesExt

\* The elements of a list that are in S, in the order of the list: what is left of a
\* std::list after the loops that erase from it.
Kept(s, S) == FoldLeft(LAMBDA t, q : IF q \in S THEN Append(t, q) ELSE t, <<>>, s)
================================================================================
