------------------------------- MODULE Lists -------------------------------
(***************************************************************************)
(* Lists of nodes and machines, as the generators go through them.         *)
(***************************************************************************)
EXTENDS Naturals, Sequences, SequencesExt

\* The elements of s that are in S, in the order of s.
Those(s, S) == FlattenSeq([i \in DOMAIN s |-> IF s[i] \in S THEN <<s[i]>> ELSE <<>>])
=============================================================================
