-------------------------------- MODULE Filtres --------------------------------
(***************************************************************************)
(* Array.filter.  By membership of a set it is SelectSeq, written as a     *)
(* recursive function because the proofs reason about it by induction.     *)
(***************************************************************************)
EXTENDS Integers, SequencesExt

\* What a filter that keeps the places of I leaves of s, in its order.
AuxPlaces(s, I) ==
  LET f[i \in 0..Len(s)] == IF i = 0 THEN <<>>
                            ELSE IF i \in I THEN Append(f[i - 1], s[i]) ELSE f[i - 1]
  IN  f[Len(s)]

\* What a filter by membership of S leaves of s.
Filtrees(s, S) == AuxPlaces(s, {i \in DOMAIN s : s[i] \in S})
=============================================================================
