--------------------------- MODULE MCIncongruesSync ---------------------------
(* Instances of IncongruesSync for TLC.                                    *)
EXTENDS IncongruesSync, TLC

\* The identities are interchangeable.
Symetrie == Permutations(Users) \cup Permutations(Pseudos)
            \cup Permutations(Discussions) \cup Permutations(Mixes)
=============================================================================
