--------------------------- MODULE MCIncongruesLink ---------------------------
(* Instances of IncongruesLink for TLC.                                    *)
EXTENDS IncongruesLink, TLC

\* Members, requests and tokens are interchangeable, and so are the pseudos.
Symetrie == Permutations(Users) \cup Permutations(Pseudos)
            \cup Permutations(Jetons) \cup Permutations(Requests)
=============================================================================
