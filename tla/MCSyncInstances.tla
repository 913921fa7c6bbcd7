--------------------------- MODULE MCSyncInstances ---------------------------
(* Two instances of IncongruesSync in one run: discussions that change hands *)
(* between two forum accounts and one mix, then two discussions of one forum *)
(* account and two mixes.                                                    *)
EXTENDS IncongruesSync, TLC

CONSTANTS
  Deux, Un,   \* two values, and one
  UnMix       \* one of the mixes

VARIABLE instance    \* the instance of this behaviour

Auteurs == INSTANCE IncongruesSync WITH Pseudos <- Deux, Discussions <- Un, Mixes <- UnMix
Envois == INSTANCE IncongruesSync WITH Pseudos <- Un, Discussions <- Deux

InstancesInit == instance \in {"auteurs", "envois"} /\ Init

InstancesNext ==
  /\ UNCHANGED instance
  /\ \/ instance = "auteurs" /\ Auteurs!Next
     \/ instance = "envois" /\ Envois!Next

InstancesSpec == InstancesInit /\ [][InstancesNext]_<<instance, vars>>

\* The identities are interchangeable, and the two values play the same part
\* in both instances.
Symetrie == Permutations(Mixes) \cup Permutations(Passes) \cup Permutations(Deux)
=============================================================================
