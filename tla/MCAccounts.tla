------------------------------- MODULE MCAccounts -------------------------------
(* Two instances of Accounts in one run: people who may take each other's    *)
(* place, then one person who spells names in two ways and holds two         *)
(* identities and two passwords.                                             *)
EXTENDS Accounts, TLC

CONSTANTS Deux, Un   \* two values, and one

VARIABLE instance    \* the instance of this behaviour

Foule == INSTANCE Accounts WITH Personnes <- Deux, Casses <- Un, Numeros <- Un
Seul == INSTANCE Accounts WITH Personnes <- Un, Casses <- Deux, Numeros <- Deux

InstancesInit == instance \in {"foule", "seul"} /\ Init

InstancesNext ==
  /\ UNCHANGED instance
  /\ \/ instance = "foule" /\ Foule!Next
     \/ instance = "seul" /\ Seul!Next

InstancesSpec == InstancesInit /\ [][InstancesNext]_<<instance, vars>>

\* The two values play the same part in both instances.
Symetrie == Permutations(Comptes) \cup Permutations(Requetes) \cup Permutations(Deux)
=============================================================================
