------------------------------- MODULE ResetKeys -------------------------------
(***************************************************************************)
(* What password reset promises of its keys, without handlers, locks or    *)
(* transactions: a key is minted once, and is spent at most once; spending *)
(* a key is what changes the account's password, and may void other live   *)
(* keys of the same account in the same stroke, never those of another.    *)
(***************************************************************************)
CONSTANTS Users, Tokens, None

VARIABLES
  etat,    \* [Tokens -> {"absent", "vif", "depense", "annule"}]
  titre,   \* [Tokens -> Users \cup {None}], the account a key opens
  secret   \* [Users -> Tokens \cup {None}], the key that set the password

KeysInit ==
  /\ etat = [t \in Tokens |-> "absent"]
  /\ titre = [t \in Tokens |-> None]
  /\ secret = [u \in Users |-> None]

Mint(u, t) ==
  /\ etat[t] = "absent"
  /\ etat' = [etat EXCEPT ![t] = "vif"]
  /\ titre' = [titre EXCEPT ![t] = u]
  /\ UNCHANGED secret

Spend(u, t, annules) ==
  /\ etat[t] = "vif" /\ titre[t] = u
  /\ \A s \in annules : s # t /\ etat[s] = "vif" /\ titre[s] = u
  /\ etat' = [s \in Tokens |-> IF s = t THEN "depense"
                               ELSE IF s \in annules THEN "annule" ELSE etat[s]]
  /\ secret' = [secret EXCEPT ![u] = t]
  /\ UNCHANGED titre

KeysNext ==
  \E u \in Users, t \in Tokens :
     Mint(u, t) \/ \E annules \in SUBSET Tokens : Spend(u, t, annules)

KeysSpec == KeysInit /\ [][KeysNext]_<<etat, titre, secret>>
=============================================================================
