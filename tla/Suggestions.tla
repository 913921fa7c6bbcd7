----------------------------- MODULE Suggestions -----------------------------
(***************************************************************************)
(* What follows a mix (`listSuggestions` of mixes.service.ts): the other   *)
(* listens of those who listened to it, then three fallbacks.  Each level  *)
(* is a query of its own, and members listen, publish and delete between   *)
(* two of them.  Mixes are numbered in the order of createdAt.             *)
(***************************************************************************)
EXTENDS Integers, Sequences, FiniteSets

CONSTANTS
  Parutions,    \* mixes, a greater number is younger
  Voisines,     \* those that share a tag with the mix on display
  Affiche,      \* the mix on display
  Auditeurs,    \* accounts
  Visiteur,     \* the account that asks, or Anonyme
  Anonyme,
  Places        \* limit

ASSUME SuggestionsAssumption ==
  /\ Parutions \subseteq Nat /\ IsFiniteSet(Parutions)
  /\ Affiche \in Parutions /\ Voisines \subseteq Parutions
  /\ Anonyme \notin Auditeurs /\ Visiteur \in Auditeurs \cup {Anonyme}
  /\ Places \in Nat

VARIABLES
  parues,     \* mixes of the base
  historique, \* PlayHistory, as what each account has listened to
  palier,     \* how far the request is
  exclus,     \* excludedIds
  retenus,    \* orderedIds
  auteurs,    \* coListenerIds
  entendus,   \* history: the visitor's listens as the request read them
  depart,     \* history: mixes there when the request began
  partis      \* history: mixes deleted since

suggestionsVars ==
  <<parues, historique, palier, exclus, retenus, auteurs, entendus, depart, partis>>

-----------------------------------------------------------------------------
Retenus == {retenus[i] : i \in DOMAIN retenus}
Minimum(a, b) == IF a < b THEN a ELSE b

SuggestionsInit ==
  /\ parues \in {s \in SUBSET Parutions : Affiche \in s}
  /\ historique \in [Auditeurs -> SUBSET parues]
  /\ palier = "affiche"
  /\ exclus = {} /\ retenus = <<>> /\ auteurs = {}
  /\ entendus = {} /\ depart = parues /\ partis = {}

Passer(de, vers) == palier = de /\ palier' = vers

\* The mix on display, or a 404.
LireAffiche ==
  /\ palier = "affiche"
  /\ palier' = IF Affiche \in parues THEN "ecoutes" ELSE "introuvable"
  /\ exclus' = {Affiche}
  /\ depart' = parues /\ partis' = {}
  /\ UNCHANGED <<parues, historique, retenus, auteurs, entendus>>

\* Mutant: the listens are read and not excluded.
LireEcoutesSansExclure ==
  /\ Passer("ecoutes", "coauditeurs")
  /\ entendus' = IF Visiteur = Anonyme THEN {} ELSE historique[Visiteur]
  /\ UNCHANGED <<parues, historique, exclus, retenus, auteurs, depart, partis>>

\* What the visitor has already heard is not a suggestion.
LireEcoutes ==
  /\ Passer("ecoutes", "coauditeurs")
  /\ entendus' = IF Visiteur = Anonyme THEN {} ELSE historique[Visiteur]
  /\ exclus' = exclus \cup entendus'
  /\ UNCHANGED <<parues, historique, retenus, auteurs, depart, partis>>

\* Those who listened to it; the cap of 500 is out of reach here.
LireCoauditeurs ==
  /\ Passer("coauditeurs", "classement")
  /\ auteurs' = {u \in Auditeurs : Affiche \in historique[u]} \ {Visiteur}
  /\ UNCHANGED <<parues, historique, exclus, retenus, entendus, depart, partis>>

Voix(m) == Cardinality({u \in auteurs : m \in historique[u]})

\* A listing of at most n mixes of s, the most voted first, ties at will.
ClassementPossible(s, n) ==
  {q \in UNION {[1..k -> s] : k \in {Minimum(n, Cardinality(s))}} :
     /\ \A i, j \in DOMAIN q : i < j => q[i] # q[j] /\ Voix(q[i]) >= Voix(q[j])
     /\ \A m \in s : (\A i \in DOMAIN q : q[i] # m) =>
                        \A i \in DOMAIN q : Voix(q[i]) >= Voix(m)}

Classer ==
  /\ Passer("classement", "tags")
  /\ retenus' \in ClassementPossible({m \in Parutions : Voix(m) > 0} \ exclus, Places)
  /\ exclus' = exclus \cup {retenus'[i] : i \in DOMAIN retenus'}
  /\ auteurs' = {}
  /\ UNCHANGED <<parues, historique, entendus, depart, partis>>

Candidats(parmi, sauf) == (parmi \cap parues) \ sauf

\* The listing of a set whose members are numbered from 1 on.
Dresser(rang) ==
  [k \in 1..Cardinality(DOMAIN rang) |-> CHOOSE m \in DOMAIN rang : rang[m] = k]

\* The youngest first.
RangsDAge(s) == [m \in s |-> Cardinality({n \in s : n >= m})]

\* fill: the youngest of what is left, as many as there is room for.
Completer(parmi, sauf) ==
  LET rang == RangsDAge(Candidats(parmi, sauf))
      ajoutes == {m \in DOMAIN rang : rang[m] <= Places - Len(retenus)}
  IN /\ retenus' = retenus \o Dresser([m \in ajoutes |-> rang[m]])
     /\ exclus' = exclus \cup ajoutes

RetenirVotes == UNCHANGED <<parues, historique, auteurs, entendus, depart, partis>>

ParTags == Passer("tags", "recents") /\ Completer(Voisines, exclus) /\ RetenirVotes

ParDate == Passer("recents", "reecoute") /\ Completer(Parutions, exclus) /\ RetenirVotes

\* The last resort: what has been heard already, never the mix on display.
Reecoute ==
  Passer("reecoute", "lecture") /\ Completer(Parutions, {Affiche} \cup Retenus) /\ RetenirVotes

\* The rows themselves, in the order of the ranking, those gone left out.
RendrePage ==
  /\ Passer("lecture", "repondu")
  /\ LET la == {i \in DOMAIN retenus : retenus[i] \in parues}
         suite == Dresser([i \in la |-> Cardinality({j \in la : j <= i})])
     IN  retenus' = [k \in DOMAIN suite |-> retenus[suite[k]]]
  /\ UNCHANGED <<parues, historique, exclus, auteurs, entendus, depart, partis>>

-----------------------------------------------------------------------------
(* Meanwhile                                                               *)

Inachevee == palier \notin {"repondu", "introuvable"}

\* registerPlay, as far as the history goes: an upsert for a mix that exists.
\* Once the ranking is made the request reads the history no more.
Ecouter(u, m) ==
  /\ palier \in {"affiche", "ecoutes", "coauditeurs", "classement"}
  /\ m \in parues \ historique[u]
  /\ historique' = [historique EXCEPT ![u] = @ \cup {m}]
  /\ UNCHANGED <<parues, palier, exclus, retenus, auteurs, entendus, depart, partis>>

\* A mix is published: it is the youngest.
Paraitre(m) ==
  /\ Inachevee /\ m \in Parutions \ (parues \cup partis) /\ \A n \in parues \cup partis : n < m
  /\ parues' = parues \cup {m}
  /\ UNCHANGED <<historique, palier, exclus, retenus, auteurs, entendus, depart, partis>>

\* A mix is deleted, and the listens of it with it.
Disparaitre(m) ==
  /\ Inachevee /\ m \in parues
  /\ parues' = parues \ {m}
  /\ partis' = partis \cup {m}
  /\ historique' = [u \in Auditeurs |-> historique[u] \ {m}]
  /\ UNCHANGED <<palier, exclus, retenus, auteurs, entendus, depart>>

SuggestionsNext ==
  \/ LireAffiche \/ LireEcoutes \/ LireCoauditeurs \/ Classer
  \/ ParTags \/ ParDate \/ Reecoute \/ RendrePage
  \/ \E m \in Parutions : Paraitre(m) \/ Disparaitre(m) \/ \E u \in Auditeurs : Ecouter(u, m)

SuggestionsSpec == SuggestionsInit /\ [][SuggestionsNext]_suggestionsVars

-----------------------------------------------------------------------------
(* Properties                                                              *)

\* A visitor is offered something heard before only when every mix not heard
\* that was there from beginning to end is offered too ("aucun ne se melange
\* au classement", "dernier recours"), whatever happens between two levels.
HeardOnlyAsLastResort ==
  (palier = "repondu" /\ Retenus \cap entendus # {}) =>
    (depart \cap parues) \ (entendus \cup {Affiche}) \subseteq Retenus
===============================================================================
