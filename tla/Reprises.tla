------------------------------ MODULE Reprises ------------------------------
(***************************************************************************)
(* Two scripts that repair what was stored before a rule existed, run by   *)
(* hand while the site serves: the page each imported mix comes from       *)
(* (backfill-source-page-urls.ts) and the caching header of the objects of *)
(* the bucket (backfill-cache-control.ts).  Both list first, then go       *)
(* through what they listed one by one, and can be run again.              *)
(***************************************************************************)
EXTENDS Integers, FiniteSets, FiniteSetsExt

CONSTANTS
  Reprenables,    \* mixes, in order of creation
  Refs,       \* sourceRef
  Voie,       \* what finds the page of each: "deduite", "lyl", "brain" or "aucune"
  Normale,    \* the address its site lists it under, which stands for its page
  Rangees,    \* keys of the bucket, in the order it lists them
  Limite,     \* --limit
  Nulle,      \* null
  MaxGestes   \* bound: what members do

ASSUME ReprisesAssumption ==
  /\ Reprenables \subseteq Nat /\ Rangees \subseteq Nat /\ Nulle \notin Refs \cup {"image"}
  /\ Limite \in Nat \ {0} /\ MaxGestes \in Nat

VARIABLES
  mixs,        \* base: sourceRef and sourcePageUrl of each mix, Nulle when deleted
  passe,       \* the first script: what it is doing, and what it listed
  lues,        \* its memory of the catalogue: "", "lue" or "vide"
  muets,       \* history: rows whose site did not answer in this run
  touches,     \* history: mixes their member changed since it listed them
  bucket,      \* objects: their Cache-Control and Content-Type, Nulle when deleted
  tournee,     \* the second script: what it is doing
  restes,      \* history: objects it failed on, or never saw
  gestes

reprisesVars == <<mixs, passe, lues, muets, touches, bucket, tournee, restes, gestes>>

-----------------------------------------------------------------------------
PasseAuRepos == [etat |-> "repos", ecrit |-> FALSE, liste |-> {}, page |-> Nulle, vues |-> {}]
TourneeAuRepos == [etat |-> "repos", ecrit |-> FALSE, liste |-> {}, vus |-> 0, type |-> Nulle]
Present(m) == mixs[m] # Nulle
AReprendre == {m \in Reprenables : Present(m) /\ mixs[m].ref # Nulle /\ mixs[m].page = Nulle}

ReprisesInit ==
  /\ mixs \in [Reprenables -> [ref : Refs, page : {Nulle}]]
  /\ passe = PasseAuRepos /\ lues = "" /\ muets = {} /\ touches = {}
  /\ bucket \in [Rangees -> [cache : {FALSE}, type : {"image", Nulle}]
                             \cup {[cache |-> TRUE, type |-> "image"]}]
  /\ tournee = TourneeAuRepos /\ restes = {} /\ gestes = 0

-----------------------------------------------------------------------------
(* The pages of origin *)

\* main: the rows whose page is missing, a reference kept with each.
Lister(ecrit) ==
  /\ passe.etat \in {"repos", "fini", "mort"}
  /\ passe' = [PasseAuRepos EXCEPT !.etat = "cherche", !.ecrit = ecrit,
                 !.liste = {<<m, mixs[m].ref>> : m \in AReprendre}, !.vues = AReprendre]
  /\ lues' = "" /\ muets' = {} /\ touches' = {}
  /\ UNCHANGED <<mixs, bucket, tournee, restes, gestes>>

Courante == CHOOSE l \in passe.liste : \A k \in passe.liste : l[1] <= k[1]
Suivre == [passe EXCEPT !.liste = @ \ {Courante}, !.page = Nulle, !.etat = "cherche"]

\* pageSourceDepuisRef, pageLylDepuisAudio, chercheurBrain: the same address
\* on both sides.
Trouvee(r) == Normale[r]

\* pageDeLaLigne.  A site that does not answer leaves the row; the catalogue is
\* asked for once, and stays empty when that fails.
ChercherPage ==
  /\ passe.etat = "cherche" /\ passe.liste # {}
  /\ LET r == Courante[2] v == Voie[r] IN
     \E repond \in BOOLEAN :
       /\ v = "deduite" => repond
       /\ v = "brain" /\ lues # "" => repond = (lues = "lue")
       /\ lues' = IF v = "brain" THEN IF repond THEN "lue" ELSE "vide" ELSE lues
       /\ muets' = IF repond THEN muets ELSE muets \cup {Courante[1]}
       /\ passe' = IF repond /\ v # "aucune" /\ Trouvee(r) # Nulle
                   THEN [passe EXCEPT !.page = Trouvee(r), !.etat = "ecrit"] ELSE Suivre
  /\ UNCHANGED <<mixs, touches, bucket, tournee, restes, gestes>>

\* By its id, whatever the row holds by then; a row that is gone stops it all.
PoserPage ==
  /\ passe.etat = "ecrit"
  /\ LET m == Courante[1] IN
     IF passe.ecrit /\ ~Present(m)
     THEN passe' = [passe EXCEPT !.etat = "mort"] /\ UNCHANGED mixs
     ELSE /\ mixs' = IF passe.ecrit THEN [mixs EXCEPT ![m].page = passe.page] ELSE mixs
          /\ passe' = Suivre
  /\ UNCHANGED <<lues, muets, touches, bucket, tournee, restes, gestes>>

FinirPasse ==
  /\ passe.etat = "cherche" /\ passe.liste = {} /\ passe' = [passe EXCEPT !.etat = "fini"]
  /\ UNCHANGED <<mixs, lues, muets, touches, bucket, tournee, restes, gestes>>

\* A member gives a mix another source, with its page or without, or deletes it.
Geste == gestes < MaxGestes /\ gestes' = gestes + 1
ChangerMix(m) ==
  /\ Geste /\ Present(m) /\ touches' = touches \cup {m}
  /\ \/ \E r \in Refs : \E p \in {Nulle, Normale[r]} : mixs' = [mixs EXCEPT ![m] = [ref |-> r, page |-> p]]
     \/ mixs' = [mixs EXCEPT ![m] = [ref |-> Nulle, page |-> Nulle]]
     \/ mixs' = [mixs EXCEPT ![m] = Nulle]
  /\ UNCHANGED <<passe, lues, muets, bucket, tournee, restes>>

PagesReprisesNext ==
  \/ \E e \in BOOLEAN : Lister(e)
  \/ ChercherPage \/ PoserPage \/ FinirPasse \/ \E m \in Reprenables : ChangerMix(m)

-----------------------------------------------------------------------------
(* The caching header *)

PartirEnTournee(ecrit) ==
  /\ tournee.etat \in {"repos", "fini"}
  /\ tournee' = [TourneeAuRepos EXCEPT !.etat = "lit", !.ecrit = ecrit,
                   !.liste = {o \in Rangees : bucket[o] # Nulle}]
  /\ restes' = {}
  /\ UNCHANGED <<mixs, passe, lues, muets, touches, bucket, gestes>>

Cle == Min(tournee.liste)
SuivreCle == [tournee EXCEPT !.liste = @ \ {Cle}, !.etat = "lit", !.type = Nulle]

\* traiter: as far as the header, counting what it has seen.
LireEnTetes ==
  /\ tournee.etat = "lit" /\ tournee.liste # {} /\ tournee.vus < Limite
  /\ LET o == bucket[Cle] vu == [SuivreCle EXCEPT !.vus = @ + 1] IN
     \/ o # Nulle /\ o.cache /\ tournee' = vu /\ UNCHANGED restes
     \/ /\ o # Nulle /\ ~o.cache /\ o.type # Nulle /\ UNCHANGED restes
        /\ tournee' = [tournee EXCEPT !.etat = "pose", !.type = o.type, !.vus = @ + 1]
     \/ \* no type to write back, no object, or a failure
        tournee' = vu /\ restes' = restes \cup {Cle}
  /\ UNCHANGED <<mixs, passe, lues, muets, touches, bucket, gestes>>

\* Mutant: REPLACE, and the type is not given back.
PoserSansType(o) == [cache |-> TRUE, type |-> Nulle]

\* poserCacheControlR2: a copy onto itself that replaces every header.
AvecCache(o) == [cache |-> TRUE, type |-> tournee.type]

PoserEnTete ==
  /\ tournee.etat = "pose" /\ tournee' = SuivreCle
  /\ IF ~tournee.ecrit THEN UNCHANGED <<bucket, restes>>
     ELSE \/ bucket[Cle] # Nulle /\ bucket' = [bucket EXCEPT ![Cle] = AvecCache(@)] /\ UNCHANGED restes
          \/ restes' = restes \cup {Cle} /\ UNCHANGED bucket
  /\ UNCHANGED <<mixs, passe, lues, muets, touches, gestes>>

FinirTournee ==
  /\ tournee.etat = "lit" /\ (tournee.liste = {} \/ tournee.vus = Limite)
  /\ tournee' = [tournee EXCEPT !.etat = "fini"] /\ restes' = restes \cup tournee.liste
  /\ UNCHANGED <<mixs, passe, lues, muets, touches, bucket, gestes>>

SupprimerObjet(o) ==
  /\ Geste /\ bucket' = [bucket EXCEPT ![o] = Nulle]
  /\ UNCHANGED <<mixs, passe, lues, muets, touches, tournee, restes>>

CacheNext ==
  \/ \E e \in BOOLEAN : PartirEnTournee(e)
  \/ LireEnTetes \/ PoserEnTete \/ FinirTournee \/ \E o \in Rangees : SupprimerObjet(o)

\* Either is cut.
ArreterReprises ==
  /\ passe' = [passe EXCEPT !.etat = IF @ \in {"cherche", "ecrit"} THEN "mort" ELSE @]
  /\ tournee' = [tournee EXCEPT !.etat = IF @ \in {"lit", "pose"} THEN "repos" ELSE @]
  /\ UNCHANGED <<mixs, lues, muets, touches, bucket, restes, gestes>>

ReprisesNext == PagesReprisesNext \/ CacheNext \/ ArreterReprises
ReprisesSpec == ReprisesInit /\ [][ReprisesNext]_reprisesVars

-----------------------------------------------------------------------------
(* Properties                                                              *)

\* A run that reaches its end has given every row it listed the page of its
\* source, and every object its header with the type it had: those left out
\* are the ones a member changed meanwhile, those whose site was silent or
\* knows no page ("un mix sans page n'est pas une panne"), and the objects it
\* counted as failures or stopped before.  A page is never that of another
\* source, either.
RunLeavesThemDone ==
  /\ passe.etat = "fini" /\ passe.ecrit =>
       \A m \in passe.vues \ touches :
         \/ mixs[m].page = Normale[mixs[m].ref]
         \/ mixs[m].page = Nulle /\ (m \in muets \/ Voie[mixs[m].ref] = "aucune")
  /\ tournee.etat = "fini" /\ tournee.ecrit =>
       \A o \in Rangees \ restes : bucket[o] # Nulle => bucket[o].cache /\ bucket[o].type # Nulle
==============================================================================
