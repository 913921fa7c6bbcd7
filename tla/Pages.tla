-------------------------------- MODULE Pages --------------------------------
(***************************************************************************)
(* The page of a mix (MixDetailView.vue).  Going from one mix to another   *)
(* keeps the component: a watcher of the address starts a load, which is   *)
(* four requests in three stages, and nothing stops the loads that an      *)
(* earlier address has started.  An old address, /mixes/<id>, is replaced  *)
(* by the one that the answer tells.                                       *)
(***************************************************************************)
EXTENDS Integers

CONSTANTS
  Mixes,       \* mixes that an address may name
  NulMix,      \* no mix
  MaxVisites   \* bound: loads

ASSUME PagesAssumption == NulMix \notin Mixes /\ MaxVisites \in Nat

VARIABLES
  adresse,     \* form of the address, and the mix it names
  publies,     \* server: mixes that exist
  affiche,     \* mix
  profil,      \* uploaderProfile, as the mix it was asked for
  suite,       \* suggestions, as the mix they follow
  meme,        \* duMemeArtiste, likewise
  chargement,  \* loading
  visites,     \* each load: the address it asked for, its stage, the id of its sections
  lancees,     \* loads started
  efface,      \* deleting: the mix whose deletion is awaited
  laissees,    \* deletions that pages unmounted since still await
  trouble      \* history: since a load last started alone, another has started,
               \* one has failed, or the address has moved under one

pagesVars == <<adresse, publies, affiche, profil, suite, meme, chargement, visites, lancees,
               efface, laissees, trouble>>
affichage == <<affiche, profil, suite, meme, chargement>>

-----------------------------------------------------------------------------
Visites == 1..MaxVisites
Close == [cible |-> NulMix, etape |-> "finie", id |-> NulMix]
AlEtape(v, e, m) == [cible |-> v.cible, etape |-> e, id |-> m]
Dehors == {[forme |-> f, mix |-> NulMix] : f \in {"ailleurs", "playlist"}}
Ancienne(m) == [forme |-> "ancienne", mix |-> m]
Canonique(m) == [forme |-> "canonique", mix |-> m]
PageVide == /\ affiche' = NulMix /\ profil' = NulMix /\ suite' = NulMix /\ meme' = NulMix
         /\ chargement' = TRUE

PagesInit ==
  /\ adresse \in Dehors /\ publies = Mixes
  /\ affiche = NulMix /\ profil = NulMix /\ suite = NulMix /\ meme = NulMix
  /\ chargement = TRUE
  /\ visites = [v \in Visites |-> Close] /\ lancees = 0 /\ efface = NulMix
  /\ laissees = {} /\ trouble = FALSE

\* Mutant: the watcher loads only what a page that is mounted asks for.
ToutCorrespond(a, m) == m # NulMix

\* correspondALUrl, for the address a and the mix m on display.
Correspond(a, m) == m # NulMix /\ a.mix = m

\* loadAll, as far as its first request; v is the state of the other loads.
LancerVisite(a, v) ==
  /\ lancees < MaxVisites /\ lancees' = lancees + 1
  /\ visites' = [v EXCEPT ![lancees + 1] = [cible |-> a.mix, etape |-> "mix", id |-> NulMix]]
  /\ suite' = NulMix /\ meme' = NulMix /\ chargement' = TRUE

\* The watcher of the address, and its first call when the page is mounted.
SuivreAdresse(a, m, v) ==
  IF Correspond(a, m)
  THEN visites' = v /\ UNCHANGED <<suite, meme, chargement, lancees>>
  ELSE LancerVisite(a, v)

\* The mounted page has loads under way.
EnCharge(v) == v.etape \in {"mix", "profil", "deux", "suite", "meme"}
Occupee == \E v \in Visites : EnCharge(visites[v])

\* A component that is unmounted goes on: of its loads, only what awaits the
\* mix may still touch the address, and its deletion if it succeeds.
Orphelines(v) ==
  [w \in Visites |-> IF v[w].etape \in {"mix", "orpheline"} THEN AlEtape(v[w], "orpheline", NulMix)
                     ELSE Close]

Demandees == laissees \cup ({efface} \ {NulMix})
Quittee(a) ==
  /\ adresse' = a /\ PageVide
  /\ visites' = Orphelines(visites) /\ efface' = NulMix /\ trouble' = FALSE

\* The address becomes that of a mix: a page that is mounted starts empty.
Arriver(a, v) ==
  /\ adresse' = a
  /\ IF adresse \in Dehors
     THEN affiche' = NulMix /\ profil' = NulMix /\ LancerVisite(a, v) /\ trouble' = FALSE
     ELSE /\ SuivreAdresse(a, affiche, v) /\ UNCHANGED <<affiche, profil>>
          /\ trouble' = (Occupee \/ (Correspond(a, affiche) /\ trouble))

AllerAuMix(a) == a # adresse /\ Arriver(a, visites) /\ UNCHANGED <<publies, efface, laissees>>

\* The reader goes elsewhere, some of these pages having an id of their own.
QuitterPageMix(a) ==
  /\ adresse # a /\ Quittee(a) /\ laissees' = Demandees
  /\ UNCHANGED <<publies, lancees>>

-----------------------------------------------------------------------------
AEtape(v, e) == visites[v].etape = e
PasserA(v, e) == [visites EXCEPT ![v] = AlEtape(@, e, @.id)]

\* The mix is there: shown, and its address replaced when the reader is on an
\* old one, whichever that is.
MixArrive(v) ==
  /\ AEtape(v, "mix") /\ visites[v].cible \in publies
  /\ LET m == visites[v].cible
         a == IF adresse.forme = "ancienne" THEN Canonique(m) ELSE adresse
     IN /\ affiche' = m /\ adresse' = a
        /\ IF a = adresse
           THEN visites' = PasserA(v, "profil") /\ UNCHANGED <<suite, meme, chargement, lancees>>
           ELSE SuivreAdresse(a, m, PasserA(v, "profil"))
  /\ UNCHANGED <<publies, profil, efface, laissees, trouble>>

\* The mix asked for by a page that is no more: nothing is shown, but an
\* address with an id in it is still replaced.
OrphelineArrive(v) ==
  /\ AEtape(v, "orpheline")
  /\ LET seules == [visites EXCEPT ![v] = Close] IN
     IF visites[v].cible \in publies /\ adresse.forme \in {"ancienne", "playlist"}
     THEN Arriver(Canonique(visites[v].cible), seules)
     ELSE visites' = seules /\ UNCHANGED <<adresse, affichage, lancees, trouble>>
  /\ UNCHANGED <<publies, efface, laissees>>

\* A request fails, or the mix is gone: `finally`, and the load stops there.
VisiteEchoue(v) ==
  /\ AEtape(v, "mix") \/ AEtape(v, "profil")
  /\ visites' = [visites EXCEPT ![v] = Close] /\ chargement' = FALSE /\ trouble' = TRUE
  /\ UNCHANGED <<adresse, publies, affiche, profil, suite, meme, lancees, efface, laissees>>

\* The profile is there: the two sections of the mix on display by then are
\* asked for together.
ProfilArrive(v) ==
  /\ AEtape(v, "profil")
  /\ profil' = visites[v].cible /\ chargement' = FALSE
  /\ visites' = [visites EXCEPT ![v] = AlEtape(@, "deux", affiche)]
  /\ UNCHANGED <<adresse, publies, affiche, suite, meme, lancees, efface, laissees, trouble>>

\* A section: its mixes, or nothing after a failure.
SuiteArrive(v) ==
  /\ visites[v].etape \in {"deux", "suite"}
  /\ suite' \in {visites[v].id, NulMix}
  /\ visites' = IF AEtape(v, "deux") THEN PasserA(v, "meme") ELSE [visites EXCEPT ![v] = Close]
  /\ UNCHANGED <<adresse, publies, affiche, profil, meme, chargement, lancees, efface,
                 laissees, trouble>>

MemeArrive(v) ==
  /\ visites[v].etape \in {"deux", "meme"}
  /\ meme' \in {visites[v].id, NulMix}
  /\ visites' = IF AEtape(v, "deux") THEN PasserA(v, "suite") ELSE [visites EXCEPT ![v] = Close]
  /\ UNCHANGED <<adresse, publies, affiche, profil, suite, chargement, lancees, efface,
                 laissees, trouble>>

\* removeMix: the mix on display when the button is pressed.
DemanderSuppression ==
  /\ efface = NulMix /\ affiche # NulMix /\ ~chargement
  /\ efface' = affiche
  /\ UNCHANGED <<adresse, publies, affichage, visites, lancees, laissees, trouble>>

\* Deleted: to the home page, wherever the reader has got to since.
SuppressionReussit(m) ==
  /\ m \in Demandees \cap publies /\ publies' = publies \ {m}
  /\ Quittee([forme |-> "ailleurs", mix |-> NulMix])
  /\ laissees' = Demandees \ {m} /\ UNCHANGED lancees

\* A deletion fails, or finds the mix gone.
SuppressionEchoue(m) ==
  /\ \/ m = efface /\ m # NulMix /\ efface' = NulMix /\ UNCHANGED laissees
     \/ m \in laissees /\ laissees' = laissees \ {m} /\ UNCHANGED efface
  /\ UNCHANGED <<adresse, publies, affichage, visites, lancees, trouble>>

\* Somebody else deletes a mix.
MixRetire(m) ==
  /\ m \in publies /\ publies' = publies \ {m}
  /\ UNCHANGED <<adresse, affichage, visites, lancees, efface, laissees, trouble>>

PagesNext ==
  \/ \E m \in Mixes : \/ AllerAuMix(Ancienne(m)) \/ AllerAuMix(Canonique(m))
                      \/ SuppressionReussit(m) \/ SuppressionEchoue(m) \/ MixRetire(m)
  \/ \E v \in Visites : \/ MixArrive(v) \/ OrphelineArrive(v) \/ VisiteEchoue(v)
                        \/ ProfilArrive(v) \/ SuiteArrive(v) \/ MemeArrive(v)
  \/ \E a \in Dehors : QuitterPageMix(a)
  \/ DemanderSuppression

PagesSpec == PagesInit /\ [][PagesNext]_pagesVars
-----------------------------------------------------------------------------
(* Properties                                                              *)

\* A page with nothing under way has lifted its "Chargement...", and shows the
\* mix, the profile and the sections of its address: rewritings, deletions and
\* loads of pages unmounted before come in between, but nothing since a load
\* started alone has failed or crossed it ("l'ancien mix affiche sous la
\* nouvelle URL").  A section may be missing, its request having failed.
AtRestShownIsAsked ==
  (adresse \notin Dehors /\ ~Occupee)
    => /\ ~chargement
       /\ ~trouble => /\ affiche = adresse.mix /\ profil = adresse.mix
                      /\ {suite, meme} \subseteq {adresse.mix, NulMix}

\* Without that reserve: the page that shows the mix of its address goes on
\* showing it while the address stays ("On suit donc les parametres").
ShownStays ==
  [][(adresse \notin Dehors /\ affiche = adresse.mix /\ adresse' = adresse)
       => affiche' = affiche]_pagesVars
===============================================================================
