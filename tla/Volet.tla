-------------------------------- MODULE Volet --------------------------------
(***************************************************************************)
(* The veil that covers a navigation until the covers of the new page are  *)
(* there (useTransitionDePage.ts, called by the router and by CoverImage). *)
(* Four timers, a count of images that views mount, change and drop at     *)
(* their own pace, and navigations that start again in the middle of it.   *)
(***************************************************************************)
EXTENDS Integers

CONSTANTS
  Montee, Grace, Attente, Sortie,   \* the four delays, in ticks
  Pochettes,                        \* CoverImage components
  MaxCompte                         \* bound: images awaited at a time

ASSUME VoletAssumption ==
  /\ {Montee, Grace, Attente, Sortie} \subseteq Nat \ {0}
  /\ Grace < Montee /\ Montee <= Attente /\ MaxCompte \in Nat

VARIABLES
  visible, sortie,  \* the refs of the module
  enAttente,        \* images announced and not there
  montee,           \* the veil is rising
  leveeEnAttente,   \* it was told to leave while rising
  silence,          \* navigationSilencieuse
  minuteries,       \* ticks left on each timer, or Eteinte
  pochette,         \* each component: absent, without image, awaited or there
  age               \* history: ticks since the veil was put down

voletVars == <<visible, sortie, enAttente, montee, leveeEnAttente, silence, minuteries,
               pochette, age>>

-----------------------------------------------------------------------------
Eteinte == -1
Toutes == {"montee", "maximum", "grace", "sortie"}
Due(t) == minuteries[t] = 0
Eteindre(t) == [minuteries EXCEPT ![t] = Eteinte]

VoletInit ==
  /\ visible = FALSE /\ sortie = FALSE /\ enAttente = 0
  /\ montee = FALSE /\ leveeEnAttente = FALSE /\ silence = FALSE
  /\ minuteries = [t \in Toutes |-> Eteinte]
  /\ pochette = [p \in Pochettes |-> "absente"]
  /\ age = 0

\* leverMaintenant, from a state of the timers.
LeverMaintenant(m) ==
  IF ~visible \/ sortie THEN minuteries' = m /\ UNCHANGED sortie
  ELSE sortie' = TRUE /\ minuteries' = [m EXCEPT !["sortie"] = Sortie]

\* A veil that rises keeps the order for when it is up.
Lever(m) ==
  IF visible /\ ~sortie /\ montee
  THEN leveeEnAttente' = TRUE /\ minuteries' = m /\ UNCHANGED sortie
  ELSE LeverMaintenant(m) /\ UNCHANGED leveeEnAttente

\* taireLeProchainVoile
Taire ==
  /\ silence' = TRUE
  /\ UNCHANGED <<visible, sortie, enAttente, montee, leveeEnAttente, minuteries, pochette, age>>

\* Mutant: a veil that was leaving is put down without a word about it.
CouvrirEnSortant ==
  IF silence
  THEN /\ silence' = FALSE
       /\ UNCHANGED <<visible, sortie, enAttente, montee, leveeEnAttente, minuteries, pochette,
                      age>>
  ELSE /\ visible' = TRUE /\ enAttente' = 0
       /\ montee' = TRUE /\ leveeEnAttente' = FALSE
       /\ minuteries' = [t \in Toutes |->
            CASE t = "montee" -> Montee [] t = "maximum" -> Attente
              [] t = "grace" -> Grace [] t = "sortie" -> Eteinte]
       /\ age' = 0
       /\ UNCHANGED <<sortie, silence, pochette>>

\* couvrirLaPage, after each navigation, before the next view is mounted.
Couvrir ==
  IF silence
  THEN /\ silence' = FALSE
       /\ UNCHANGED <<visible, sortie, enAttente, montee, leveeEnAttente, minuteries, pochette,
                      age>>
  ELSE /\ visible' = TRUE /\ sortie' = FALSE /\ enAttente' = 0
       /\ montee' = TRUE /\ leveeEnAttente' = FALSE
       /\ minuteries' = [t \in Toutes |->
            CASE t = "montee" -> Montee [] t = "maximum" -> Attente
              [] t = "grace" -> Grace [] t = "sortie" -> Eteinte]
       /\ age' = 0
       /\ UNCHANGED <<silence, pochette>>

-----------------------------------------------------------------------------
(* Timers                                                                  *)

FinMontee ==
  /\ Due("montee") /\ montee' = FALSE
  /\ IF leveeEnAttente THEN LeverMaintenant(Eteindre("montee"))
     ELSE minuteries' = Eteindre("montee") /\ UNCHANGED sortie
  /\ UNCHANGED <<visible, enAttente, leveeEnAttente, silence, pochette, age>>

FinAttente ==
  /\ Due("maximum") /\ Lever(Eteindre("maximum"))
  /\ UNCHANGED <<visible, enAttente, montee, silence, pochette, age>>

FinGrace ==
  /\ Due("grace")
  /\ IF enAttente = 0 THEN Lever(Eteindre("grace"))
     ELSE minuteries' = Eteindre("grace") /\ UNCHANGED <<sortie, leveeEnAttente>>
  /\ UNCHANGED <<visible, enAttente, montee, silence, pochette, age>>

FinSortie ==
  /\ Due("sortie") /\ minuteries' = Eteindre("sortie")
  /\ visible' = FALSE /\ sortie' = FALSE /\ enAttente' = 0
  /\ UNCHANGED <<montee, leveeEnAttente, silence, pochette, age>>

\* A timer that is due fires before time goes on.
TicVolet ==
  /\ visible /\ \A t \in Toutes : ~Due(t)
  /\ minuteries' = [t \in Toutes |-> IF minuteries[t] = Eteinte THEN Eteinte ELSE minuteries[t] - 1]
  /\ age' = IF age > Attente + Sortie THEN age ELSE age + 1
  /\ UNCHANGED <<visible, sortie, enAttente, montee, leveeEnAttente, silence, pochette>>

-----------------------------------------------------------------------------
(* CoverImage                                                              *)

Attendue == enAttente < MaxCompte /\ enAttente' = enAttente + 1

\* signalerImage.arrivee, once per image: marquerArrivee.
Arrivee ==
  /\ enAttente' = IF enAttente = 0 THEN 0 ELSE enAttente - 1
  /\ IF enAttente' = 0 /\ visible THEN Lever(minuteries)
     ELSE UNCHANGED <<sortie, leveeEnAttente, minuteries>>

\* Mounted, with an image or none; or the image of a component changes, even
\* before the former one is there.
Annoncer(p) ==
  /\ \/ pochette' = [pochette EXCEPT ![p] = "attendue"] /\ Attendue
     \/ pochette' = [pochette EXCEPT ![p] = "sans image"] /\ UNCHANGED enAttente
  /\ UNCHANGED <<visible, sortie, montee, leveeEnAttente, silence, minuteries, age>>

\* `load`, `error`, or the cache.
ArriverPochette(p) ==
  /\ pochette[p] = "attendue"
  /\ pochette' = [pochette EXCEPT ![p] = "la"]
  /\ Arrivee
  /\ UNCHANGED <<visible, montee, silence, age>>

\* Unmounted, its image there or not: nothing is announced.
Demonter(p) ==
  /\ pochette[p] # "absente"
  /\ pochette' = [pochette EXCEPT ![p] = "absente"]
  /\ UNCHANGED <<visible, sortie, enAttente, montee, leveeEnAttente, silence, minuteries, age>>

VoletNext ==
  \/ Taire \/ Couvrir
  \/ FinMontee \/ FinAttente \/ FinGrace \/ FinSortie \/ TicVolet
  \/ \E p \in Pochettes : Annoncer(p) \/ ArriverPochette(p) \/ Demonter(p)

VoletSpec == VoletInit /\ [][VoletNext]_voletVars

-----------------------------------------------------------------------------
(* Properties                                                              *)

\* The veil hides the whole site: whatever its images do, and wherever a
\* navigation catches it, it is gone when the longest delay and its own exit
\* are over ("pour qu'il se leve TOUJOURS").
VeilLifts == visible => age <= Attente + Sortie
===============================================================================
