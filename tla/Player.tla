------------------------------- MODULE Player -------------------------------
(***************************************************************************)
(* The bar that plays (PlayerBar.vue, stores/player.ts, utils/soundcloud.ts*)
(* and utils/mixcloud.ts): one mix at a time, through an <audio> element   *)
(* or through the widget of Mixcloud or SoundCloud, an iframe of its own   *)
(* for each change of mix.  Bringing a widget up is an asynchronous run    *)
(* that later choices of the listener overtake.  A run is named by the     *)
(* frame it was started for.                                               *)
(***************************************************************************)
EXTENDS Integers

CONSTANTS
  Fichiers, Mixclouds, Soundclouds,   \* mixes, by sourceType
  Rien,                               \* no mix
  MaxCadres                           \* bound: changes of mix

ASSUME PlayerAssumption ==
  MaxCadres \in Nat /\ Fichiers \cap (Mixclouds \cup Soundclouds) = {}

VARIABLES
  courant,   \* currentMix
  joue,      \* isPlaying
  minutage,  \* pendingSeekSec is set
  cadre,     \* the element now in the page, numbered
  courses,   \* by frame, the mix of the run it was given to and how far it is
  moteur,    \* widget or soundcloudWidget: the frame it drives, or 0
  charge,    \* widgetLoading
  pret,      \* widgetLoaded; for <audio>, readyState >= 1
  entendu,   \* widgetHasPlayed
  voulu,     \* playWhenLoaded
  erreur,    \* widgetError or audioError: the frame whose run raised it, or 0
  son        \* what the element does: "muet", "demande" or "sonne"

playerVars == <<courant, joue, minutage, cadre, courses, moteur, charge, pret,
                entendu, voulu, erreur, son>>

-----------------------------------------------------------------------------
MixLus == Fichiers \cup Mixclouds \cup Soundclouds
AvecWidget(m) == m \in Mixclouds \cup Soundclouds
Cadres == 1..MaxCadres
Repos == [mix |-> Rien, etape |-> "finie"]

PlayerInit ==
  /\ courant = Rien /\ joue = FALSE /\ minutage = FALSE
  /\ cadre = 0 /\ courses = [r \in Cadres |-> Repos]
  /\ moteur = 0 /\ charge = FALSE /\ pret = FALSE /\ entendu = FALSE /\ voulu = FALSE
  /\ erreur = 0 /\ son = "muet"

\* Is an engine taking commands?
Commande == pret /\ (AvecWidget(courant) => moteur # 0)

\* The watcher of isPlaying, in the call stack of what changed it.  Here and in
\* Changer, hasUserActivation() is TRUE: whoever asks to play does it by a click.
Suspendre ==
  /\ joue' = FALSE
  /\ IF AvecWidget(courant)
     THEN /\ voulu' = FALSE /\ charge' = FALSE
          /\ son' = IF moteur # 0 THEN "muet" ELSE son
     ELSE son' = "muet" /\ UNCHANGED <<voulu, charge>>

\* Mutant: a resumption does not wait for the widget to say it plays.
ReprendreSansAttendre ==
  /\ joue' = TRUE
  /\ IF AvecWidget(courant)
     THEN IF Commande THEN son' = "demande" /\ UNCHANGED <<voulu, charge>>
          ELSE voulu' = TRUE /\ charge' = TRUE /\ UNCHANGED son
     ELSE son' = "demande" /\ UNCHANGED <<voulu, charge>>

Reprendre ==
  /\ joue' = TRUE
  /\ IF AvecWidget(courant)
     THEN /\ charge' = TRUE
          /\ IF Commande THEN son' = "demande" /\ UNCHANGED voulu
             ELSE voulu' = TRUE /\ UNCHANGED son
     ELSE son' = "demande" /\ UNCHANGED <<voulu, charge>>

\* Another mix: its watcher tears the widget down and starts a run on a new
\* frame.  The watcher of the timecode runs before the page is rendered: it
\* still finds the element of the mix that is leaving.
Changer(m, lecture, demande) ==
  /\ m # courant /\ cadre < MaxCadres
  /\ courant' = m /\ joue' = lecture /\ voulu' = lecture
  /\ cadre' = cadre + 1
  /\ courses' = IF AvecWidget(m) THEN [courses EXCEPT ![cadre + 1] = [mix |-> m, etape |-> "script"]]
                ELSE courses
  /\ moteur' = 0 /\ pret' = FALSE /\ entendu' = FALSE /\ erreur' = 0
  /\ charge' = AvecWidget(m)
  /\ son' = IF AvecWidget(m) \/ ~lecture THEN "muet" ELSE "demande"
  /\ LET encore == demande /\ courant \in Fichiers /\ pret
     IN minutage' = (demande /\ ~encore)

-----------------------------------------------------------------------------
\* load: an embedded player shows its mix and waits.
Charger(m) == Changer(m, FALSE, FALSE)

\* play
Lire(m) ==
  \/ Changer(m, TRUE, FALSE)
  \/ /\ m = courant /\ ~joue /\ Reprendre
     /\ UNCHANGED <<courant, minutage, cadre, courses, moteur, pret, entendu, erreur>>

\* playAt
LireA(m) ==
  \/ Changer(m, TRUE, TRUE)
  \/ /\ m = courant
     /\ IF joue THEN UNCHANGED <<joue, voulu, charge, son>> ELSE Reprendre
     /\ minutage' = ~Commande
     /\ UNCHANGED <<courant, cadre, courses, moteur, pret, entendu, erreur>>

\* The button of the bar, disabled after a failure.
Basculer ==
  /\ courant # Rien /\ erreur = 0
  /\ IF joue THEN Suspendre ELSE Reprendre
  /\ UNCHANGED <<courant, minutage, cadre, courses, moteur, pret, entendu, erreur>>

\* What else stops the sound: the menu that shares, a stream from elsewhere.
Couper ==
  /\ joue /\ Suspendre
  /\ UNCHANGED <<courant, minutage, cadre, courses, moteur, pret, entendu, erreur>>

-----------------------------------------------------------------------------
\* isCurrentMix, asked after every await.
EncoreLeSien(r) == courses[r].mix = courant

Courir(r, de, vers) ==
  /\ courses[r].etape = de
  /\ courses' = [courses EXCEPT ![r] = IF vers = "finie" THEN Repos ELSE [courses[r] EXCEPT !.etape = vers]]

Perimer(r, de) ==
  /\ Courir(r, de, "finie")
  /\ UNCHANGED <<courant, joue, minutage, cadre, moteur, charge, pret, entendu, voulu, erreur,
                 son>>

\* A failure is told, the loading ends and the bar pauses.
Abandonner(r) ==
  /\ erreur' = r
  /\ IF joue THEN Suspendre ELSE charge' = FALSE /\ UNCHANGED <<joue, voulu, son>>
  /\ UNCHANGED <<courant, minutage, cadre, moteur, pret, entendu>>

\* The script of the widget's site is there; or is not.
ScriptArrive(r) ==
  IF EncoreLeSien(r)
  THEN \/ /\ Courir(r, "script", "attente")
          /\ UNCHANGED <<courant, joue, minutage, cadre, moteur, charge, pret, entendu, voulu,
                         erreur, son>>
       \/ Courir(r, "script", "finie") /\ Abandonner(r)
  ELSE Perimer(r, "script")

\* A frame that is in the page answers `ready`: one that left it never does.
PretRepond(r) ==
  /\ r = cadre
  /\ IF EncoreLeSien(r)
     THEN /\ moteur' = r
          /\ IF courant \in Mixclouds
             THEN /\ Courir(r, "attente", "sonde")
                  /\ UNCHANGED <<pret, charge, son>>
             ELSE /\ Courir(r, "attente", "duree")
                  /\ pret' = TRUE /\ charge' = FALSE
                  /\ son' = IF voulu THEN "demande" ELSE son
          /\ UNCHANGED <<courant, joue, minutage, cadre, entendu, voulu, erreur>>
     ELSE Perimer(r, "attente")

\* The 15 seconds are over, or the widget announced its own failure.
PretExpire(r) ==
  IF EncoreLeSien(r) THEN Courir(r, "attente", "finie") /\ Abandonner(r)
  ELSE Perimer(r, "attente")

\* Mutant: after the call, the widget in place is not looked at again.
SonderSansRelire(r) ==
  \/ /\ Courir(r, "sonde", "finie")
     /\ pret' = TRUE /\ voulu' = FALSE
     /\ son' = IF voulu /\ moteur = r THEN "demande" ELSE son
     /\ charge' = IF voulu THEN charge ELSE FALSE
     /\ minutage' = FALSE
     /\ UNCHANGED <<courant, joue, cadre, moteur, entendu, erreur>>
  \/ Courir(r, "sonde", "finie") /\ Abandonner(r)

\* awaitCloudcast: a duration proves that the cloudcast is loaded, and what
\* was asked meanwhile is done; none ever comes, and the run gives up.
Sonder(r) ==
  IF moteur # r THEN Perimer(r, "sonde")
  ELSE \/ /\ Courir(r, "sonde", "finie")
          /\ pret' = TRUE /\ voulu' = FALSE
          /\ son' = IF voulu THEN "demande" ELSE son
          /\ charge' = IF voulu THEN charge ELSE FALSE
          /\ minutage' = FALSE
          /\ UNCHANGED <<courant, joue, cadre, moteur, entendu, erreur>>
       \/ Courir(r, "sonde", "finie") /\ Abandonner(r)

\* The duration of a SoundCloud track, or 0 after three seconds.
DureeArrive(r) ==
  IF EncoreLeSien(r)
  THEN /\ Courir(r, "duree", "finie")
       /\ minutage' = (minutage /\ ~Commande)
       /\ UNCHANGED <<courant, joue, cadre, moteur, charge, pret, entendu, voulu, erreur, son>>
  ELSE Perimer(r, "duree")

-----------------------------------------------------------------------------
\* Events of the widget in place.
WidgetJoue ==
  /\ moteur # 0 /\ son = "demande"
  /\ son' = "sonne" /\ entendu' = TRUE /\ charge' = FALSE /\ erreur' = 0
  /\ UNCHANGED <<courant, joue, minutage, cadre, courses, moteur, pret, voulu>>

\* A Mixcloud widget says `pause`: followed once it has been heard.
WidgetPause ==
  /\ moteur # 0 /\ courant \in Mixclouds /\ entendu /\ joue /\ Suspendre
  /\ UNCHANGED <<courant, minutage, cadre, courses, moteur, pret, entendu, erreur>>

WidgetEchoue ==
  /\ moteur # 0 /\ courant \in Mixclouds
  /\ Abandonner(cadre) /\ UNCHANGED courses

\* The end of the mix, whatever plays it.
Terminer ==
  /\ son = "sonne" /\ joue /\ Suspendre
  /\ UNCHANGED <<courant, minutage, cadre, courses, moteur, pret, entendu, erreur>>

\* <audio>: its metadata are there, and a timecode that waited is applied.
Metadonnees ==
  /\ courant \in Fichiers /\ ~pret /\ erreur = 0
  /\ pret' = TRUE /\ minutage' = FALSE
  /\ UNCHANGED <<courant, joue, cadre, courses, moteur, charge, entendu, voulu, erreur, son>>

AudioJoue ==
  /\ courant \in Fichiers /\ pret /\ son = "demande" /\ son' = "sonne"
  /\ UNCHANGED <<courant, joue, minutage, cadre, courses, moteur, charge, pret, entendu, voulu,
                 erreur>>

AudioEchoue ==
  /\ courant \in Fichiers /\ erreur = 0
  /\ erreur' = cadre
  /\ IF joue THEN Suspendre ELSE UNCHANGED <<joue, voulu, charge, son>>
  /\ UNCHANGED <<courant, minutage, cadre, courses, moteur, pret, entendu>>

PlayerNext ==
  \/ \E m \in MixLus : Charger(m) \/ Lire(m) \/ LireA(m)
  \/ Basculer \/ Couper
  \/ \E r \in Cadres : \/ ScriptArrive(r) \/ PretRepond(r) \/ PretExpire(r)
                       \/ Sonder(r) \/ DureeArrive(r)
  \/ WidgetJoue \/ WidgetPause \/ WidgetEchoue \/ Terminer
  \/ Metadonnees \/ AudioJoue \/ AudioEchoue

PlayerSpec == PlayerInit /\ [][PlayerNext]_playerVars

-----------------------------------------------------------------------------
(* What was asked for is never forgotten: a bar that says it plays, and     *)
(* shows no failure, either holds the wish to play or has passed it on to   *)
(* the engine of the mix it shows, whatever older runs are still going on.  *)
WishKept ==
  joue /\ erreur = 0 /\ AvecWidget(courant) => voulu \/ son \in {"demande", "sonne"}

(* The bar says that a Mixcloud mix plays, and no longer that it loads,     *)
(* only once its widget has been heard.                                     *)
NoClaimBeforeSound ==
  courant \in Mixclouds /\ joue /\ ~charge /\ erreur = 0 => son = "sonne"
=============================================================================
