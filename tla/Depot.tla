-------------------------------- MODULE Depot --------------------------------
(***************************************************************************)
(* The form that publishes a mix (UploadView.vue): reading an address,     *)
(* importing what was found there, looking for a twin that is online       *)
(* already, choosing where the audio stays, sending.  Each of these is a   *)
(* request; the field and the list have a guard each, the search for a     *)
(* twin has none, and their answers come in any order.                     *)
(***************************************************************************)
EXTENDS Integers

CONSTANTS
  Emissions,   \* broadcasts, by the reference of their source
  Sans         \* none

ASSUME DepotAssumption == Sans \notin Emissions

VARIABLES
  ouvert,      \* the page is mounted
  lecture,     \* sourceLoading
  choix,       \* sourceItems
  enImport,    \* importingRef
  importee,    \* importedSource; the other fields come with it
  garde,       \* keepAudioAtSource
  fichier,     \* audioFile
  image,    \* "aucune", "importee" (coverSourceUrl), "fichier" or "les deux"
  recherches,  \* searches for a twin in flight
  doublon,     \* the twin found, as the broadcast it comes from
  envoi,       \* the mix being sent, or Rien
  enLigne      \* server: broadcasts that have a mix

depotVars == <<ouvert, lecture, choix, enImport, importee, garde, fichier, image, recherches,
               doublon, envoi, enLigne>>

-----------------------------------------------------------------------------
Sources == Emissions \cup {Sans}
RienEnvoye == [source |-> Sans, fichier |-> FALSE]

DepotInit ==
  /\ ouvert = TRUE /\ lecture = FALSE /\ choix = {} /\ enImport = Sans /\ importee = Sans
  /\ garde = FALSE /\ fichier = FALSE /\ image = "aucune"
  /\ recherches = {} /\ doublon = Sans /\ envoi = RienEnvoye
  /\ enLigne \in SUBSET Emissions

\* A page just mounted, or none.
FormulaireVide(o) ==
  /\ ouvert' = o /\ lecture' = FALSE /\ choix' = {} /\ enImport' = Sans /\ importee' = Sans
  /\ garde' = FALSE /\ fichier' = FALSE /\ image' = "aucune"
  /\ recherches' = {} /\ doublon' = Sans /\ envoi' = RienEnvoye

\* useRemoteAudio
AudioALaSource == garde /\ importee # Sans

\* resolveSource, as far as its await.
LireAdresse ==
  /\ ouvert /\ ~lecture /\ lecture' = TRUE /\ choix' = {}
  /\ UNCHANGED <<ouvert, enImport, importee, garde, fichier, image, recherches, doublon,
                 envoi, enLigne>>

\* applyImport: the form follows, a cover chosen by hand stays beside the one
\* that comes; the list goes, and a twin is looked for.
Appliquer(e, avecPochette) ==
  /\ importee' = e /\ choix' = {}
  /\ image' = IF image \in {"fichier", "les deux"}
                 THEN IF avecPochette THEN "les deux" ELSE "fichier"
                 ELSE IF avecPochette THEN "importee" ELSE "aucune"
  /\ doublon' = Sans /\ recherches' = recherches \cup {e}

AdresseLue ==
  /\ lecture /\ lecture' = FALSE
  /\ \/ \E e \in Emissions, p \in BOOLEAN : Appliquer(e, p)
     \/ \E es \in SUBSET Emissions : \* several to choose from; nothing; a failure
          /\ choix' = es
          /\ UNCHANGED <<importee, image, doublon, recherches>>
  /\ UNCHANGED <<ouvert, enImport, garde, fichier, envoi, enLigne>>

\* importItem
Importer(e) ==
  /\ e \in choix /\ enImport = Sans /\ enImport' = e
  /\ UNCHANGED <<ouvert, lecture, choix, importee, garde, fichier, image, recherches, doublon,
                 envoi, enLigne>>

ImportArrive ==
  /\ enImport # Sans /\ enImport' = Sans
  /\ \/ \E p \in BOOLEAN : Appliquer(enImport, p)
     \/ UNCHANGED <<importee, choix, image, doublon, recherches>>
  /\ UNCHANGED <<ouvert, lecture, garde, fichier, envoi, enLigne>>

\* verifierLeDoublon: its answer, or a failure that lets publish.
DoublonCherche(e) ==
  /\ e \in recherches /\ recherches' = recherches \ {e}
  /\ doublon' \in {IF e \in enLigne THEN e ELSE Sans, Sans}
  /\ UNCHANGED <<ouvert, lecture, choix, enImport, importee, garde, fichier, image, envoi,
                 enLigne>>

\* onAudioChange: the field is there unless the audio stays at its source.
ChoisirFichier ==
  /\ ouvert /\ ~AudioALaSource /\ fichier' \in BOOLEAN
  /\ UNCHANGED <<ouvert, lecture, choix, enImport, importee, garde, image, recherches, doublon,
                 envoi, enLigne>>

\* onCoverChange and removeImportedCover
ChangerPochette ==
  /\ ouvert
  /\ \/ image' = "fichier"
     \/ image' = CASE image = "fichier" -> "aucune"
                      [] image = "les deux" -> "importee"
                      [] OTHER -> image
     \/ image = "importee" /\ image' = "aucune"
  /\ UNCHANGED <<ouvert, lecture, choix, enImport, importee, garde, fichier, recherches, doublon,
                 envoi, enLigne>>

\* Mutant: the file chosen before stays, out of sight.
HebergerSansOter(g) ==
  /\ ouvert /\ importee # Sans /\ garde' = g /\ UNCHANGED fichier
  /\ UNCHANGED <<ouvert, lecture, choix, enImport, importee, image, recherches, doublon, envoi,
                 enLigne>>

\* setKeepAudioAtSource, offered after an import.
Heberger(g) ==
  /\ ouvert /\ importee # Sans
  /\ garde' = g /\ fichier' = (fichier /\ ~g)
  /\ UNCHANGED <<ouvert, lecture, choix, enImport, importee, image, recherches, doublon, envoi,
                 enLigne>>

\* onSubmit, its button being disabled meanwhile.
Publier ==
  /\ ouvert /\ envoi = RienEnvoye /\ doublon = Sans
  /\ AudioALaSource \/ fichier
  /\ envoi' = [source |-> IF AudioALaSource THEN importee ELSE Sans,
               fichier |-> ~AudioALaSource]
  /\ UNCHANGED <<ouvert, lecture, choix, enImport, importee, garde, fichier, image, recherches,
                 doublon, enLigne>>

\* The mix is online, whatever the server had by then, and the page leaves;
\* or a failure, which may be only of the answer.
PublicationRepond ==
  /\ envoi # RienEnvoye
  /\ \/ enLigne' = enLigne \cup ({envoi.source} \ {Sans}) /\ FormulaireVide(FALSE)
     \/ /\ enLigne' \in {enLigne, enLigne \cup ({envoi.source} \ {Sans})}
        /\ envoi' = RienEnvoye
        /\ UNCHANGED <<ouvert, lecture, choix, enImport, importee, garde, fichier, image,
                       recherches, doublon>>

\* The page is left; a mix on its way may still arrive.
AbandonnerDepot ==
  /\ ouvert /\ FormulaireVide(FALSE)
  /\ enLigne' \in {enLigne, enLigne \cup ({envoi.source} \ {Sans})}

RouvrirDepot == ~ouvert /\ FormulaireVide(TRUE) /\ UNCHANGED enLigne

\* Another member publishes, or deletes.
AutreDepot(e) ==
  /\ enLigne' \in {enLigne \cup {e}, enLigne \ {e}}
  /\ UNCHANGED <<ouvert, lecture, choix, enImport, importee, garde, fichier, image, recherches,
                 doublon, envoi>>

DepotNext ==
  \/ LireAdresse \/ AdresseLue \/ ImportArrive
  \/ \E e \in Emissions : Importer(e) \/ DoublonCherche(e) \/ AutreDepot(e)
  \/ ChoisirFichier \/ ChangerPochette \/ \E g \in BOOLEAN : Heberger(g)
  \/ Publier \/ PublicationRepond \/ AbandonnerDepot \/ RouvrirDepot

DepotSpec == DepotInit /\ [][DepotNext]_depotVars

-----------------------------------------------------------------------------
(* Properties                                                              *)

\* The choice of where the audio stays and the file that would be sent agree,
\* whatever imports land meanwhile: a file that is still held while its field
\* is hidden would be one "the user can no longer see or remove".
KeptSourceHasNoFile == AudioALaSource => ~fichier
===============================================================================
