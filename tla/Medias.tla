-------------------------------- MODULE Medias --------------------------------
(***************************************************************************)
(* The media of the catalogue: rows of PostgreSQL that name objects of the *)
(* R2 bucket, which no transaction covers together.  A request puts its    *)
(* files in the bucket while multer reads it, then writes a row, then      *)
(* deletes what the row no longer names; two backfill scripts walk the     *)
(* same rows.  Between two awaits of one, the others move.                 *)
(*                                                                         *)
(* A key is a number, drawn once (randomUUID); 0 is SQL NULL.  The row of  *)
(* a mix and the row of an account are both a "cible" here, each with one  *)
(* image column: cover of a mix, picture of an account (its two image      *)
(* columns are handled alike).  Values that name no object of the bucket   *)
(* (a path of the old disk store, a remote address) are left out:          *)
(* r2KeysOnly drops them before any deletion.                              *)
(***************************************************************************)
EXTENDS Integers, FiniteSets

CONSTANTS
  Mixes,      \* rows a mix can take
  Comptes,    \* accounts
  Requetes,   \* requests and scripts in flight at the same time
  Aucun,      \* nobody
  NbCles,     \* bound on the keys drawn
  Brutes,     \* keys stored before images were converted on arrival
  Demandes    \* what the body of a request says of the source

\* Which of its three columns a source has, or a body carries.
Source == [type : BOOLEAN, ref : BOOLEAN, page : BOOLEAN]
SansSource == [type |-> FALSE, ref |-> FALSE, page |-> FALSE]

ASSUME MediasAssumption ==
  /\ Aucun \notin Mixes \cup Comptes /\ Mixes \cap Comptes = {}
  /\ NbCles \in Nat /\ Brutes = 1..Cardinality(Brutes) /\ Cardinality(Brutes) \in 0..NbCles
  /\ SansSource \in Demandes /\ Demandes \subseteq Source

VARIABLES
  presente,   \* rows that exist, mixes and accounts
  image,      \* the image column of each row
  ligne,      \* the other columns of a mix that matter here
  objets,     \* keys of the bucket
  reduites,   \* images whose reduced versions are in the bucket
  tirees,     \* keys drawn so far
  requete,    \* what each request or script is doing
  perdus      \* history: objects left behind by a cause the code names

base == <<presente, image, ligne>>
bucket == <<objets, reduites, tirees>>
mediasVars == <<base, bucket, requete, perdus>>

-----------------------------------------------------------------------------
Cibles == Mixes \cup Comptes
Cles == 1..NbCles

Vide == [auteur |-> Aucun, audio |-> 0, source |-> SansSource]

Libre == [quoi |-> "libre", etape |-> "", cible |-> Aucun, compte |-> Aucun, audio |-> 0,
          cover |-> 0, dto |-> SansSource, lu |-> Vide, ancienne |-> 0,
          jeter |-> {}, reste |-> {}]

\* What rows name, and what a request holds that no row names yet.
Nommes ==
  {image[c] : c \in presente} \cup {ligne[m].audio : m \in Mixes \cap presente}
EnMain(q) == {q.audio, q.cover} \cup q.jeter

MediasTypeOK ==
  /\ presente \in SUBSET Cibles
  /\ image \in [Cibles -> 0..NbCles]
  /\ ligne \in [Mixes -> [auteur : Comptes \cup {Aucun}, audio : 0..NbCles, source : Source]]
  /\ objets \in SUBSET Cles /\ reduites \in SUBSET Cles
  /\ tirees \in 0..NbCles
  /\ \A r \in Requetes :
       /\ requete[r].cible \in Cibles \cup {Aucun}
       /\ requete[r].compte \in Comptes \cup {Aucun}
       /\ {requete[r].audio, requete[r].cover, requete[r].ancienne} \subseteq 0..NbCles
       /\ requete[r].jeter \in SUBSET Cles
       /\ requete[r].reste \in SUBSET (Cibles \X Cles)
  /\ perdus \in SUBSET Cles

MediasInit ==
  /\ presente \in {Comptes} \cup {Comptes \cup {m} : m \in Mixes}
  /\ \E ks \in [presente -> Brutes \cup {0}] :
       /\ \A c, d \in presente : ks[c] = ks[d] /\ ks[c] # 0 => c = d
       /\ image = [c \in Cibles |-> IF c \in presente THEN ks[c] ELSE 0]
       /\ objets = {ks[c] : c \in presente} \ {0}
  /\ \E u \in Comptes :
       ligne = [m \in Mixes |->
                  IF m \in presente
                  THEN [Vide EXCEPT !.auteur = u, !.source = [SansSource EXCEPT !.type = TRUE, !.ref = TRUE]]
                  ELSE Vide]
  /\ reduites = {}
  /\ tirees = Cardinality(Brutes)
  /\ requete = [r \in Requetes |-> Libre]
  /\ perdus = {}

-----------------------------------------------------------------------------
(* The storage engine                                                      *)

\* putBufferToR2, or multer-s3 for the audio: an object under a fresh key.
Poser ==
  /\ tirees < NbCles
  /\ tirees' = tirees + 1
  /\ objets' = objets \cup {tirees + 1}

\* ecrireLesVariantes swallows its failures: the versions are there, or not.
Reduire(k) == reduites' \in {reduites, reduites \cup {k}}

\* DeleteObjects fails as a whole or key by key, and says nothing; what it
\* takes goes with its reduced versions.
Effacer(ks) ==
  \E pris \in SUBSET (ks \cap objets) :
    /\ objets' = objets \ pris
    /\ reduites' = reduites \ pris
    /\ perdus' = perdus \cup ((ks \cap objets) \ pris)
    /\ UNCHANGED tirees

\* The request ends and what it had put stays in the bucket for good.
AbandonnerEnRoute(r) ==
  /\ perdus' = perdus \cup ({requete[r].audio, requete[r].cover} \ {0})
  /\ requete' = [requete EXCEPT ![r] = Libre]
  /\ UNCHANGED <<base, bucket>>

Avancer(r, e) == requete' = [requete EXCEPT ![r].etape = e]

-----------------------------------------------------------------------------
(* Every request that carries files                                        *)

\* A create, an update, a deletion or a new picture reaches the server.
Recevoir(r, u, c, quoi, dto) ==
  /\ requete[r] = Libre
  /\ quoi \in (IF c \in Mixes THEN {"creer", "modifier", "supprimer"} ELSE {"image"})
  /\ c \in Comptes => c = u /\ dto = SansSource
  /\ quoi = "supprimer" => dto = SansSource
  /\ quoi = "creer" <=> c \in Mixes /\ ligne[c] = Vide
  /\ requete' = [requete EXCEPT ![r] =
       [Libre EXCEPT !.quoi = quoi, !.cible = c, !.compte = u, !.dto = dto,
                     !.etape = IF quoi = "supprimer" THEN "lire" ELSE "fichiers"]]
  /\ UNCHANGED <<base, bucket, perdus>>

\* multer streams the audio of a create straight to the bucket.
DeposerAudio(r) ==
  /\ requete[r].quoi = "creer" /\ requete[r].etape = "fichiers" /\ requete[r].audio = 0
  /\ Poser
  /\ requete' = [requete EXCEPT ![r].audio = tirees + 1]
  /\ UNCHANGED <<base, reduites, perdus>>

\* An image is read whole, converted, put, then reduced.
DeposerImage(r) ==
  /\ requete[r].etape = "fichiers" /\ requete[r].cover = 0
  /\ Poser
  /\ Reduire(tirees + 1)
  /\ requete' = [requete EXCEPT ![r].cover = tirees + 1]
  /\ UNCHANGED <<base, perdus>>

\* A later file is refused: multer removes those it had already handed over.
RefuserFichier(r) ==
  /\ requete[r].etape = "fichiers"
  /\ requete' = [requete EXCEPT ![r] = Libre]
  /\ Effacer({requete[r].audio, requete[r].cover} \ {0})
  /\ UNCHANGED base

\* The whole body is read: the handler begins.
Intercepter(r) ==
  /\ requete[r].etape = "fichiers"
  /\ Avancer(r, IF requete[r].quoi = "creer" THEN "controler" ELSE "lire")
  /\ UNCHANGED <<base, bucket, perdus>>

-----------------------------------------------------------------------------
(* Creation                                                                *)

\* Mutant: both sources at once are let through.
UneSourceAuMoins(audio, s) == s.type = s.ref /\ (audio # 0 \/ s.type)

\* assertExactlyOneAudioSource
UneSeuleSource(audio, s) == s.type = s.ref /\ (audio # 0) # s.type

\* assertSourcePageHasASource
PageAvecSource(s) == s.page => s.ref

\* Controller and service share the check; refused here, what multer already
\* wrote stays behind (the gap the controller's comment names).
Controler(r) ==
  /\ requete[r].etape = "controler"
  /\ IF UneSeuleSource(requete[r].audio, requete[r].dto) /\ PageAvecSource(requete[r].dto)
     THEN Avancer(r, "pochette") /\ UNCHANGED <<base, bucket, perdus>>
     ELSE AbandonnerEnRoute(r)

\* resolveCoverUrl: the uploaded cover wins; else the source's, at best.
Pochette(r) ==
  /\ requete[r].etape = "pochette"
  /\ \/ Avancer(r, "inserer") /\ UNCHANGED bucket
     \/ /\ requete[r].cover = 0
        /\ Poser /\ Reduire(tirees + 1)
        /\ requete' = [requete EXCEPT ![r].etape = "inserer", ![r].cover = tirees + 1]
  /\ UNCHANGED <<base, perdus>>

\* createFromImport enters here, for a remote source and no file.
CreerDepuisImport(r, u, m, page) ==
  /\ requete[r] = Libre /\ ligne[m] = Vide
  /\ requete' = [requete EXCEPT ![r] =
       [Libre EXCEPT !.quoi = "creer", !.cible = m, !.compte = u, !.etape = "pochette",
                     !.dto = [type |-> TRUE, ref |-> TRUE, page |-> page]]]
  /\ UNCHANGED <<base, bucket, perdus>>

\* The insertion fails on a slug taken meanwhile or on an account that left.
Inserer(r) ==
  /\ requete[r].etape = "inserer"
  /\ LET q == requete[r] IN
     \/ AbandonnerEnRoute(r)
     \/ /\ q.compte \in presente /\ ligne[q.cible] = Vide
        /\ presente' = presente \cup {q.cible}
        /\ image' = [image EXCEPT ![q.cible] = q.cover]
        /\ ligne' = [ligne EXCEPT ![q.cible] =
             [auteur |-> q.compte, audio |-> q.audio, source |-> q.dto]]
        /\ requete' = [requete EXCEPT ![r] = Libre]
        /\ UNCHANGED <<bucket, perdus>>

-----------------------------------------------------------------------------
(* Update, deletion, pictures of an account                                *)

\* What an update leaves of the source: each field it carries, else the one
\* it read.  A field of `dto` is TRUE when the update carries it.
SourceLaissee(lu, dto) ==
  [type |-> lu.type \/ dto.type, ref |-> lu.ref \/ dto.ref, page |-> lu.page \/ dto.page]

\* The checks of `update`, on the row it read.
Acceptable(lu, dto) ==
  LET s == SourceLaissee(lu.source, dto)
  IN /\ dto.type \/ dto.ref => UneSeuleSource(lu.audio, s)
     /\ dto.page => PageAvecSource(s)

\* What it writes over the source s: the page it carries, or none if it
\* carries an empty one (vide), which nothing refuses; type and reference
\* together, from the row it read.
SourceEcrite(s, lu, dto, vide) ==
  [type |-> IF dto.type \/ dto.ref THEN lu.type \/ dto.type ELSE s.type,
   ref |-> IF dto.type \/ dto.ref THEN lu.ref \/ dto.ref ELSE s.ref,
   page |-> dto.page \/ (s.page /\ ~vide)]

\* findUnique, the owner check and the refusals, before any write.
LireMix(r) ==
  /\ requete[r].etape = "lire" /\ requete[r].quoi \in {"modifier", "supprimer"}
  /\ LET q == requete[r]
         m == q.cible
     IN IF /\ m \in presente /\ ligne[m].auteur = q.compte
           /\ Acceptable(ligne[m], q.dto)
        THEN /\ requete' = [requete EXCEPT ![r] =
                  [q EXCEPT !.etape = "ecrire", !.lu = ligne[m], !.ancienne = image[m]]]
             /\ UNCHANGED <<base, bucket, perdus>>
        ELSE AbandonnerEnRoute(r)

\* The write of an update; the row may be gone since it was read (P2025), and
\* another update may have put a cover that nothing will delete.
EcrireMix(r) ==
  /\ requete[r].quoi = "modifier" /\ requete[r].etape = "ecrire"
  /\ LET q == requete[r]
         m == q.cible
         remplacee == q.cover # 0 /\ q.ancienne # 0
     IN IF m \notin presente THEN AbandonnerEnRoute(r)
        ELSE /\ image' = [image EXCEPT ![m] = IF q.cover # 0 THEN q.cover ELSE @]
             /\ \E vide \in BOOLEAN :
                  ligne' = [ligne EXCEPT ![m].source = SourceEcrite(@, q.lu.source, q.dto, vide)]
             /\ perdus' = IF q.cover # 0 /\ image[m] \notin {0, q.ancienne}
                          THEN perdus \cup {image[m]} ELSE perdus
             /\ requete' = [requete EXCEPT ![r] =
                  IF remplacee
                  THEN [Libre EXCEPT !.quoi = "modifier", !.etape = "effacer", !.jeter = {q.ancienne}]
                  ELSE Libre]
             /\ UNCHANGED <<presente, bucket>>

\* Mutant: a deleted mix leaves its audio in the bucket.
AJeterSansAudio(q) == {q.ancienne} \ {0}

\* What a deletion takes out of the bucket: what it read, not what is there.
AJeter(q) == {q.lu.audio, q.ancienne} \ {0}

\* A deletion: the row goes first, so that a failure leaves an orphan and
\* never a mix with a dead audio.
SupprimerLigne(r) ==
  /\ requete[r].quoi = "supprimer" /\ requete[r].etape = "ecrire"
  /\ LET q == requete[r]
         m == q.cible
     IN IF m \notin presente THEN AbandonnerEnRoute(r)
        ELSE /\ presente' = presente \ {m}
             /\ image' = [image EXCEPT ![m] = 0]
             /\ ligne' = [ligne EXCEPT ![m].audio = 0]
             /\ perdus' = perdus \cup ({image[m]} \ {0, q.ancienne})
             /\ requete' = [requete EXCEPT ![r] =
                  [Libre EXCEPT !.quoi = "supprimer", !.etape = "effacer", !.jeter = AJeter(q)]]
             /\ UNCHANGED bucket

\* Once the row is written, the objects it no longer names.
EffacerAnciens(r) ==
  /\ requete[r].etape = "effacer"
  /\ Effacer(requete[r].jeter)
  /\ requete' = [requete EXCEPT ![r] =
       IF requete[r].quoi = "webp"
       THEN [Libre EXCEPT !.quoi = "webp", !.etape = "parcours", !.reste = requete[r].reste]
       ELSE Libre]
  /\ UNCHANGED base

\* A picture without a file is refused, then requireUsername: so is an account
\* without a name.
LireCompte(r) ==
  /\ requete[r].quoi = "image" /\ requete[r].etape = "lire"
  /\ \/ AbandonnerEnRoute(r)
     \/ /\ requete[r].cible \in presente /\ requete[r].cover # 0
        /\ Avancer(r, "ecrire")
        /\ UNCHANGED <<base, bucket, perdus>>

\* updateAvatar and updateCover never delete what they replace.
EcrireImage(r) ==
  /\ requete[r].quoi = "image" /\ requete[r].etape = "ecrire"
  /\ LET u == requete[r].cible IN
     IF u \notin presente THEN AbandonnerEnRoute(r)
     ELSE /\ image' = [image EXCEPT ![u] = requete[r].cover]
          /\ perdus' = perdus \cup ({image[u]} \ {0})
          /\ requete' = [requete EXCEPT ![r] = Libre]
          /\ UNCHANGED <<presente, ligne, bucket>>

\* deleteAccount: the database cascades to the mixes, the bucket is not told.
SupprimerCompte(u) ==
  /\ u \in presente
  /\ LET partis == {u} \cup {m \in Mixes \cap presente : ligne[m].auteur = u} IN
     /\ presente' = presente \ partis
     /\ image' = [c \in Cibles |-> IF c \in partis THEN 0 ELSE image[c]]
     /\ ligne' = [m \in Mixes |-> IF m \in partis THEN [ligne[m] EXCEPT !.audio = 0] ELSE ligne[m]]
     /\ perdus' = perdus \cup (({image[c] : c \in partis}
                    \cup {ligne[m].audio : m \in Mixes \cap partis}) \ {0})
  /\ UNCHANGED <<bucket, requete>>

-----------------------------------------------------------------------------
(* Backfill scripts, run by hand beside the server                         *)

\* Every row with an image, listed once.
Listees == {<<c, image[c]>> : c \in {d \in presente : image[d] # 0}}

\* backfill-webp and backfill-variantes, with --apply.
LancerScript(r, quoi) ==
  /\ requete[r] = Libre
  /\ \A s \in Requetes : requete[s].quoi # quoi
  /\ Listees # {}
  /\ requete' = [requete EXCEPT ![r] =
       [Libre EXCEPT !.quoi = quoi, !.etape = "parcours",
          !.reste = IF quoi = "webp" THEN Listees
                    ELSE {p \in Listees : p[2] \notin reduites}]]
  /\ UNCHANGED <<base, bucket, perdus>>

\* An image that is gone, or one already converted, is passed over.
PasserLigne(r, p) ==
  /\ requete[r].etape = "parcours" /\ p \in requete[r].reste
  /\ p[2] \notin objets \/ (requete[r].quoi = "webp" /\ p[2] \notin Brutes)
  /\ requete' = [requete EXCEPT ![r].reste = @ \ {p}]
  /\ UNCHANGED <<base, bucket, perdus>>

\* Mutant: the original goes before the column is written.
EcrireWebpALaPlace(r, p) ==
  /\ requete[r].quoi = "webp" /\ requete[r].etape = "parcours"
  /\ p \in requete[r].reste /\ p[2] \in objets \cap Brutes
  /\ tirees < NbCles /\ tirees' = tirees + 1
  /\ objets' = (objets \ {p[2]}) \cup {tirees + 1}
  /\ requete' = [requete EXCEPT ![r] =
       [requete[r] EXCEPT !.etape = "colonne", !.cible = p[1], !.cover = tirees + 1,
                          !.ancienne = p[2], !.reste = @ \ {p}]]
  /\ UNCHANGED <<base, reduites, perdus>>

\* 1. The new image, without reduced versions.
EcrireWebp(r, p) ==
  /\ requete[r].quoi = "webp" /\ requete[r].etape = "parcours"
  /\ p \in requete[r].reste /\ p[2] \in objets \cap Brutes
  /\ Poser
  /\ requete' = [requete EXCEPT ![r] =
       [requete[r] EXCEPT !.etape = "colonne", !.cible = p[1], !.cover = tirees + 1,
                          !.ancienne = p[2], !.reste = @ \ {p}]]
  /\ UNCHANGED <<base, reduites, perdus>>

\* 2. The column, whatever it holds by now; a row gone is a counted failure.
EcrireColonne(r) ==
  /\ requete[r].quoi = "webp" /\ requete[r].etape = "colonne"
  /\ LET q == requete[r]
         c == q.cible
     IN IF c \notin presente
        THEN /\ requete' = [requete EXCEPT ![r] =
                  [Libre EXCEPT !.quoi = "webp", !.etape = "parcours", !.reste = q.reste]]
             /\ perdus' = perdus \cup {q.cover}
             /\ UNCHANGED image
        ELSE /\ image' = [image EXCEPT ![c] = q.cover]
             /\ perdus' = perdus \cup ({image[c]} \ {0, q.ancienne})
             /\ requete' = [requete EXCEPT ![r] =
                  [Libre EXCEPT !.quoi = "webp", !.etape = "effacer",
                                !.jeter = {q.ancienne}, !.reste = q.reste]]
  /\ UNCHANGED <<presente, ligne, bucket>>

\* 3. of the webp script is EffacerAnciens.  The variants script reads the
\* original and writes the versions that were missing when it listed them.
EcrireReduites(r, p) ==
  /\ requete[r].quoi = "variantes" /\ requete[r].etape = "parcours"
  /\ p \in requete[r].reste /\ p[2] \in objets
  /\ Reduire(p[2])
  /\ requete' = [requete EXCEPT ![r].reste = @ \ {p}]
  /\ UNCHANGED <<base, objets, tirees, perdus>>

FinirScript(r) ==
  /\ requete[r].etape = "parcours" /\ requete[r].reste = {}
  /\ requete' = [requete EXCEPT ![r] = Libre]
  /\ UNCHANGED <<base, bucket, perdus>>

\* The process stops: what was held is lost, what was to go stays.
Interrompre(r) ==
  /\ requete[r] # Libre
  /\ requete' = [requete EXCEPT ![r] = Libre]
  /\ perdus' = perdus \cup ((EnMain(requete[r]) \cap objets) \ Nommes)
  /\ UNCHANGED <<base, bucket>>

\* A step of one handler.
Servir(r) ==
  \/ DeposerAudio(r) \/ DeposerImage(r) \/ RefuserFichier(r) \/ Intercepter(r)
  \/ Controler(r) \/ Pochette(r) \/ Inserer(r)
  \/ LireMix(r) \/ EcrireMix(r) \/ SupprimerLigne(r) \/ EffacerAnciens(r)
  \/ LireCompte(r) \/ EcrireImage(r)

\* A step of one script.
Relancer(r) ==
  \/ \E quoi \in {"webp", "variantes"} : LancerScript(r, quoi)
  \/ \E p \in requete[r].reste : PasserLigne(r, p) \/ EcrireWebp(r, p) \/ EcrireReduites(r, p)
  \/ EcrireColonne(r) \/ FinirScript(r)

MediasNext ==
  \/ \E r \in Requetes :
       \/ \E u \in Comptes, c \in Cibles, dto \in Demandes,
            quoi \in {"creer", "modifier", "supprimer", "image"} : Recevoir(r, u, c, quoi, dto)
       \/ \E u \in Comptes, m \in Mixes, page \in BOOLEAN : CreerDepuisImport(r, u, m, page)
       \/ Servir(r) \/ Relancer(r) \/ Interrompre(r)
  \/ \E u \in Comptes : SupprimerCompte(u)

MediasSpec == MediasInit /\ [][MediasNext]_mediasVars

-----------------------------------------------------------------------------
(* Properties                                                              *)

\* A row never names an object that was deleted: every path writes the row
\* first and deletes what it replaced after, whatever moves in between
\* (comments of `remove` and `update`, header of backfill-webp).
NoDeadMedia == Nommes \subseteq objets \cup {0}

\* However updates that read the same row interleave, a mix has an audio file
\* or a complete remote source, never both, and a page only with a source.
ExactlyOneSource ==
  \A m \in Mixes \cap presente :
    LET s == ligne[m].source
    IN (s.type = s.ref) /\ ((ligne[m].audio # 0) # s.type) /\ (s.page => s.ref)

\* An object of the bucket is named by a row, held by a request, or was left
\* behind by one of the causes the code accepts: no other path leaks.
NothingElseLeaks ==
  objets \subseteq Nommes \cup perdus \cup UNION {EnMain(requete[r]) : r \in Requetes}
===============================================================================
