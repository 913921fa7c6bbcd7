------------------------------ MODULE MediasProofs ------------------------------
(***************************************************************************)
(* NoDeadMedia, NothingElseLeaks and ExactlyOneSource for every set of     *)
(* rows, requests and keys.                                                *)
(*                                                                         *)
(* Every deletion takes keys that a request READ some awaits ago.  It is   *)
(* harmless because a key has one place at most: it is drawn once, held by *)
(* the request that put it until one row names it, and never named by      *)
(* another row afterwards.  So what was read in a row can only be named by *)
(* that row (Owned), and the step that makes a key "to be thrown away" is  *)
(* the one that takes it out of that row.                                  *)
(***************************************************************************)
EXTENDS Medias, TLAPS

Ligne == [auteur : Comptes \cup {Aucun}, audio : 0..NbCles, source : Source]

Quois == {"libre", "creer", "modifier", "supprimer", "image", "webp", "variantes"}
Etapes == {"", "fichiers", "controler", "pochette", "inserer", "lire", "ecrire", "effacer",
           "parcours", "colonne"}

Requete == [quoi : Quois, etape : Etapes, cible : Cibles \cup {Aucun},
            compte : Comptes \cup {Aucun}, audio : 0..NbCles, cover : 0..NbCles,
            dto : Source, lu : Ligne, ancienne : 0..NbCles,
            jeter : SUBSET Cles, reste : SUBSET (Cibles \X Cles)]

\* Until its row is written a request about a mix names one, only a creation
\* goes through the steps of a creation, and a script about to write a column
\* holds an image for another.
WellFormed(q) ==
  /\ q.quoi \in {"creer", "modifier", "supprimer"} /\ q.etape # "effacer" => q.cible \in Mixes
  /\ q.etape \in {"controler", "pochette", "inserer"} => q.quoi = "creer"
  /\ q.etape = "colonne" => q.cover \in Cles /\ q.ancienne \in Cles

MediasTypes ==
  /\ presente \in SUBSET Cibles
  /\ image \in [Cibles -> 0..NbCles]
  /\ ligne \in [Mixes -> Ligne]
  /\ objets \in SUBSET Cles /\ reduites \in SUBSET Cles
  /\ tirees \in 0..NbCles
  /\ requete \in [Requetes -> Requete]
  /\ perdus \in SUBSET Cles
  /\ \A r \in Requetes : WellFormed(requete[r])

\* What a request put in the bucket and no row names yet.
Tenus(q) == {q.audio, q.cover} \ {0}

\* Images a request read, with the row it read them in.
Vues(q) == q.reste \cup {<<q.cible, q.ancienne>>}

\* Keys a request read in the base and may delete.
Anciens(q) == ({q.lu.audio} \cup q.jeter \cup {p[2] : p \in Vues(q)}) \ {0}

\* A key is in one column of one row.
NamedOnce ==
  /\ \A c, d \in presente : image[c] = image[d] /\ image[c] # 0 => c = d
  /\ \A m, n \in Mixes \cap presente :
       ligne[m].audio = ligne[n].audio /\ ligne[m].audio # 0 => m = n
  /\ \A c \in presente, m \in Mixes \cap presente : image[c] = ligne[m].audio => image[c] = 0

\* What a request read in a row, no other row names.
Owned(q) ==
  /\ \A p \in Vues(q) : p[2] # 0 =>
       /\ \A d \in presente : image[d] = p[2] => d = p[1]
       /\ \A m \in Mixes \cap presente : ligne[m].audio # p[2]
  /\ q.lu.audio # 0 =>
       /\ \A d \in presente : image[d] # q.lu.audio
       /\ \A m \in Mixes \cap presente : ligne[m].audio = q.lu.audio => m = q.cible

\* One request: what it holds is in the bucket and nowhere else, what it is
\* about to throw away is named by nobody.
Sound(q) ==
  /\ Tenus(q) \subseteq objets \ Nommes
  /\ q.audio = q.cover => q.audio = 0
  /\ q.jeter \cap Nommes = {}
  /\ \A k \in Tenus(q) \cup Anciens(q) : k <= tirees
  /\ Owned(q)
  /\ q.etape = "parcours" => q.lu.audio = 0

\* Two requests hold different keys, and nobody read a key still held.
HandsApart ==
  /\ \A r, s \in Requetes : r # s => Tenus(requete[r]) \cap Tenus(requete[s]) = {}
  /\ \A r, s \in Requetes : Tenus(requete[r]) \cap Anciens(requete[s]) = {}

KeysInv ==
  /\ MediasTypes /\ NamedOnce /\ NoDeadMedia
  /\ \A k \in Nommes : k <= tirees
  /\ \A r \in Requetes : Sound(requete[r])
  /\ HandsApart

\* What a request may still be holding at each of its steps.
Stage(q) ==
  /\ q.quoi = "libre" => q.etape = ""
  /\ q.etape # "effacer" => q.jeter = {}
  /\ q.quoi # "creer" => q.audio = 0
  /\ q.etape \in {"", "parcours", "effacer"} => Tenus(q) = {}
  /\ q.quoi = "supprimer" => q.cover = 0 /\ q.etape \in {"lire", "ecrire", "effacer"}
  /\ q.quoi \in {"webp", "variantes"} => q.etape \in {"parcours", "colonne", "effacer"}
  /\ q.etape \in {"lire", "ecrire"} => q.quoi \in {"modifier", "supprimer", "image"}

\* A source and an audio file that the checks let through.
Juste(audio, s) == UneSeuleSource(audio, s) /\ PageAvecSource(s)

\* An update or a deletion past its reading: the audio of a row never changes,
\* so what it read of it holds as long as the row is there, and the row is
\* never free again.
Read(q) ==
  q.quoi \in {"modifier", "supprimer"} /\ q.etape = "ecrire" =>
    /\ q.cible \in Mixes /\ ligne[q.cible].auteur # Aucun
    /\ q.cible \in presente => q.lu.audio = ligne[q.cible].audio
    /\ Juste(q.lu.audio, q.lu.source) /\ Acceptable(q.lu, q.dto)

\* A creation past its checks.
Checked(q) == q.etape \in {"pochette", "inserer"} => Juste(q.audio, q.dto)

Taken == \A m \in Mixes \cap presente : ligne[m].auteur # Aucun

RowsInv ==
  /\ Taken /\ NothingElseLeaks /\ ExactlyOneSource
  /\ \A r \in Requetes : Stage(requete[r]) /\ Read(requete[r]) /\ Checked(requete[r])

-----------------------------------------------------------------------------
(* Types                                                                   *)

LEMMA LibreFields ==
  /\ Libre \in Requete /\ Libre.quoi = "libre" /\ Libre.etape = "" /\ Libre.cible = Aucun
  /\ Libre.compte = Aucun /\ Libre.audio = 0 /\ Libre.cover = 0 /\ Libre.dto = SansSource
  /\ Libre.lu = Vide /\ Libre.lu.audio = 0 /\ Libre.ancienne = 0
  /\ Libre.jeter = {} /\ Libre.reste = {}
<1>1. SansSource \in Source /\ 0 \in 0..NbCles
    BY MediasAssumption DEF SansSource, Source
<1>2. Vide \in Ligne /\ Vide.audio = 0
    BY <1>1 DEF Vide, Ligne
<1>3. Libre \in Requete
    BY <1>1, <1>2 DEF Libre, Requete, Quois, Etapes
<1>4. Libre.lu = Vide
    BY DEF Libre
<1> QED BY <1>2, <1>3, <1>4 DEF Libre

LEMMA RequeteFields ==
  ASSUME NEW q \in Requete
  PROVE  /\ q.quoi \in Quois /\ q.etape \in Etapes /\ q.cible \in Cibles \cup {Aucun}
         /\ q.compte \in Comptes \cup {Aucun} /\ q.audio \in 0..NbCles /\ q.cover \in 0..NbCles
         /\ q.dto \in Source /\ q.lu \in Ligne /\ q.lu.audio \in 0..NbCles
         /\ q.ancienne \in 0..NbCles /\ q.jeter \in SUBSET Cles
         /\ q.reste \in SUBSET (Cibles \X Cles)
BY DEF Requete, Ligne

\* A request takes a step: the others are where they were.
LEMMA Moves ==
  ASSUME MediasTypes, NEW r \in Requetes, NEW q \in Requete,
         requete' = [requete EXCEPT ![r] = q], WellFormed(q)
  PROVE  /\ requete' \in [Requetes -> Requete] /\ requete'[r] = q
         /\ \A s \in Requetes : s # r => requete'[s] = requete[s]
         /\ \A s \in Requetes : WellFormed(requete'[s])
BY DEF MediasTypes

\* The next step of the same request.
LEMMA Advances ==
  ASSUME NEW q \in Requete, NEW e \in Etapes
  PROVE  LET p == [q EXCEPT !.etape = e] IN
         /\ p \in Requete /\ p.etape = e
         /\ p.quoi = q.quoi /\ p.cible = q.cible /\ p.compte = q.compte /\ p.audio = q.audio
         /\ p.cover = q.cover /\ p.dto = q.dto /\ p.lu = q.lu /\ p.ancienne = q.ancienne
         /\ p.jeter = q.jeter /\ p.reste = q.reste
BY DEF Requete

\* A file it has just put.
LEMMA PutsAudio ==
  ASSUME NEW q \in Requete, NEW k \in 0..NbCles
  PROVE  LET p == [q EXCEPT !.audio = k] IN
         /\ p \in Requete /\ p.audio = k
         /\ p.quoi = q.quoi /\ p.etape = q.etape /\ p.cible = q.cible /\ p.compte = q.compte
         /\ p.cover = q.cover /\ p.dto = q.dto /\ p.lu = q.lu /\ p.ancienne = q.ancienne
         /\ p.jeter = q.jeter /\ p.reste = q.reste
BY DEF Requete

\* A request gives up.
LEMMA GivesUp ==
  ASSUME MediasTypes, NEW r \in Requetes, requete' = [requete EXCEPT ![r] = Libre]
  PROVE  /\ requete' \in [Requetes -> Requete] /\ requete'[r] = Libre
         /\ \A s \in Requetes : s # r => requete'[s] = requete[s]
         /\ \A s \in Requetes : WellFormed(requete'[s])
BY LibreFields, Moves DEF WellFormed

LEMMA FieldsAt ==
  ASSUME MediasTypes, NEW r \in Requetes
  PROVE  /\ requete[r] \in Requete /\ WellFormed(requete[r])
         /\ {requete[r].audio, requete[r].cover} \ {0} \subseteq Cles
         /\ requete[r].jeter \subseteq Cles
         /\ \A p \in requete[r].reste : p \in Cibles \X Cles
BY RequeteFields DEF MediasTypes, Cles

LEMMA AbandonTypes ==
  ASSUME MediasTypes, NEW r \in Requetes, AbandonnerEnRoute(r)
  PROVE  MediasTypes'
BY FieldsAt, GivesUp DEF AbandonnerEnRoute, MediasTypes, base, bucket

\* A key that has just been drawn.
LEMMA PoserTypes ==
  ASSUME MediasTypes, Poser
  PROVE  /\ objets' \in SUBSET Cles /\ tirees' \in 0..NbCles
         /\ tirees + 1 \in Cles /\ tirees + 1 \in 0..NbCles
         /\ tirees' = tirees + 1 /\ objets' = objets \cup {tirees + 1}
BY MediasAssumption DEF MediasTypes, Poser, Cles

LEMMA ReduireTypes ==
  ASSUME MediasTypes, NEW k \in Cles, Reduire(k)
  PROVE  reduites' \in SUBSET Cles
BY DEF MediasTypes, Reduire

LEMMA EffacerTypes ==
  ASSUME MediasTypes, NEW ks, Effacer(ks)
  PROVE  /\ objets' \in SUBSET Cles /\ reduites' \in SUBSET Cles /\ perdus' \in SUBSET Cles
         /\ objets' \subseteq objets /\ objets \subseteq objets' \cup ks
         /\ perdus \subseteq perdus' /\ objets' \cap ks \subseteq perdus'
         /\ tirees' = tirees
<1>1. PICK pris \in SUBSET (ks \cap objets) :
        /\ objets' = objets \ pris
        /\ reduites' = reduites \ pris
        /\ perdus' = perdus \cup ((ks \cap objets) \ pris)
        /\ UNCHANGED tirees
    BY DEF Effacer
<1> QED BY <1>1 DEF MediasTypes

LEMMA MediasTypesNext ==
  ASSUME MediasTypes, [MediasNext]_mediasVars
  PROVE  MediasTypes'
<1> USE DEF base, bucket
<1>0. /\ presente \in SUBSET Cibles /\ image \in [Cibles -> 0..NbCles]
      /\ ligne \in [Mixes -> Ligne] /\ objets \in SUBSET Cles /\ reduites \in SUBSET Cles
      /\ tirees \in 0..NbCles /\ perdus \in SUBSET Cles
    BY DEF MediasTypes
<1>1. ASSUME NEW r \in Requetes, NEW u \in Comptes, NEW c \in Cibles, NEW dto \in Demandes,
             NEW quoi \in {"creer", "modifier", "supprimer", "image"}, Recevoir(r, u, c, quoi, dto)
      PROVE  MediasTypes'
  <2> DEFINE e == IF quoi = "supprimer" THEN "lire" ELSE "fichiers"
             q == [Libre EXCEPT !.quoi = quoi, !.cible = c, !.compte = u, !.dto = dto, !.etape = e]
  <2>1. dto \in Source /\ e \in Etapes /\ quoi \in Quois
      BY MediasAssumption DEF Etapes, Quois
  <2>2. /\ q \in Requete /\ q.quoi = quoi /\ q.etape = e /\ q.cible = c
      BY <2>1, LibreFields DEF Requete
  <2>3. WellFormed(q)
      BY <1>1, <2>2 DEF WellFormed, Recevoir
  <2>4. requete' = [requete EXCEPT ![r] = q] /\ UNCHANGED <<base, bucket, perdus>>
      BY <1>1 DEF Recevoir
  <2> HIDE DEF q
  <2> QED BY <2>2, <2>3, <2>4, Moves DEF MediasTypes
<1>2. ASSUME NEW r \in Requetes, NEW u \in Comptes, NEW m \in Mixes, NEW page \in BOOLEAN,
             CreerDepuisImport(r, u, m, page)
      PROVE  MediasTypes'
  <2> DEFINE q == [Libre EXCEPT !.quoi = "creer", !.cible = m, !.compte = u, !.etape = "pochette",
                                !.dto = [type |-> TRUE, ref |-> TRUE, page |-> page]]
  <2>1. [type |-> TRUE, ref |-> TRUE, page |-> page] \in Source /\ m \in Cibles
      BY DEF Source, Cibles
  <2>2. q \in Requete /\ q.quoi = "creer" /\ q.cible = m
      BY <2>1, LibreFields DEF Requete, Quois, Etapes
  <2>3. WellFormed(q)
      BY <2>2 DEF WellFormed
  <2>4. requete' = [requete EXCEPT ![r] = q] /\ UNCHANGED <<base, bucket, perdus>>
      BY <1>2 DEF CreerDepuisImport
  <2> HIDE DEF q
  <2> QED BY <2>2, <2>3, <2>4, Moves DEF MediasTypes
<1>3. ASSUME NEW r \in Requetes, Servir(r)
      PROVE  MediasTypes'
  <2> DEFINE q == requete[r]
  <2>0. /\ q \in Requete /\ WellFormed(q) /\ q.jeter \subseteq Cles
        /\ {q.audio, q.cover} \ {0} \subseteq Cles
        /\ q.audio \in 0..NbCles /\ q.cover \in 0..NbCles /\ q.ancienne \in 0..NbCles
        /\ q.lu.audio \in 0..NbCles /\ q.dto \in Source
      BY FieldsAt, RequeteFields
  <2>1. CASE DeposerAudio(r)
    <3> DEFINE n == [q EXCEPT !.audio = tirees + 1]
    <3>1. n \in Requete /\ n.quoi = q.quoi /\ n.etape = q.etape /\ n.cible = q.cible
        BY <2>0, <2>1, PoserTypes, PutsAudio DEF DeposerAudio
    <3>2. requete' = [requete EXCEPT ![r] = n]
        BY <2>1 DEF DeposerAudio
    <3>3. WellFormed(n)
        BY <2>0, <3>1 DEF WellFormed
    <3> HIDE DEF n
    <3> QED BY <2>1, <3>1, <3>2, <3>3, Moves, PoserTypes DEF DeposerAudio, MediasTypes
  <2>2. CASE DeposerImage(r)
    <3> DEFINE n == [q EXCEPT !.cover = tirees + 1]
    <3>1. n \in Requete /\ n.quoi = q.quoi /\ n.etape = q.etape /\ n.cible = q.cible
        BY <2>0, <2>2, PoserTypes DEF DeposerImage, Requete
    <3>2. requete' = [requete EXCEPT ![r] = n]
        BY <2>2 DEF DeposerImage
    <3>3. WellFormed(n)
        BY <2>0, <2>2, <3>1 DEF WellFormed, DeposerImage
    <3> HIDE DEF n
    <3> QED BY <2>2, <3>1, <3>2, <3>3, Moves, PoserTypes, ReduireTypes DEF DeposerImage, MediasTypes
  <2>3. CASE RefuserFichier(r)
      BY <1>0, <2>3, GivesUp, EffacerTypes DEF RefuserFichier, MediasTypes
  <2>4. CASE Intercepter(r)
    <3> DEFINE e == IF q.quoi = "creer" THEN "controler" ELSE "lire"
               n == [q EXCEPT !.etape = e]
    <3>0. e \in Etapes
        BY DEF Etapes
    <3>1. n \in Requete /\ n.quoi = q.quoi /\ n.etape = e /\ n.cible = q.cible
        BY <2>0, <3>0 DEF Requete
    <3>2. requete' = [requete EXCEPT ![r] = n]
        BY <2>4 DEF Intercepter, Avancer
    <3>3. WellFormed(n)
        BY <2>0, <2>4, <3>1 DEF WellFormed, Intercepter
    <3> HIDE DEF n
    <3> QED BY <2>4, <3>1, <3>2, <3>3, Moves DEF Intercepter, MediasTypes
  <2>5. CASE Controler(r)
    <3>1. CASE AbandonnerEnRoute(r)
        BY <3>1, AbandonTypes
    <3>2. CASE Avancer(r, "pochette") /\ UNCHANGED <<base, bucket, perdus>>
      <4> DEFINE n == [q EXCEPT !.etape = "pochette"]
      <4>1. n \in Requete /\ n.quoi = q.quoi /\ n.etape = "pochette" /\ n.cible = q.cible
          BY <2>0, Advances DEF Etapes
      <4>2. requete' = [requete EXCEPT ![r] = n]
          BY <3>2 DEF Avancer
      <4>3. WellFormed(n)
          BY <2>0, <2>5, <4>1 DEF WellFormed, Controler
      <4> HIDE DEF n
      <4> QED BY <3>2, <4>1, <4>2, <4>3, Moves DEF MediasTypes
    <3> QED BY <2>5, <3>1, <3>2 DEF Controler
  <2>6. CASE Pochette(r)
    <3>1. CASE Avancer(r, "inserer") /\ UNCHANGED bucket
      <4> DEFINE n == [q EXCEPT !.etape = "inserer"]
      <4>1. n \in Requete /\ n.quoi = q.quoi /\ n.etape = "inserer" /\ n.cible = q.cible
          BY <2>0, Advances DEF Etapes
      <4>2. requete' = [requete EXCEPT ![r] = n]
          BY <3>1 DEF Avancer
      <4>3. WellFormed(n)
          BY <2>0, <2>6, <4>1 DEF WellFormed, Pochette
      <4> HIDE DEF n
      <4> QED BY <2>6, <3>1, <4>1, <4>2, <4>3, Moves DEF Pochette, MediasTypes
    <3>2. CASE Poser /\ Reduire(tirees + 1)
               /\ requete' = [requete EXCEPT ![r].etape = "inserer", ![r].cover = tirees + 1]
      <4> DEFINE n == [q EXCEPT !.etape = "inserer", !.cover = tirees + 1]
      <4>1. n \in Requete /\ n.quoi = q.quoi /\ n.etape = "inserer" /\ n.cible = q.cible
          BY <2>0, <3>2, PoserTypes DEF Requete, Etapes
      <4>2. requete' = [requete EXCEPT ![r] = n]
          BY <1>0, <3>2 DEF MediasTypes
      <4>3. WellFormed(n)
          BY <2>0, <2>6, <4>1 DEF WellFormed, Pochette
      <4> HIDE DEF n
      <4> QED BY <2>6, <3>2, <4>1, <4>2, <4>3, Moves, PoserTypes, ReduireTypes DEF Pochette, MediasTypes
    <3> QED BY <2>6, <3>1, <3>2 DEF Pochette
  <2>7. CASE Inserer(r)
    <3>1. CASE AbandonnerEnRoute(r)
        BY <3>1, AbandonTypes
    <3>2. CASE ~AbandonnerEnRoute(r)
      <4>1. /\ q.compte \in presente /\ presente' = presente \cup {q.cible}
            /\ image' = [image EXCEPT ![q.cible] = q.cover]
            /\ ligne' = [ligne EXCEPT ![q.cible] =
                 [auteur |-> q.compte, audio |-> q.audio, source |-> q.dto]]
            /\ requete' = [requete EXCEPT ![r] = Libre]
            /\ UNCHANGED <<bucket, perdus>>
          BY <2>7, <3>2 DEF Inserer
      <4>2. q.cible \in Mixes /\ q.cible \in Cibles
          BY <2>0, <2>7 DEF WellFormed, Inserer, Cibles
      <4>3. [auteur |-> q.compte, audio |-> q.audio, source |-> q.dto] \in Ligne
          BY <2>0, RequeteFields DEF Ligne
      <4>4. presente' \in SUBSET Cibles /\ image' \in [Cibles -> 0..NbCles] /\ ligne' \in [Mixes -> Ligne]
          BY <1>0, <2>0, <4>1, <4>2, <4>3
      <4> QED BY <1>0, <4>1, <4>4, GivesUp DEF MediasTypes
    <3> QED BY <3>1, <3>2
  <2>8. CASE LireMix(r)
    <3>1. CASE AbandonnerEnRoute(r)
        BY <3>1, AbandonTypes
    <3>2. CASE ~AbandonnerEnRoute(r)
      <4> DEFINE m == q.cible
                 n == [q EXCEPT !.etape = "ecrire", !.lu = ligne[m], !.ancienne = image[m]]
      <4>1. m \in presente /\ requete' = [requete EXCEPT ![r] = n] /\ UNCHANGED <<base, bucket, perdus>>
          BY <2>8, <3>2 DEF LireMix
      <4>0. m \in Mixes /\ m \in Cibles
          BY <2>0, <2>8 DEF LireMix, WellFormed, Cibles
      <4>2. ligne[m] \in Ligne /\ image[m] \in 0..NbCles
          BY <1>0, <4>0
      <4>3. n \in Requete /\ n.quoi = q.quoi /\ n.etape = "ecrire" /\ n.cible = q.cible
          BY <2>0, <4>2 DEF Requete, Etapes
      <4>4. WellFormed(n)
          BY <2>0, <2>8, <4>3 DEF WellFormed, LireMix
      <4> HIDE DEF n
      <4> QED BY <4>1, <4>3, <4>4, Moves DEF MediasTypes
    <3> QED BY <3>1, <3>2
  <2>9. CASE EcrireMix(r)
    <3>1. CASE AbandonnerEnRoute(r)
        BY <3>1, AbandonTypes
    <3>2. CASE ~AbandonnerEnRoute(r)
      <4>p. PICK vide \in BOOLEAN :
              ligne' = [ligne EXCEPT ![q.cible].source =
                          SourceEcrite(ligne[q.cible].source, q.lu.source, q.dto, vide)]
          BY <1>0, <2>0, <2>9, <3>2 DEF EcrireMix, MediasTypes
      <4> DEFINE m == q.cible
                 src == SourceEcrite(ligne[m].source, q.lu.source, q.dto, vide)
                 l == [ligne[m] EXCEPT !.source = src]
                 n == IF q.cover # 0 /\ q.ancienne # 0
                      THEN [Libre EXCEPT !.quoi = "modifier", !.etape = "effacer", !.jeter = {q.ancienne}]
                      ELSE Libre
      <4>0. m \in Mixes /\ m \in Cibles
          BY <2>0, <2>9 DEF EcrireMix, WellFormed, Cibles
      <4>1. /\ m \in presente
            /\ image' = [image EXCEPT ![m] = IF q.cover # 0 THEN q.cover ELSE image[m]]
            /\ perdus' = IF q.cover # 0 /\ image[m] \notin {0, q.ancienne}
                         THEN perdus \cup {image[m]} ELSE perdus
            /\ requete' = [requete EXCEPT ![r] = n]
            /\ UNCHANGED <<presente, bucket>>
          BY <2>9, <3>2 DEF EcrireMix
      <4>2. ligne' = [ligne EXCEPT ![m] = l]
          BY <1>0, <4>0, <4>p
      <4>3. ligne[m] \in Ligne /\ image[m] \in 0..NbCles
          BY <1>0, <4>0
      <4>4. l \in Ligne
        <5>1. q.lu.source \in Source /\ ligne[m].source \in Source
            BY <2>0, <4>3, RequeteFields DEF Ligne
        <5>2. src \in Source
            BY <2>0, <5>1, RequeteFields DEF Source, SourceEcrite
        <5> HIDE DEF src
        <5> QED BY <4>3, <5>2 DEF Ligne
      <4>5. /\ n \in Requete /\ n.quoi \in {"libre", "modifier"} /\ n.etape \in {"", "effacer"}
            /\ n.quoi = "modifier" => n.etape = "effacer"
        <5>1. CASE q.cover # 0 /\ q.ancienne # 0
          <6>1. {q.ancienne} \in SUBSET Cles /\ "modifier" \in Quois /\ "effacer" \in Etapes
              BY <2>0, <5>1 DEF Cles, Quois, Etapes
          <6> QED BY <5>1, <6>1, LibreFields DEF Requete
        <5>2. CASE ~(q.cover # 0 /\ q.ancienne # 0)
          <6>1. n = Libre
              BY <5>2
          <6> HIDE DEF n
          <6> QED BY <6>1, LibreFields
        <5> QED BY <5>1, <5>2
      <4>6. WellFormed(n)
          BY <4>5 DEF WellFormed
      <4>7. image' \in [Cibles -> 0..NbCles] /\ ligne' \in [Mixes -> Ligne]
        <5> HIDE DEF l
        <5> QED BY <1>0, <2>0, <4>0, <4>1, <4>2, <4>3, <4>4
      <4>8. perdus' \in SUBSET Cles
          BY <1>0, <4>1, <4>3 DEF Cles
      <4> HIDE DEF n
      <4> QED BY <4>1, <4>5, <4>6, <4>7, <4>8, <1>0, Moves DEF MediasTypes
    <3> QED BY <3>1, <3>2
  <2>10. CASE SupprimerLigne(r)
    <3>1. CASE AbandonnerEnRoute(r)
        BY <3>1, AbandonTypes
    <3>2. CASE ~AbandonnerEnRoute(r)
      <4> DEFINE m == q.cible
                 n == [Libre EXCEPT !.quoi = "supprimer", !.etape = "effacer", !.jeter = AJeter(q)]
      <4>0. m \in Mixes /\ m \in Cibles
          BY <2>0, <2>10 DEF SupprimerLigne, WellFormed, Cibles
      <4>1. /\ presente' = presente \ {m}
            /\ image' = [image EXCEPT ![m] = 0]
            /\ ligne' = [ligne EXCEPT ![m].audio = 0]
            /\ perdus' = perdus \cup ({image[m]} \ {0, q.ancienne})
            /\ requete' = [requete EXCEPT ![r] = n]
            /\ UNCHANGED bucket
          BY <2>10, <3>2 DEF SupprimerLigne
      <4>2. ligne[m] \in Ligne /\ image[m] \in 0..NbCles /\ 0 \in 0..NbCles
          BY <1>0, <4>0, MediasAssumption
      <4>3. [ligne[m] EXCEPT !.audio = 0] \in Ligne
          BY <4>2 DEF Ligne
      <4>4. n \in Requete /\ n.quoi = "supprimer" /\ n.etape = "effacer"
        <5>1. AJeter(q) \in SUBSET Cles /\ "supprimer" \in Quois /\ "effacer" \in Etapes
            BY <2>0 DEF Cles, Quois, Etapes, AJeter
        <5> QED BY <5>1, LibreFields DEF Requete
      <4>5. WellFormed(n)
          BY <4>4 DEF WellFormed
      <4>6. image' \in [Cibles -> 0..NbCles] /\ ligne' \in [Mixes -> Ligne] /\ presente' \in SUBSET Cibles
          BY <1>0, <4>0, <4>1, <4>2, <4>3
      <4>7. perdus' \in SUBSET Cles
          BY <1>0, <4>1, <4>2 DEF Cles
      <4> HIDE DEF n
      <4> QED BY <4>1, <4>4, <4>5, <4>6, <4>7, <1>0, Moves DEF MediasTypes
    <3> QED BY <3>1, <3>2
  <2>11. CASE EffacerAnciens(r)
    <3> DEFINE n == IF q.quoi = "webp"
                    THEN [Libre EXCEPT !.quoi = "webp", !.etape = "parcours", !.reste = q.reste]
                    ELSE Libre
    <3>1. requete' = [requete EXCEPT ![r] = n] /\ UNCHANGED base /\ Effacer(q.jeter)
        BY <2>11 DEF EffacerAnciens
    <3>2. n \in Requete /\ n.quoi \in {"libre", "webp"} /\ n.etape \in {"", "parcours"}
      <4>1. q.reste \in SUBSET (Cibles \X Cles) /\ "webp" \in Quois /\ "parcours" \in Etapes
          BY <2>0, RequeteFields DEF Quois, Etapes
      <4>2. CASE q.quoi = "webp"
          BY <4>1, <4>2, LibreFields DEF Requete
      <4>3. CASE q.quoi # "webp"
        <5>1. n = Libre
            BY <4>3
        <5> HIDE DEF n
        <5> QED BY <5>1, LibreFields
      <4> QED BY <4>2, <4>3
    <3>3. WellFormed(n)
        BY <3>2 DEF WellFormed
    <3> HIDE DEF n
    <3> QED BY <1>0, <3>1, <3>2, <3>3, Moves, EffacerTypes DEF MediasTypes
  <2>12. CASE LireCompte(r)
    <3>1. CASE AbandonnerEnRoute(r)
        BY <3>1, AbandonTypes
    <3>2. CASE ~AbandonnerEnRoute(r)
      <4> DEFINE n == [q EXCEPT !.etape = "ecrire"]
      <4>1. requete' = [requete EXCEPT ![r] = n] /\ UNCHANGED <<base, bucket, perdus>>
          BY <2>12, <3>2 DEF LireCompte, Avancer
      <4>2. n \in Requete /\ n.quoi = q.quoi /\ n.etape = "ecrire" /\ n.cible = q.cible
          BY <2>0, Advances DEF Etapes
      <4>3. WellFormed(n)
          BY <2>0, <2>12, <4>2 DEF WellFormed, LireCompte
      <4> HIDE DEF n
      <4> QED BY <4>1, <4>2, <4>3, Moves DEF MediasTypes
    <3> QED BY <3>1, <3>2
  <2>13. CASE EcrireImage(r)
    <3>1. CASE AbandonnerEnRoute(r)
        BY <3>1, AbandonTypes
    <3>2. CASE ~AbandonnerEnRoute(r)
      <4>1. /\ q.cible \in presente
            /\ image' = [image EXCEPT ![q.cible] = q.cover]
            /\ perdus' = perdus \cup ({image[q.cible]} \ {0})
            /\ requete' = [requete EXCEPT ![r] = Libre]
            /\ UNCHANGED <<presente, ligne, bucket>>
          BY <2>13, <3>2 DEF EcrireImage
      <4>2. image[q.cible] \in 0..NbCles
          BY <1>0, <4>1
      <4>3. image' \in [Cibles -> 0..NbCles]
          BY <1>0, <2>0, <4>1
      <4>4. perdus' \in SUBSET Cles
        <5>1. {image[q.cible]} \ {0} \subseteq Cles
            BY <4>2 DEF Cles
        <5> QED BY <1>0, <4>1, <5>1
      <4> QED BY <1>0, <4>1, <4>3, <4>4, GivesUp DEF MediasTypes
    <3> QED BY <3>1, <3>2
  <2> QED BY <1>3, <2>1, <2>2, <2>3, <2>4, <2>5, <2>6, <2>7, <2>8, <2>9, <2>10, <2>11, <2>12, <2>13
       DEF Servir
<1>4. ASSUME NEW r \in Requetes, Relancer(r)
      PROVE  MediasTypes'
  <2> DEFINE q == requete[r]
  <2>0. /\ q \in Requete /\ WellFormed(q) /\ \A p \in q.reste : p \in Cibles \X Cles
        /\ q.cover \in 0..NbCles /\ q.ancienne \in 0..NbCles /\ q.reste \in SUBSET (Cibles \X Cles)
      BY FieldsAt, RequeteFields
  <2>1. ASSUME NEW quoi \in {"webp", "variantes"}, LancerScript(r, quoi)
        PROVE  MediasTypes'
    <3> DEFINE ps == IF quoi = "webp" THEN Listees ELSE {p \in Listees : p[2] \notin reduites}
               n == [Libre EXCEPT !.quoi = quoi, !.etape = "parcours", !.reste = ps]
    <3>1. Listees \in SUBSET (Cibles \X Cles)
        BY <1>0 DEF Listees, Cles
    <3>2. ps \in SUBSET (Cibles \X Cles) /\ quoi \in Quois /\ "parcours" \in Etapes
        BY <3>1 DEF Quois, Etapes
    <3>3. requete' = [requete EXCEPT ![r] = n] /\ UNCHANGED <<base, bucket, perdus>>
        BY <2>1 DEF LancerScript
    <3> HIDE DEF ps
    <3>4. n \in Requete /\ n.quoi = quoi /\ n.etape = "parcours"
        BY <3>2, LibreFields DEF Requete
    <3>5. WellFormed(n)
        BY <3>4 DEF WellFormed
    <3> HIDE DEF n
    <3> QED BY <3>3, <3>4, <3>5, Moves DEF MediasTypes
  <2>2. ASSUME NEW p \in q.reste, PasserLigne(r, p)
        PROVE  MediasTypes'
    <3> DEFINE n == [q EXCEPT !.reste = q.reste \ {p}]
    <3>1. requete' = [requete EXCEPT ![r] = n] /\ UNCHANGED <<base, bucket, perdus>>
        BY <1>0, <2>2 DEF PasserLigne, MediasTypes
    <3>2. n \in Requete /\ n.quoi = q.quoi /\ n.etape = q.etape /\ n.cible = q.cible
        BY <2>0 DEF Requete
    <3>3. WellFormed(n)
        BY <2>0, <3>2 DEF WellFormed
    <3> HIDE DEF n
    <3> QED BY <3>1, <3>2, <3>3, Moves DEF MediasTypes
  <2>3. ASSUME NEW p \in q.reste, EcrireWebp(r, p)
        PROVE  MediasTypes'
    <3> DEFINE n == [q EXCEPT !.etape = "colonne", !.cible = p[1], !.cover = tirees + 1,
                              !.ancienne = p[2], !.reste = q.reste \ {p}]
    <3>1. /\ requete' = [requete EXCEPT ![r] = n] /\ UNCHANGED <<base, reduites, perdus>>
          /\ Poser /\ q.quoi = "webp"
        BY <2>3 DEF EcrireWebp
    <3>2. p[1] \in Cibles /\ p[2] \in 0..NbCles /\ tirees + 1 \in 0..NbCles
        BY <2>0, <3>1, PoserTypes DEF Cles
    <3>3. /\ n \in Requete /\ n.quoi = q.quoi /\ n.etape = "colonne"
          /\ n.cover = tirees + 1 /\ n.ancienne = p[2]
        BY <2>0, <3>2 DEF Requete, Etapes
    <3>4. WellFormed(n)
        BY <2>0, <3>1, <3>3, PoserTypes DEF WellFormed
    <3> HIDE DEF n
    <3> QED BY <1>0, <3>1, <3>3, <3>4, Moves, PoserTypes DEF MediasTypes
  <2>4. ASSUME NEW p \in q.reste, EcrireReduites(r, p)
        PROVE  MediasTypes'
    <3> DEFINE n == [q EXCEPT !.reste = q.reste \ {p}]
    <3>1. /\ requete' = [requete EXCEPT ![r] = n] /\ UNCHANGED <<base, objets, tirees, perdus>>
          /\ Reduire(p[2])
        BY <1>0, <2>4 DEF EcrireReduites, MediasTypes
    <3>2. p[2] \in Cles
        BY <2>0
    <3>3. n \in Requete /\ n.quoi = q.quoi /\ n.etape = q.etape /\ n.cible = q.cible
        BY <2>0 DEF Requete
    <3>4. WellFormed(n)
        BY <2>0, <3>3 DEF WellFormed
    <3> HIDE DEF n
    <3> QED BY <1>0, <3>1, <3>2, <3>3, <3>4, Moves, ReduireTypes DEF MediasTypes
  <2>5. CASE EcrireColonne(r)
    <3>0. q.reste \in SUBSET (Cibles \X Cles) /\ "webp" \in Quois /\ {"parcours", "effacer"} \subseteq Etapes
        BY <2>0 DEF Quois, Etapes
    <3>1. CASE q.cible \notin presente
      <4> DEFINE n == [Libre EXCEPT !.quoi = "webp", !.etape = "parcours", !.reste = q.reste]
      <4>1. /\ requete' = [requete EXCEPT ![r] = n] /\ UNCHANGED <<presente, image, ligne, bucket>>
            /\ perdus' = perdus \cup {q.cover} /\ q.etape = "colonne"
          BY <2>5, <3>1 DEF EcrireColonne
      <4>2. n \in Requete /\ n.quoi = "webp" /\ n.etape = "parcours"
          BY <3>0, LibreFields DEF Requete
      <4>3. WellFormed(n)
          BY <4>2 DEF WellFormed
      <4>4. perdus' \in SUBSET Cles
          BY <1>0, <2>0, <4>1 DEF WellFormed
      <4> HIDE DEF n
      <4> QED BY <1>0, <4>1, <4>2, <4>3, <4>4, Moves DEF MediasTypes
    <3>2. CASE q.cible \in presente
      <4> DEFINE n == [Libre EXCEPT !.quoi = "webp", !.etape = "effacer",
                                    !.jeter = {q.ancienne}, !.reste = q.reste]
      <4>1. /\ requete' = [requete EXCEPT ![r] = n] /\ UNCHANGED <<presente, ligne, bucket>>
            /\ image' = [image EXCEPT ![q.cible] = q.cover]
            /\ perdus' = perdus \cup ({image[q.cible]} \ {0, q.ancienne}) /\ q.etape = "colonne"
          BY <2>5, <3>2 DEF EcrireColonne
      <4>2. n \in Requete /\ n.quoi = "webp" /\ n.etape = "effacer"
        <5>1. {q.ancienne} \in SUBSET Cles
            BY <2>0, <4>1 DEF WellFormed
        <5> QED BY <3>0, <5>1, LibreFields DEF Requete
      <4>3. WellFormed(n)
          BY <4>2 DEF WellFormed
      <4>4. image[q.cible] \in 0..NbCles
          BY <1>0, <3>2
      <4>5. perdus' \in SUBSET Cles /\ image' \in [Cibles -> 0..NbCles]
          BY <1>0, <2>0, <3>2, <4>1, <4>4 DEF Cles
      <4> HIDE DEF n
      <4> QED BY <1>0, <4>1, <4>2, <4>3, <4>5, Moves DEF MediasTypes
    <3> QED BY <3>1, <3>2
  <2>6. CASE FinirScript(r)
      BY <1>0, <2>6, GivesUp DEF FinirScript, MediasTypes
  <2> QED BY <1>4, <2>1, <2>2, <2>3, <2>4, <2>5, <2>6 DEF Relancer
<1>5. ASSUME NEW r \in Requetes, Interrompre(r)
      PROVE  MediasTypes'
  <2>1. /\ requete' = [requete EXCEPT ![r] = Libre] /\ UNCHANGED <<base, bucket>>
        /\ perdus' \subseteq perdus \cup objets
      BY <1>5 DEF Interrompre
  <2> QED BY <1>0, <2>1, GivesUp DEF MediasTypes
<1>6. ASSUME NEW u \in Comptes, SupprimerCompte(u)
      PROVE  MediasTypes'
  <2> DEFINE partis == {u} \cup {m \in Mixes \cap presente : ligne[m].auteur = u}
  <2>1. /\ presente' = presente \ partis
        /\ image' = [c \in Cibles |-> IF c \in partis THEN 0 ELSE image[c]]
        /\ ligne' = [m \in Mixes |-> IF m \in partis THEN [ligne[m] EXCEPT !.audio = 0] ELSE ligne[m]]
        /\ perdus' = perdus \cup (({image[c] : c \in partis}
                       \cup {ligne[m].audio : m \in Mixes \cap partis}) \ {0})
        /\ UNCHANGED <<bucket, requete>>
      BY <1>6 DEF SupprimerCompte
  <2>2. 0 \in 0..NbCles /\ partis \subseteq Cibles
      BY MediasAssumption DEF Cibles
  <2> HIDE DEF partis
  <2>3. \A m \in Mixes : /\ ligne[m].audio \in 0..NbCles
                         /\ [ligne[m] EXCEPT !.audio = 0] \in Ligne /\ ligne[m] \in Ligne
      BY <1>0, <2>2 DEF Ligne
  <2>4. image' \in [Cibles -> 0..NbCles] /\ presente' \in SUBSET Cibles
      BY <1>0, <2>1, <2>2
  <2>5. ligne' \in [Mixes -> Ligne]
      BY <2>1, <2>3
  <2>6. perdus' \in SUBSET Cles
      BY <1>0, <2>1, <2>2, <2>3 DEF Cles
  <2> QED BY <1>0, <2>1, <2>4, <2>5, <2>6 DEF MediasTypes
<1>7. CASE UNCHANGED mediasVars
    BY <1>7 DEF MediasTypes, mediasVars
<1> QED BY <1>1, <1>2, <1>3, <1>4, <1>5, <1>6, <1>7 DEF MediasNext

LEMMA MediasTypesInit == MediasInit => MediasTypes
<1> SUFFICES ASSUME MediasInit PROVE MediasTypes
    OBVIOUS
<1>1. presente \in SUBSET Cibles
    BY DEF MediasInit, Cibles
<1>2. Brutes \subseteq 0..NbCles /\ Brutes \cup {0} \subseteq 0..NbCles /\ Brutes \subseteq Cles
      /\ Cardinality(Brutes) \in 0..NbCles
    BY MediasAssumption DEF Cles
<1>3. PICK ks \in [presente -> Brutes \cup {0}] :
        /\ image = [c \in Cibles |-> IF c \in presente THEN ks[c] ELSE 0]
        /\ objets = {ks[c] : c \in presente} \ {0}
    BY DEF MediasInit
<1>4. image \in [Cibles -> 0..NbCles] /\ objets \in SUBSET Cles
    BY <1>2, <1>3
<1>5. ligne \in [Mixes -> Ligne]
  <2>1. PICK u \in Comptes :
          ligne = [m \in Mixes |->
                     IF m \in presente
                     THEN [Vide EXCEPT !.auteur = u, !.source = [SansSource EXCEPT !.type = TRUE, !.ref = TRUE]]
                     ELSE Vide]
      BY DEF MediasInit
  <2>2. Vide \in Ligne /\ [SansSource EXCEPT !.type = TRUE, !.ref = TRUE] \in Source
      BY LibreFields, RequeteFields DEF SansSource, Source
  <2>3. [Vide EXCEPT !.auteur = u, !.source = [SansSource EXCEPT !.type = TRUE, !.ref = TRUE]] \in Ligne
      BY <2>2 DEF Ligne
  <2> QED BY <2>1, <2>2, <2>3
<1>6. requete \in [Requetes -> Requete] /\ \A r \in Requetes : WellFormed(requete[r])
    BY LibreFields DEF MediasInit, WellFormed
<1> QED BY <1>1, <1>2, <1>4, <1>5, <1>6 DEF MediasInit, MediasTypes

\* Every column, every key and every request in flight stays of its kind.
THEOREM MediasTyped == MediasSpec => []MediasTypeOK
<1>1. MediasTypes => MediasTypeOK
  <2> SUFFICES ASSUME MediasTypes PROVE MediasTypeOK
      OBVIOUS
  <2>1. \A r \in Requetes : requete[r] \in Requete
      BY DEF MediasTypes
  <2> QED BY <2>1, RequeteFields DEF MediasTypes, MediasTypeOK, Ligne
<1>2. MediasSpec => []MediasTypes
    BY MediasTypesInit, MediasTypesNext, PTL DEF MediasSpec
<1> QED BY <1>1, <1>2, PTL

-----------------------------------------------------------------------------
(* Keys                                                                    *)

LEMMA KeysAreIntegers ==
  ASSUME MediasTypes
  PROVE  /\ \A k \in Nommes : k \in 0..NbCles
         /\ \A c \in presente : c \in Cibles /\ image[c] \in 0..NbCles /\ image[c] \in Nommes
         /\ \A m \in Mixes \cap presente : ligne[m].audio \in 0..NbCles /\ ligne[m].audio \in Nommes
         /\ tirees \in 0..NbCles
<1>1. \A m \in Mixes : ligne[m].audio \in 0..NbCles
    BY DEF MediasTypes, Ligne
<1>2. \A c \in presente : c \in Cibles /\ image[c] \in 0..NbCles
    BY DEF MediasTypes
<1> QED BY <1>1, <1>2 DEF MediasTypes, Nommes

\* What a request holds, or has read, are keys of the two sets below and no
\* others.
LEMMA KeysOfRequest ==
  ASSUME NEW q \in Requete
  PROVE  /\ \A k \in Tenus(q) \cup Anciens(q) : k \in Int /\ k # 0
         /\ \A k : k \in Tenus(q) <=> k # 0 /\ (k = q.audio \/ k = q.cover)
         /\ \A p \in Vues(q) : p[2] # 0 => p[2] \in Anciens(q)
         /\ q.lu.audio # 0 => q.lu.audio \in Anciens(q)
         /\ q.jeter \subseteq Anciens(q)
         /\ \A k \in Anciens(q) :
              k = q.lu.audio \/ k \in q.jeter \/ \E p \in Vues(q) : p[2] = k
<1>1. /\ q.audio \in 0..NbCles /\ q.cover \in 0..NbCles /\ q.ancienne \in 0..NbCles
      /\ q.lu.audio \in 0..NbCles /\ q.jeter \in SUBSET Cles
      /\ q.reste \in SUBSET (Cibles \X Cles)
    BY RequeteFields
<1>2. \A p \in Vues(q) : p[2] \in Int
    BY <1>1 DEF Vues, Cles
<1> QED BY <1>1, <1>2 DEF Tenus, Anciens, Cles

\* A request takes a step and no row changes.  It may put an object under the
\* next key, read more rows, and take out of the bucket what it held or what
\* it was to throw away.
LEMMA RequestMoves ==
  ASSUME KeysInv, MediasTypes', UNCHANGED base, NEW r \in Requetes,
         \A s \in Requetes : s # r => requete'[s] = requete[s],
         tirees' \in {tirees, tirees + 1},
         \A k \in Tenus(requete'[r]) :
           k \in Tenus(requete[r]) \/ (k = tirees + 1 /\ tirees' = tirees + 1),
         requete'[r].audio = requete'[r].cover => requete'[r].audio = 0,
         Tenus(requete'[r]) \subseteq objets',
         \A k \in objets : \/ k \in objets' \/ k \in requete[r].jeter
                           \/ k \in Tenus(requete[r]) \ Tenus(requete'[r]),
         requete'[r].jeter \subseteq requete[r].jeter,
         \A p \in Vues(requete'[r]) :
           \/ p[2] = 0 \/ p \in Vues(requete[r])
           \/ p[1] \in presente /\ image[p[1]] = p[2],
         \/ requete'[r].lu.audio = 0
         \/ requete'[r].lu = requete[r].lu /\ requete'[r].cible = requete[r].cible
         \/ requete'[r].cible \in Mixes \cap presente
            /\ requete'[r].lu.audio = ligne[requete'[r].cible].audio,
         requete'[r].etape = "parcours" => requete'[r].lu.audio = 0
  PROVE  KeysInv'
<1> USE DEF base
<1> DEFINE q == requete[r]
           n == requete'[r]
<1>0. /\ MediasTypes /\ NamedOnce /\ NoDeadMedia /\ HandsApart
      /\ \A k \in Nommes : k <= tirees
      /\ \A s \in Requetes : Sound(requete[s])
    BY DEF KeysInv
<1>1. /\ \A s \in Requetes : requete[s] \in Requete /\ requete'[s] \in Requete
      /\ q \in Requete /\ n \in Requete /\ tirees \in Int
    BY <1>0 DEF MediasTypes
<1>2. Nommes' = Nommes /\ \A k \in Nommes : k <= tirees' /\ k \in Int
  <2>1. Nommes' = Nommes
      BY DEF Nommes
  <2> QED BY <1>0, <1>1, <2>1, KeysAreIntegers
<1>3. NamedOnce' /\ \A k \in Nommes' : k <= tirees'
    BY <1>0, <1>2 DEF NamedOnce
<1>4. Tenus(q) \subseteq objets \ Nommes /\ q.jeter \subseteq Anciens(q) /\ q.jeter \cap Nommes = {}
    BY <1>0, <1>1, KeysOfRequest DEF Sound
<1>5. NoDeadMedia'
    BY <1>0, <1>2, <1>4 DEF NoDeadMedia
<1>6. ASSUME NEW k \in Anciens(n)
      PROVE  k \in Anciens(q) \/ k \in Nommes
  <2>1. CASE k = n.lu.audio
    <3>1. k # 0
        BY <1>1, <1>6, KeysOfRequest
    <3>2. CASE n.lu = q.lu
        BY <1>1, <2>1, <3>1, <3>2, KeysOfRequest
    <3>3. CASE n.cible \in Mixes \cap presente /\ n.lu.audio = ligne[n.cible].audio
        BY <2>1, <3>3 DEF Nommes
    <3> QED BY <2>1, <3>1, <3>2, <3>3
  <2>2. CASE k \in n.jeter
      BY <2>2, <1>4
  <2>3. CASE \E p \in Vues(n) : p[2] = k
    <3>1. PICK p \in Vues(n) : p[2] = k
        BY <2>3
    <3>2. k # 0
        BY <1>1, <1>6, KeysOfRequest
    <3>3. CASE p \in Vues(q)
        BY <1>1, <3>1, <3>2, <3>3, KeysOfRequest
    <3>4. CASE p[1] \in presente /\ image[p[1]] = p[2]
        BY <3>1, <3>4 DEF Nommes
    <3> QED BY <3>1, <3>2, <3>3, <3>4
  <2> QED BY <1>1, <1>6, <2>1, <2>2, <2>3, KeysOfRequest
<1>7. \A s \in Requetes : \A k \in Tenus(requete[s]) \cup Anciens(requete[s]) : k <= tirees /\ k \in Int
    BY <1>0, <1>1, KeysOfRequest DEF Sound
<1>8. \A k \in Anciens(n) : k <= tirees /\ k \in Int
    BY <1>0, <1>2, <1>6, <1>7
<1>9. \A k \in Tenus(n) : k \notin Nommes /\ k <= tirees' /\ k \in Int
    BY <1>1, <1>2, <1>4, <1>7, <1>0
<1>10. Owned(n)
  <2>1. ASSUME NEW p \in Vues(n), p[2] # 0
        PROVE  /\ \A d \in presente : image[d] = p[2] => d = p[1]
               /\ \A m \in Mixes \cap presente : ligne[m].audio # p[2]
    <3>1. CASE p \in Vues(q)
        BY <1>0, <2>1, <3>1 DEF Sound, Owned
    <3>2. CASE p[1] \in presente /\ image[p[1]] = p[2]
        BY <1>0, <2>1, <3>2 DEF NamedOnce
    <3> QED BY <2>1, <3>1, <3>2
  <2>2. ASSUME n.lu.audio # 0
        PROVE  /\ \A d \in presente : image[d] # n.lu.audio
               /\ \A m \in Mixes \cap presente : ligne[m].audio = n.lu.audio => m = n.cible
    <3>1. CASE n.lu = q.lu /\ n.cible = q.cible
        BY <1>0, <2>2, <3>1 DEF Sound, Owned
    <3>2. CASE n.cible \in Mixes \cap presente /\ n.lu.audio = ligne[n.cible].audio
        BY <1>0, <2>2, <3>2 DEF NamedOnce
    <3> QED BY <2>2, <3>1, <3>2
  <2> QED BY <2>1, <2>2 DEF Owned
<1>11. \A s \in Requetes : Sound(requete[s])'
  <2> SUFFICES ASSUME NEW s \in Requetes PROVE Sound(requete[s])'
      OBVIOUS
  <2>1. CASE s = r
    <3>1. Tenus(n) \subseteq objets' \ Nommes'
        BY <1>2, <1>9
    <3>2. n.jeter \cap Nommes' = {}
        BY <1>2, <1>4
    <3>3. \A k \in Tenus(n) \cup Anciens(n) : k <= tirees'
        BY <1>1, <1>8, <1>9
    <3>4. Owned(requete[r])'
        BY <1>10 DEF Owned
    <3> QED BY <2>1, <3>1, <3>2, <3>3, <3>4 DEF Sound
  <2>2. CASE s # r
    <3> DEFINE o == requete[s]
    <3>1. requete'[s] = o /\ Sound(o)
        BY <1>0, <2>2
    <3>2. Tenus(o) \subseteq objets' \ Nommes'
      <4>1. Tenus(o) \subseteq objets \ Nommes
          BY <3>1 DEF Sound
      <4>2. Tenus(o) \cap Tenus(q) = {} /\ Tenus(o) \cap Anciens(q) = {}
          BY <1>0, <2>2 DEF HandsApart
      <4> QED BY <1>2, <1>4, <4>1, <4>2
    <3>3. \A k \in Tenus(o) \cup Anciens(o) : k <= tirees'
        BY <1>1, <1>7
    <3>4. Owned(requete[s])'
        BY <3>1 DEF Sound, Owned
    <3> QED BY <1>2, <3>1, <3>2, <3>3, <3>4 DEF Sound
  <2> QED BY <2>1, <2>2
<1>12. HandsApart'
  <2>1. ASSUME NEW s \in Requetes, NEW t \in Requetes, s # t
        PROVE  Tenus(requete'[s]) \cap Tenus(requete'[t]) = {}
    <3>1. \A x, y \in Requetes : x # y => Tenus(requete[x]) \cap Tenus(requete[y]) = {}
        BY <1>0 DEF HandsApart
    <3>2. CASE s = r
        BY <1>1, <1>7, <2>1, <3>1, <3>2
    <3>3. CASE t = r
        BY <1>1, <1>7, <2>1, <3>1, <3>3
    <3>4. CASE s # r /\ t # r
        BY <2>1, <3>1, <3>4
    <3> QED BY <3>2, <3>3, <3>4
  <2>2. ASSUME NEW s \in Requetes, NEW t \in Requetes
        PROVE  Tenus(requete'[s]) \cap Anciens(requete'[t]) = {}
    <3>1. \A x, y \in Requetes : Tenus(requete[x]) \cap Anciens(requete[y]) = {}
        BY <1>0 DEF HandsApart
    <3>2. \A x \in Requetes : Tenus(requete[x]) \cap Nommes = {}
        BY <1>0 DEF Sound
    <3>3. \A k \in Anciens(requete'[t]) :
             \/ k \in Nommes /\ k <= tirees
             \/ k \in Anciens(requete[t]) /\ k <= tirees
        BY <1>0, <1>6, <1>7
    <3>4. \A k \in Tenus(requete'[s]) : k \in Tenus(requete[s]) \/ k = tirees + 1
        OBVIOUS
    <3>5. \A k \in Anciens(requete'[t]) : k # tirees + 1
        BY <1>1, <1>2, <1>7, <3>3
    <3> QED BY <3>1, <3>2, <3>3, <3>4, <3>5
  <2> QED BY <2>1, <2>2 DEF HandsApart
<1> QED BY <1>3, <1>5, <1>11, <1>12 DEF KeysInv

\* Rows leave and nothing else: fewer keys are named.
LEMMA RowsLeave ==
  ASSUME KeysInv, MediasTypes', presente' \subseteq presente,
         \A c \in presente' : image'[c] = image[c],
         \A m \in Mixes \cap presente' : ligne'[m].audio = ligne[m].audio,
         UNCHANGED <<objets, tirees, requete>>
  PROVE  KeysInv'
<1>0. /\ MediasTypes /\ NamedOnce /\ NoDeadMedia /\ HandsApart
      /\ \A k \in Nommes : k <= tirees
      /\ \A s \in Requetes : Sound(requete[s])
    BY DEF KeysInv
<1>1. Nommes' \subseteq Nommes
    BY DEF Nommes
<1>2. NamedOnce'
    BY <1>0 DEF NamedOnce
<1>3. NoDeadMedia' /\ \A k \in Nommes' : k <= tirees'
    BY <1>0, <1>1 DEF NoDeadMedia
<1>4. \A s \in Requetes : Sound(requete[s])'
  <2> SUFFICES ASSUME NEW s \in Requetes PROVE Sound(requete[s])'
      OBVIOUS
  <2>1. Sound(requete[s]) /\ requete'[s] = requete[s]
      BY <1>0
  <2>2. Owned(requete[s])'
      BY <2>1 DEF Sound, Owned
  <2> QED BY <1>1, <2>1, <2>2 DEF Sound
<1>5. HandsApart'
    BY <1>0 DEF HandsApart
<1> QED BY <1>2, <1>3, <1>4, <1>5 DEF KeysInv

\* A request writes its row: the keys it held are named there, and what it is
\* to throw away was read before and is named nowhere.
LEMMA RowWritten ==
  ASSUME KeysInv, MediasTypes', UNCHANGED <<objets, tirees>>, NEW r \in Requetes,
         \A s \in Requetes : s # r => requete'[s] = requete[s],
         \A c \in presente' :
           \/ image'[c] = 0
           \/ c \in presente /\ image'[c] = image[c]
           \/ c = requete[r].cible /\ image'[c] = requete[r].cover,
         \A m \in Mixes \cap presente' :
           \/ ligne'[m].audio = 0
           \/ m \in presente /\ ligne'[m].audio = ligne[m].audio
           \/ m = requete[r].cible /\ ligne'[m].audio = requete[r].audio,
         Tenus(requete'[r]) = {}, requete'[r].audio = 0, requete'[r].lu.audio = 0,
         requete'[r].jeter \subseteq Anciens(requete[r]) \ Nommes',
         \A p \in Vues(requete'[r]) : p[2] = 0 \/ p \in Vues(requete[r])
  PROVE  KeysInv'
<1> DEFINE q == requete[r]
           n == requete'[r]
<1>0. /\ MediasTypes /\ NamedOnce /\ NoDeadMedia /\ HandsApart
      /\ \A k \in Nommes : k <= tirees
      /\ \A s \in Requetes : Sound(requete[s])
    BY DEF KeysInv
<1>1. /\ \A s \in Requetes : requete[s] \in Requete /\ requete'[s] \in Requete
      /\ q \in Requete /\ n \in Requete /\ tirees \in Int
    BY <1>0 DEF MediasTypes
<1>2. /\ \A c \in presente : image[c] \in Nommes
      /\ \A m \in Mixes \cap presente : ligne[m].audio \in Nommes
    BY DEF Nommes
<1>3. /\ q.cover # 0 => q.cover \in Tenus(q)
      /\ q.audio # 0 => q.audio \in Tenus(q)
      /\ q.cover = q.audio => q.audio = 0
      /\ Tenus(q) \subseteq objets \ Nommes
      /\ \A k \in Tenus(q) : k <= tirees
    BY <1>0 DEF Sound, Tenus
<1>4. \A k \in Nommes' : k = 0 \/ k \in Nommes \/ k \in Tenus(q)
    BY <1>2, <1>3 DEF Nommes
<1>5. NamedOnce'
  <2>1. ASSUME NEW c \in presente', NEW d \in presente', image'[c] = image'[d], image'[c] # 0
        PROVE  c = d
      BY <1>0, <1>2, <1>3, <2>1 DEF NamedOnce
  <2>2. ASSUME NEW m \in Mixes \cap presente', NEW k \in Mixes \cap presente',
               ligne'[m].audio = ligne'[k].audio, ligne'[m].audio # 0
        PROVE  m = k
      BY <1>0, <1>2, <1>3, <2>2 DEF NamedOnce
  <2>3. ASSUME NEW c \in presente', NEW m \in Mixes \cap presente',
               image'[c] = ligne'[m].audio, image'[c] # 0
        PROVE  FALSE
      BY <1>0, <1>2, <1>3, <2>3 DEF NamedOnce
  <2> QED BY <2>1, <2>2, <2>3 DEF NamedOnce
<1>6. NoDeadMedia'
    BY <1>0, <1>3, <1>4 DEF NoDeadMedia
<1>7. \A k \in Nommes' : k <= tirees'
    BY <1>0, <1>3, <1>4 DEF MediasTypes
<1>8. ASSUME NEW s \in Requetes
      PROVE  /\ Tenus(q) \cap Anciens(requete[s]) = {}
             /\ s # r => Tenus(q) \cap Tenus(requete[s]) = {}
    BY <1>0 DEF HandsApart
\* What a request read, the rows that changed do not name.
<1>9. ASSUME NEW s \in Requetes, NEW o \in Requete,
             \A p \in Vues(o) : p[2] = 0 \/ p \in Vues(requete[s]),
             o.lu.audio = 0 \/ (o.lu = requete[s].lu /\ o.cible = requete[s].cible),
             requete'[s] = o
      PROVE  Owned(requete[s])'
  <2>1. Sound(requete[s])
      BY <1>0
  <2>2. ASSUME NEW p \in Vues(o), p[2] # 0
        PROVE  /\ \A d \in presente' : image'[d] = p[2] => d = p[1]
               /\ \A m \in Mixes \cap presente' : ligne'[m].audio # p[2]
    <3>1. p \in Vues(requete[s]) /\ p[2] \in Anciens(requete[s])
        BY <1>1, <1>9, <2>2, KeysOfRequest
    <3>2. p[2] \notin Tenus(q)
        BY <1>8, <3>1
    <3>3. /\ \A d \in presente : image[d] = p[2] => d = p[1]
          /\ \A m \in Mixes \cap presente : ligne[m].audio # p[2]
        BY <2>1, <2>2, <3>1 DEF Sound, Owned
    <3> QED BY <1>3, <2>2, <3>2, <3>3
  <2>3. ASSUME o.lu.audio # 0
        PROVE  /\ \A d \in presente' : image'[d] # o.lu.audio
               /\ \A m \in Mixes \cap presente' : ligne'[m].audio = o.lu.audio => m = o.cible
    <3>1. o.lu = requete[s].lu /\ o.cible = requete[s].cible /\ o.lu.audio \in Anciens(requete[s])
        BY <1>1, <1>9, <2>3, KeysOfRequest
    <3>2. o.lu.audio \notin Tenus(q)
        BY <1>8, <3>1
    <3>3. /\ \A d \in presente : image[d] # o.lu.audio
          /\ \A m \in Mixes \cap presente : ligne[m].audio = o.lu.audio => m = o.cible
        BY <2>1, <2>3, <3>1 DEF Sound, Owned
    <3> QED BY <1>3, <2>3, <3>2, <3>3
  <2> QED BY <1>9, <2>2, <2>3 DEF Owned
<1>10. \A k \in Anciens(n) : k \in Anciens(q)
  <2> SUFFICES ASSUME NEW k \in Anciens(n) PROVE k \in Anciens(q)
      OBVIOUS
  <2>1. k # 0 /\ (k \in n.jeter \/ \E p \in Vues(n) : p[2] = k)
      BY <1>1, KeysOfRequest
  <2> QED BY <1>1, <2>1, KeysOfRequest
<1>11. \A s \in Requetes : Sound(requete[s])'
  <2> SUFFICES ASSUME NEW s \in Requetes PROVE Sound(requete[s])'
      OBVIOUS
  <2>1. CASE s = r
    <3>1. Owned(requete[r])'
        BY <1>1, <1>9
    <3>2. \A k \in Anciens(n) : k <= tirees'
        BY <1>0, <1>10 DEF Sound
    <3> QED BY <2>1, <3>1, <3>2 DEF Sound
  <2>2. CASE s # r
    <3> DEFINE o == requete[s]
    <3>1. requete'[s] = o /\ Sound(o) /\ o \in Requete
        BY <1>0, <1>1, <2>2
    <3>2. Owned(requete[s])'
        BY <1>9, <3>1
    <3>3. Tenus(o) \cap Tenus(q) = {} /\ Anciens(o) \cap Tenus(q) = {} /\ o.jeter \subseteq Anciens(o)
        BY <1>8, <2>2, <3>1, KeysOfRequest
    <3>4. Tenus(o) \subseteq objets' \ Nommes' /\ o.jeter \cap Nommes' = {}
      <4>1. 0 \notin Tenus(o) /\ 0 \notin o.jeter
          BY <3>1, <3>3, KeysOfRequest
      <4>2. Tenus(o) \subseteq objets \ Nommes /\ o.jeter \cap Nommes = {}
          BY <3>1 DEF Sound
      <4> QED BY <1>4, <3>3, <4>1, <4>2
    <3> QED BY <3>1, <3>2, <3>4 DEF Sound
  <2> QED BY <2>1, <2>2
<1>12. HandsApart'
  <2>1. \A s, t \in Requetes :
          /\ s # t => Tenus(requete[s]) \cap Tenus(requete[t]) = {}
          /\ Tenus(requete[s]) \cap Anciens(requete[t]) = {}
      BY <1>0 DEF HandsApart
  <2>2. \A s \in Requetes : Tenus(requete'[s]) \subseteq Tenus(requete[s])
                            /\ Anciens(requete'[s]) \subseteq Anciens(requete[s])
      BY <1>10
  <2> QED BY <2>1, <2>2 DEF HandsApart
<1> QED BY <1>5, <1>6, <1>7, <1>11, <1>12 DEF KeysInv

\* A request ends; what it held, or was to throw away, may leave the bucket.
LEMMA RequestEnds ==
  ASSUME KeysInv, MediasTypes', UNCHANGED base, UNCHANGED tirees, NEW r \in Requetes,
         requete' = [requete EXCEPT ![r] = Libre],
         \A k \in objets : k \in objets' \/ k \in requete[r].jeter \/ k \in Tenus(requete[r])
  PROVE  KeysInv'
<1>1. MediasTypes
    BY DEF KeysInv
<1>2. requete'[r] = Libre /\ \A s \in Requetes : s # r => requete'[s] = requete[s]
    BY <1>1, GivesUp
<1>3. Tenus(Libre) = {} /\ Vues(Libre) = {<<Aucun, 0>>}
    BY LibreFields DEF Tenus, Vues
<1>4. \A p \in Vues(Libre) : p[2] = 0
    BY <1>3
<1> HIDE DEF base
<1> QED BY <1>2, <1>3, <1>4, LibreFields, RequestMoves

LEMMA AbandonKeys ==
  ASSUME KeysInv, MediasTypes', NEW r \in Requetes, AbandonnerEnRoute(r)
  PROVE  KeysInv'
BY RequestEnds DEF AbandonnerEnRoute, bucket

\* A request goes to its next step and nothing else.
LEMMA RequestAdvances ==
  ASSUME KeysInv, MediasTypes', UNCHANGED <<base, objets, tirees>>, NEW r \in Requetes,
         NEW e \in Etapes, e # "parcours", Avancer(r, e)
  PROVE  KeysInv'
<1> DEFINE q == requete[r]
           n == [q EXCEPT !.etape = e]
<1>1. MediasTypes /\ Sound(q)
    BY DEF KeysInv
<1>2. q \in Requete
    BY <1>1 DEF MediasTypes
<1>3. requete' = [requete EXCEPT ![r] = n]
    BY DEF Avancer
<1>4. /\ n.etape = e /\ n.audio = q.audio /\ n.cover = q.cover /\ n.lu = q.lu /\ n.cible = q.cible
      /\ n.ancienne = q.ancienne /\ n.jeter = q.jeter /\ n.reste = q.reste
    BY <1>2, Advances
<1>5. requete'[r] = n /\ \A s \in Requetes : s # r => requete'[s] = requete[s]
    BY <1>1, <1>3 DEF MediasTypes
<1>6. Tenus(n) = Tenus(q) /\ Vues(n) = Vues(q)
    BY <1>4 DEF Tenus, Vues
<1>7. Tenus(q) \subseteq objets /\ (q.audio = q.cover => q.audio = 0)
    BY <1>1 DEF Sound
<1> HIDE DEF n
<1> QED BY <1>4, <1>5, <1>6, <1>7, RequestMoves

\* An object is put under the next key, and its request holds it.
LEMMA RequestPuts ==
  ASSUME KeysInv, MediasTypes', UNCHANGED base, Poser, NEW r \in Requetes,
         \A s \in Requetes : s # r => requete'[s] = requete[s],
         \/ requete'[r].audio = tirees + 1 /\ requete'[r].cover = requete[r].cover
         \/ requete'[r].cover = tirees + 1 /\ requete'[r].audio = requete[r].audio,
         requete'[r].jeter = requete[r].jeter,
         \A p \in Vues(requete'[r]) : p[2] = 0 \/ p \in Vues(requete[r]),
         requete'[r].lu = requete[r].lu,
         requete'[r].lu.audio = 0 \/ requete'[r].cible = requete[r].cible,
         requete'[r].etape # "parcours"
  PROVE  KeysInv'
<1> DEFINE q == requete[r]
           n == requete'[r]
<1>1. MediasTypes /\ Sound(q)
    BY DEF KeysInv
<1>2. q \in Requete /\ q.audio \in Int /\ q.cover \in Int
    BY <1>1, RequeteFields DEF MediasTypes
<1>3. tirees' = tirees + 1 /\ objets' = objets \cup {tirees + 1} /\ tirees \in Int /\ tirees >= 0
    BY <1>1, PoserTypes DEF MediasTypes
<1>4. /\ \A k \in Tenus(q) : k <= tirees /\ k \in objets
      /\ q.audio = q.cover => q.audio = 0
    BY <1>1 DEF Sound
<1>5. \A k \in Tenus(n) : k \in Tenus(q) \/ k = tirees + 1
    BY DEF Tenus
<1>7. n.audio # n.cover
  <2>1. q.audio = 0 \/ q.audio <= tirees
      BY <1>4 DEF Tenus
  <2>2. q.cover = 0 \/ q.cover <= tirees
      BY <1>4 DEF Tenus
  <2> QED BY <1>2, <1>3, <2>1, <2>2
<1>8. Tenus(n) \subseteq objets'
    BY <1>3, <1>4, <1>5
<1> QED BY <1>3, <1>5, <1>7, <1>8, RequestMoves

LEMMA KeysInvNext ==
  ASSUME KeysInv, [MediasNext]_mediasVars
  PROVE  KeysInv'
<1>0. MediasTypes /\ MediasTypes'
    BY MediasTypesNext DEF KeysInv
<1>1. ASSUME NEW r \in Requetes
      PROVE  /\ requete[r] \in Requete /\ WellFormed(requete[r]) /\ Sound(requete[r])
             /\ Tenus(requete[r]) \cap Anciens(requete[r]) = {}
             /\ \A q : requete' = [requete EXCEPT ![r] = q] =>
                  requete'[r] = q /\ \A s \in Requetes : s # r => requete'[s] = requete[s]
    BY <1>0 DEF MediasTypes, KeysInv, HandsApart
<1>2. ASSUME NEW r \in Requetes, NEW u \in Comptes, NEW c \in Cibles, NEW dto \in Demandes,
             NEW quoi \in {"creer", "modifier", "supprimer", "image"}, Recevoir(r, u, c, quoi, dto)
      PROVE  KeysInv'
  <2> DEFINE e == IF quoi = "supprimer" THEN "lire" ELSE "fichiers"
             n == [Libre EXCEPT !.quoi = quoi, !.cible = c, !.compte = u, !.dto = dto, !.etape = e]
  <2>1. requete' = [requete EXCEPT ![r] = n] /\ UNCHANGED <<base, objets, tirees>>
      BY <1>2 DEF Recevoir, bucket
  <2>2. /\ n.audio = 0 /\ n.cover = 0 /\ n.lu = Vide /\ n.jeter = {} /\ n.reste = {}
        /\ n.ancienne = 0 /\ n.etape = e /\ n.cible = c
      BY LibreFields DEF Requete
  <2>3. requete'[r] = n /\ \A s \in Requetes : s # r => requete'[s] = requete[s]
      BY <1>1, <2>1
  <2>4. Tenus(n) = {} /\ Vues(n) = {<<c, 0>>}
      BY <2>2 DEF Tenus, Vues
  <2>5. Vide.audio = 0 /\ e # "parcours"
      BY LibreFields
  <2>6. \A p \in Vues(n) : p[2] = 0
      BY <2>4
  <2> HIDE DEF n
  <2> QED BY <1>0, <2>1, <2>2, <2>3, <2>4, <2>5, <2>6, RequestMoves
<1>3. ASSUME NEW r \in Requetes, NEW u \in Comptes, NEW m \in Mixes, NEW page \in BOOLEAN,
             CreerDepuisImport(r, u, m, page)
      PROVE  KeysInv'
  <2> DEFINE n == [Libre EXCEPT !.quoi = "creer", !.cible = m, !.compte = u, !.etape = "pochette",
                                !.dto = [type |-> TRUE, ref |-> TRUE, page |-> page]]
  <2>1. requete' = [requete EXCEPT ![r] = n] /\ UNCHANGED <<base, objets, tirees>>
      BY <1>3 DEF CreerDepuisImport, bucket
  <2>2. /\ n.audio = 0 /\ n.cover = 0 /\ n.lu = Vide /\ n.jeter = {} /\ n.reste = {}
        /\ n.ancienne = 0 /\ n.etape = "pochette" /\ n.cible = m
      BY LibreFields DEF Requete
  <2>3. requete'[r] = n /\ \A s \in Requetes : s # r => requete'[s] = requete[s]
      BY <1>1, <2>1
  <2>4. Tenus(n) = {} /\ Vues(n) = {<<m, 0>>}
      BY <2>2 DEF Tenus, Vues
  <2>5. Vide.audio = 0
      BY LibreFields
  <2>6. \A p \in Vues(n) : p[2] = 0
      BY <2>4
  <2> HIDE DEF n
  <2> QED BY <1>0, <2>1, <2>2, <2>3, <2>4, <2>5, <2>6, RequestMoves
<1>4. ASSUME NEW r \in Requetes, Servir(r)
      PROVE  KeysInv'
  <2> DEFINE q == requete[r]
  <2>0. /\ q \in Requete /\ WellFormed(q) /\ Sound(q) /\ Tenus(q) \cap Anciens(q) = {}
        /\ q.cover # 0 => q.cover \in Tenus(q)
        /\ q.ancienne # 0 => q.ancienne \in Anciens(q) /\ <<q.cible, q.ancienne>> \in Vues(q)
        /\ q.lu.audio # 0 => q.lu.audio \in Anciens(q)
        /\ q.audio \in Int /\ q.cover \in Int
    <3>1. q \in Requete /\ WellFormed(q) /\ Sound(q) /\ Tenus(q) \cap Anciens(q) = {}
        BY <1>1
    <3>2. <<q.cible, q.ancienne>> \in Vues(q) /\ <<q.cible, q.ancienne>>[2] = q.ancienne
        BY DEF Vues
    <3>3. q.ancienne # 0 => q.ancienne \in Anciens(q)
        BY <3>1, <3>2, KeysOfRequest
    <3> QED BY <3>1, <3>2, <3>3, KeysOfRequest, RequeteFields
  <2>1. CASE DeposerAudio(r)
    <3> DEFINE n == [q EXCEPT !.audio = tirees + 1]
    <3>1. requete' = [requete EXCEPT ![r] = n] /\ UNCHANGED base /\ Poser /\ q.audio = 0 /\ q.etape = "fichiers"
        BY <2>1 DEF DeposerAudio
    <3>2. /\ n.audio = tirees + 1 /\ n.cover = q.cover /\ n.lu = q.lu /\ n.jeter = q.jeter
          /\ n.reste = q.reste /\ n.ancienne = q.ancienne /\ n.etape = q.etape /\ n.cible = q.cible
        BY <2>0 DEF Requete
    <3>3. requete'[r] = n /\ \A s \in Requetes : s # r => requete'[s] = requete[s]
        BY <1>1, <3>1
    <3>4. Vues(n) = Vues(q)
        BY <3>2 DEF Vues
    <3> HIDE DEF n
    <3> QED BY <1>0, <3>1, <3>2, <3>3, <3>4, RequestPuts
  <2>2. CASE DeposerImage(r)
    <3> DEFINE n == [q EXCEPT !.cover = tirees + 1]
    <3>1. requete' = [requete EXCEPT ![r] = n] /\ UNCHANGED base /\ Poser /\ q.cover = 0 /\ q.etape = "fichiers"
        BY <2>2 DEF DeposerImage
    <3>2. /\ n.cover = tirees + 1 /\ n.audio = q.audio /\ n.lu = q.lu /\ n.jeter = q.jeter
          /\ n.reste = q.reste /\ n.ancienne = q.ancienne /\ n.etape = q.etape /\ n.cible = q.cible
        BY <2>0 DEF Requete
    <3>3. requete'[r] = n /\ \A s \in Requetes : s # r => requete'[s] = requete[s]
        BY <1>1, <3>1
    <3>4. Vues(n) = Vues(q)
        BY <3>2 DEF Vues
    <3> HIDE DEF n
    <3> QED BY <1>0, <3>1, <3>2, <3>3, <3>4, RequestPuts
  <2>3. CASE RefuserFichier(r)
    <3>1. /\ requete' = [requete EXCEPT ![r] = Libre] /\ UNCHANGED base
          /\ Effacer({q.audio, q.cover} \ {0})
        BY <2>3 DEF RefuserFichier
    <3>2. tirees' = tirees /\ \A k \in objets : k \in objets' \/ k \in Tenus(q)
        BY <1>0, <3>1, EffacerTypes DEF Tenus
    <3> QED BY <1>0, <3>1, <3>2, RequestEnds
  <2>4. CASE Intercepter(r)
    <3> DEFINE e == IF q.quoi = "creer" THEN "controler" ELSE "lire"
    <3>1. Avancer(r, e) /\ UNCHANGED <<base, objets, tirees>>
        BY <2>4 DEF Intercepter, bucket
    <3>2. e \in Etapes /\ e # "parcours"
        BY DEF Etapes
    <3> HIDE DEF e
    <3> QED BY <1>0, <3>1, <3>2, RequestAdvances
  <2>5. CASE Controler(r)
    <3>1. AbandonnerEnRoute(r) \/ (Avancer(r, "pochette") /\ UNCHANGED <<base, objets, tirees>>)
        BY <2>5 DEF Controler, bucket
    <3>2. "pochette" \in Etapes
        BY DEF Etapes
    <3> QED BY <1>0, <3>1, <3>2, AbandonKeys, RequestAdvances
  <2>6. CASE Pochette(r)
    <3>1. CASE Avancer(r, "inserer") /\ UNCHANGED bucket
      <4>1. "inserer" \in Etapes /\ UNCHANGED <<base, objets, tirees>>
          BY <2>6, <3>1 DEF Etapes, Pochette, bucket
      <4> QED BY <1>0, <3>1, <4>1, RequestAdvances
    <3>2. CASE /\ q.cover = 0 /\ Poser /\ Reduire(tirees + 1)
               /\ requete' = [requete EXCEPT ![r].etape = "inserer", ![r].cover = tirees + 1]
      <4> DEFINE n == [q EXCEPT !.etape = "inserer", !.cover = tirees + 1]
      <4>1. requete' = [requete EXCEPT ![r] = n] /\ UNCHANGED base
          BY <1>0, <2>6, <3>2 DEF MediasTypes, Pochette
      <4>2. /\ n.cover = tirees + 1 /\ n.audio = q.audio /\ n.lu = q.lu /\ n.jeter = q.jeter
            /\ n.reste = q.reste /\ n.ancienne = q.ancienne /\ n.etape = "inserer" /\ n.cible = q.cible
          BY <2>0 DEF Requete
      <4>3. requete'[r] = n /\ \A s \in Requetes : s # r => requete'[s] = requete[s]
          BY <1>1, <4>1
      <4>4. Vues(n) = Vues(q)
          BY <4>2 DEF Vues
      <4> HIDE DEF n
      <4> QED BY <1>0, <3>2, <4>1, <4>2, <4>3, <4>4, RequestPuts
    <3> QED BY <2>6, <3>1, <3>2 DEF Pochette
  <2>7. CASE Inserer(r)
    <3>1. CASE AbandonnerEnRoute(r)
        BY <1>0, <3>1, AbandonKeys
    <3>2. CASE ~AbandonnerEnRoute(r)
      <4>1. /\ presente' = presente \cup {q.cible}
            /\ image' = [image EXCEPT ![q.cible] = q.cover]
            /\ ligne' = [ligne EXCEPT ![q.cible] =
                 [auteur |-> q.compte, audio |-> q.audio, source |-> q.dto]]
            /\ requete' = [requete EXCEPT ![r] = Libre]
            /\ UNCHANGED <<objets, tirees>>
          BY <2>7, <3>2 DEF Inserer, bucket
      <4>2. q.cible \in Mixes
          BY <2>0, <2>7 DEF WellFormed, Inserer
      <4>3. \A c \in presente' : \/ c \in presente /\ image'[c] = image[c]
                                 \/ c = q.cible /\ image'[c] = q.cover
          BY <1>0, <4>1, <4>2 DEF MediasTypes, Cibles
      <4>4. \A m \in Mixes \cap presente' :
              \/ m \in presente /\ ligne'[m].audio = ligne[m].audio
              \/ m = q.cible /\ ligne'[m].audio = q.audio
          BY <1>0, <4>1, <4>2 DEF MediasTypes
      <4>5. requete'[r] = Libre /\ \A s \in Requetes : s # r => requete'[s] = requete[s]
          BY <1>1, <4>1
      <4>6. Tenus(Libre) = {} /\ Vues(Libre) = {<<Aucun, 0>>}
          BY LibreFields DEF Tenus, Vues
      <4>7. \A p \in Vues(Libre) : p[2] = 0
          BY <4>6
      <4> QED BY <1>0, <4>1, <4>3, <4>4, <4>5, <4>6, <4>7, LibreFields, RowWritten
    <3> QED BY <3>1, <3>2
  <2>8. CASE LireMix(r)
    <3>1. CASE AbandonnerEnRoute(r)
        BY <1>0, <3>1, AbandonKeys
    <3>2. CASE ~AbandonnerEnRoute(r)
      <4> DEFINE m == q.cible
                 n == [q EXCEPT !.etape = "ecrire", !.lu = ligne[m], !.ancienne = image[m]]
      <4>1. m \in presente /\ requete' = [requete EXCEPT ![r] = n] /\ UNCHANGED <<base, objets, tirees>>
          BY <2>8, <3>2 DEF LireMix, bucket
      <4>2. m \in Mixes
          BY <2>0, <2>8 DEF LireMix, WellFormed
      <4>3. /\ n.cover = q.cover /\ n.audio = q.audio /\ n.lu = ligne[m] /\ n.jeter = q.jeter
            /\ n.reste = q.reste /\ n.ancienne = image[m] /\ n.etape = "ecrire" /\ n.cible = m
          BY <2>0 DEF Requete
      <4>4. requete'[r] = n /\ \A s \in Requetes : s # r => requete'[s] = requete[s]
          BY <1>1, <4>1
      <4>5. Tenus(n) = Tenus(q) /\ Vues(n) = q.reste \cup {<<m, image[m]>>}
          BY <4>3 DEF Tenus, Vues
      <4>6. \A p \in Vues(n) : p \in Vues(q) \/ (p[1] \in presente /\ image[p[1]] = p[2])
          BY <4>1, <4>5 DEF Vues
      <4>7. Tenus(q) \subseteq objets /\ (q.audio = q.cover => q.audio = 0)
          BY <2>0 DEF Sound
      <4> HIDE DEF n
      <4> QED BY <1>0, <4>1, <4>2, <4>3, <4>4, <4>5, <4>6, <4>7, RequestMoves
    <3> QED BY <3>1, <3>2
  <2>9. CASE EcrireMix(r)
    <3>1. CASE AbandonnerEnRoute(r)
        BY <1>0, <3>1, AbandonKeys
    <3>2. CASE ~AbandonnerEnRoute(r)
      <4>p. PICK vide \in BOOLEAN :
              ligne' = [ligne EXCEPT ![q.cible].source =
                          SourceEcrite(ligne[q.cible].source, q.lu.source, q.dto, vide)]
          BY <1>0, <2>9, <3>2 DEF EcrireMix, MediasTypes
      <4> DEFINE m == q.cible
                 n == IF q.cover # 0 /\ q.ancienne # 0
                      THEN [Libre EXCEPT !.quoi = "modifier", !.etape = "effacer", !.jeter = {q.ancienne}]
                      ELSE Libre
                 src == SourceEcrite(ligne[m].source, q.lu.source, q.dto, vide)
      <4>0. m \in Mixes /\ m \in Cibles
          BY <2>0, <2>9 DEF EcrireMix, WellFormed, Cibles
      <4>1. /\ m \in presente
            /\ image' = [image EXCEPT ![m] = IF q.cover # 0 THEN q.cover ELSE image[m]]
            /\ requete' = [requete EXCEPT ![r] = n]
            /\ UNCHANGED <<presente, objets, tirees>>
          BY <2>9, <3>2 DEF EcrireMix, bucket
      <4>2. ligne' = [ligne EXCEPT ![m].source = src]
          BY <4>p
      <4> HIDE DEF src
      <4>3. \A c \in presente : image'[c] = IF c = m /\ q.cover # 0 THEN q.cover ELSE image[c]
          BY <1>0, <4>0, <4>1 DEF MediasTypes
      <4>4. \A k \in Mixes : ligne'[k].audio = ligne[k].audio
        <5>1. ligne \in [Mixes -> Ligne]
            BY <1>0 DEF MediasTypes
        <5> QED BY <4>2, <5>1 DEF Ligne
      <4>5. requete'[r] = n /\ \A s \in Requetes : s # r => requete'[s] = requete[s]
          BY <1>1, <4>1
      <4>6. /\ n.audio = 0 /\ n.cover = 0 /\ n.lu = Vide /\ n.reste = {} /\ n.ancienne = 0 /\ n.cible = Aucun
            /\ n.jeter = {} \/ (q.cover # 0 /\ q.ancienne # 0 /\ n.jeter = {q.ancienne})
        <5>1. CASE q.cover # 0 /\ q.ancienne # 0
            BY <5>1, LibreFields DEF Requete
        <5>2. CASE ~(q.cover # 0 /\ q.ancienne # 0)
          <6>1. n = Libre
              BY <5>2
          <6> HIDE DEF n
          <6> QED BY <6>1, LibreFields
        <5> QED BY <5>1, <5>2
      <4> HIDE DEF n
      <4>7. Tenus(n) = {} /\ Vues(n) = {<<Aucun, 0>>} /\ Vide.audio = 0
          BY <4>6, LibreFields DEF Tenus, Vues
      <4>8. \A p \in Vues(n) : p[2] = 0
          BY <4>7
      <4>9. n.jeter \subseteq Anciens(q) \ Nommes'
        <5> SUFFICES ASSUME q.cover # 0, q.ancienne # 0
                     PROVE  q.ancienne \in Anciens(q) \ Nommes'
            BY <4>6
        <5>1. q.ancienne \in Anciens(q) /\ q.ancienne # q.cover
            BY <2>0
        <5>2. /\ \A d \in presente : image[d] = q.ancienne => d = m
              /\ \A k \in Mixes \cap presente : ligne[k].audio # q.ancienne
          <6>1. <<m, q.ancienne>> \in Vues(q) /\ <<m, q.ancienne>>[2] # 0
              BY <2>0
          <6> QED BY <2>0, <6>1 DEF Sound, Owned
        <5> QED BY <4>1, <4>3, <4>4, <5>1, <5>2 DEF Nommes
      <4> QED BY <1>0, <4>1, <4>3, <4>4, <4>5, <4>6, <4>7, <4>8, <4>9, RowWritten
    <3> QED BY <3>1, <3>2
  <2>10. CASE SupprimerLigne(r)
    <3>1. CASE AbandonnerEnRoute(r)
        BY <1>0, <3>1, AbandonKeys
    <3>2. CASE ~AbandonnerEnRoute(r)
      <4> DEFINE m == q.cible
                 n == [Libre EXCEPT !.quoi = "supprimer", !.etape = "effacer", !.jeter = AJeter(q)]
      <4>0. m \in Mixes /\ m \in Cibles
          BY <2>0, <2>10 DEF SupprimerLigne, WellFormed, Cibles
      <4>1. /\ presente' = presente \ {m}
            /\ image' = [image EXCEPT ![m] = 0]
            /\ ligne' = [ligne EXCEPT ![m].audio = 0]
            /\ requete' = [requete EXCEPT ![r] = n]
            /\ UNCHANGED <<objets, tirees>>
          BY <2>10, <3>2 DEF SupprimerLigne, bucket
      <4>2. \A c \in presente' : c # m /\ c \in presente /\ image'[c] = image[c]
          BY <1>0, <4>0, <4>1 DEF MediasTypes
      <4>3. \A k \in Mixes \cap presente' : k # m /\ k \in presente /\ ligne'[k].audio = ligne[k].audio
          BY <1>0, <4>0, <4>1 DEF MediasTypes
      <4>4. requete'[r] = n /\ \A s \in Requetes : s # r => requete'[s] = requete[s]
          BY <1>1, <4>1
      <4>5. /\ n.audio = 0 /\ n.cover = 0 /\ n.lu = Vide /\ n.reste = {} /\ n.ancienne = 0 /\ n.cible = Aucun
            /\ n.jeter = AJeter(q)
          BY LibreFields DEF Requete
      <4> HIDE DEF n
      <4>6. Tenus(n) = {} /\ Vues(n) = {<<Aucun, 0>>} /\ Vide.audio = 0
          BY <4>5, LibreFields DEF Tenus, Vues
      <4>7. \A p \in Vues(n) : p[2] = 0
          BY <4>6
      <4>8. q.ancienne # 0 =>
              /\ \A d \in presente : image[d] = q.ancienne => d = m
              /\ \A k \in Mixes \cap presente : ligne[k].audio # q.ancienne
        <5> SUFFICES ASSUME q.ancienne # 0
                     PROVE  /\ \A d \in presente : image[d] = q.ancienne => d = m
                            /\ \A k \in Mixes \cap presente : ligne[k].audio # q.ancienne
            OBVIOUS
        <5>1. <<m, q.ancienne>> \in Vues(q) /\ <<m, q.ancienne>>[2] # 0
            BY <2>0
        <5> QED BY <2>0, <5>1 DEF Sound, Owned
      <4>9. q.lu.audio # 0 =>
              /\ \A d \in presente : image[d] # q.lu.audio
              /\ \A k \in Mixes \cap presente : ligne[k].audio = q.lu.audio => k = m
          BY <2>0 DEF Sound, Owned
      <4>10. n.jeter \subseteq Anciens(q) \ Nommes'
          BY <2>0, <4>2, <4>3, <4>5, <4>8, <4>9 DEF Nommes, AJeter
      <4> QED BY <1>0, <4>1, <4>2, <4>3, <4>4, <4>5, <4>6, <4>7, <4>10, RowWritten
    <3> QED BY <3>1, <3>2
  <2>11. CASE EffacerAnciens(r)
    <3>1. UNCHANGED base /\ Effacer(q.jeter)
        BY <2>11 DEF EffacerAnciens
    <3>2. /\ tirees' = tirees /\ objets' \subseteq objets
          /\ \A k \in objets : k \in objets' \/ k \in q.jeter
        BY <1>0, <3>1, EffacerTypes
    <3>3. CASE q.quoi = "webp"
      <4> DEFINE n == [Libre EXCEPT !.quoi = "webp", !.etape = "parcours", !.reste = q.reste]
      <4>1. requete' = [requete EXCEPT ![r] = n]
          BY <2>11, <3>3 DEF EffacerAnciens
      <4>2. /\ n.audio = 0 /\ n.cover = 0 /\ n.lu = Vide /\ n.reste = q.reste /\ n.ancienne = 0
            /\ n.cible = Aucun /\ n.jeter = {}
          BY LibreFields DEF Requete
      <4>3. requete'[r] = n /\ \A s \in Requetes : s # r => requete'[s] = requete[s]
          BY <1>1, <4>1
      <4> HIDE DEF n
      <4>4. Tenus(n) = {} /\ Vues(n) = q.reste \cup {<<Aucun, 0>>} /\ Vide.audio = 0
          BY <4>2, LibreFields DEF Tenus, Vues
      <4>5. \A p \in Vues(n) : p[2] = 0 \/ p \in Vues(q)
          BY <4>4 DEF Vues
      <4> QED BY <1>0, <3>1, <3>2, <4>2, <4>3, <4>4, <4>5, RequestMoves
    <3>4. CASE q.quoi # "webp"
      <4>1. requete' = [requete EXCEPT ![r] = Libre]
          BY <2>11, <3>4 DEF EffacerAnciens
      <4> QED BY <1>0, <3>1, <3>2, <4>1, RequestEnds
    <3> QED BY <3>3, <3>4
  <2>12. CASE LireCompte(r)
    <3>1. AbandonnerEnRoute(r) \/ (Avancer(r, "ecrire") /\ UNCHANGED <<base, objets, tirees>>)
        BY <2>12 DEF LireCompte, bucket
    <3>2. "ecrire" \in Etapes
        BY DEF Etapes
    <3> QED BY <1>0, <3>1, <3>2, AbandonKeys, RequestAdvances
  <2>13. CASE EcrireImage(r)
    <3>1. CASE AbandonnerEnRoute(r)
        BY <1>0, <3>1, AbandonKeys
    <3>2. CASE ~AbandonnerEnRoute(r)
      <4>1. /\ image' = [image EXCEPT ![q.cible] = q.cover]
            /\ requete' = [requete EXCEPT ![r] = Libre]
            /\ UNCHANGED <<presente, ligne, objets, tirees>>
          BY <2>13, <3>2 DEF EcrireImage, bucket
      <4>2. \A c \in presente' : \/ c \in presente /\ image'[c] = image[c]
                                 \/ c = q.cible /\ image'[c] = q.cover
          BY <1>0, <4>1 DEF MediasTypes
      <4>3. requete'[r] = Libre /\ \A s \in Requetes : s # r => requete'[s] = requete[s]
          BY <1>1, <4>1
      <4>4. Tenus(Libre) = {} /\ Vues(Libre) = {<<Aucun, 0>>}
          BY LibreFields DEF Tenus, Vues
      <4>5. \A p \in Vues(Libre) : p[2] = 0
          BY <4>4
      <4> QED BY <1>0, <4>1, <4>2, <4>3, <4>4, <4>5, LibreFields, RowWritten
    <3> QED BY <3>1, <3>2
  <2> QED BY <1>4, <2>1, <2>2, <2>3, <2>4, <2>5, <2>6, <2>7, <2>8, <2>9, <2>10, <2>11, <2>12, <2>13
       DEF Servir
<1>5. ASSUME NEW r \in Requetes, Relancer(r)
      PROVE  KeysInv'
  <2> DEFINE q == requete[r]
  <2>0. /\ q \in Requete /\ WellFormed(q) /\ Sound(q) /\ Tenus(q) \cap Anciens(q) = {}
        /\ q.reste \in SUBSET (Cibles \X Cles)
        /\ Tenus(q) \subseteq objets /\ (q.audio = q.cover => q.audio = 0)
      BY <1>1, RequeteFields DEF Sound
  <2>1. ASSUME NEW quoi \in {"webp", "variantes"}, LancerScript(r, quoi)
        PROVE  KeysInv'
    <3> DEFINE ps == IF quoi = "webp" THEN Listees ELSE {p \in Listees : p[2] \notin reduites}
               n == [Libre EXCEPT !.quoi = quoi, !.etape = "parcours", !.reste = ps]
    <3>1. requete' = [requete EXCEPT ![r] = n] /\ UNCHANGED <<base, objets, tirees>>
        BY <2>1 DEF LancerScript, bucket
    <3>2. \A p \in ps : p[1] \in presente /\ image[p[1]] = p[2]
        BY DEF Listees
    <3> HIDE DEF ps
    <3>3. /\ n.audio = 0 /\ n.cover = 0 /\ n.lu = Vide /\ n.reste = ps /\ n.ancienne = 0
          /\ n.cible = Aucun /\ n.jeter = {}
        BY LibreFields DEF Requete
    <3>4. requete'[r] = n /\ \A s \in Requetes : s # r => requete'[s] = requete[s]
        BY <1>1, <3>1
    <3> HIDE DEF n
    <3>5. Tenus(n) = {} /\ Vues(n) = ps \cup {<<Aucun, 0>>} /\ Vide.audio = 0
        BY <3>3, LibreFields DEF Tenus, Vues
    <3>6. \A p \in Vues(n) : p[2] = 0 \/ (p[1] \in presente /\ image[p[1]] = p[2])
        BY <3>2, <3>5
    <3> QED BY <1>0, <3>1, <3>3, <3>4, <3>5, <3>6, <2>1, RequestMoves DEF LancerScript
  <2>2. ASSUME NEW p \in q.reste, PasserLigne(r, p) \/ EcrireReduites(r, p)
        PROVE  KeysInv'
    <3> DEFINE n == [q EXCEPT !.reste = q.reste \ {p}]
    <3>1. /\ requete' = [requete EXCEPT ![r] = n] /\ UNCHANGED <<base, objets, tirees>>
          /\ q.etape = "parcours"
      <4>1. requete' = [requete EXCEPT ![r].reste = @ \ {p}] /\ q.etape = "parcours"
          BY <2>2 DEF PasserLigne, EcrireReduites
      <4>2. requete' = [requete EXCEPT ![r] = n]
          BY <1>0, <4>1 DEF MediasTypes
      <4>3. UNCHANGED <<base, objets, tirees>>
          BY <2>2 DEF PasserLigne, EcrireReduites, bucket
      <4> QED BY <4>1, <4>2, <4>3
    <3>2. /\ n.cover = q.cover /\ n.audio = q.audio /\ n.lu = q.lu /\ n.jeter = q.jeter
          /\ n.reste = q.reste \ {p} /\ n.ancienne = q.ancienne /\ n.etape = q.etape /\ n.cible = q.cible
        BY <2>0 DEF Requete
    <3>3. requete'[r] = n /\ \A s \in Requetes : s # r => requete'[s] = requete[s]
        BY <1>1, <3>1
    <3> HIDE DEF n
    <3>4. Tenus(n) = Tenus(q) /\ Vues(n) \subseteq Vues(q)
        BY <3>2 DEF Tenus, Vues
    <3>5. q.lu.audio = 0
        BY <2>0, <3>1 DEF Sound
    <3> QED BY <1>0, <2>0, <3>1, <3>2, <3>3, <3>4, <3>5, RequestMoves
  <2>3. ASSUME NEW p \in q.reste, EcrireWebp(r, p)
        PROVE  KeysInv'
    <3> DEFINE n == [q EXCEPT !.etape = "colonne", !.cible = p[1], !.cover = tirees + 1,
                              !.ancienne = p[2], !.reste = q.reste \ {p}]
    <3>1. /\ requete' = [requete EXCEPT ![r] = n] /\ UNCHANGED base
          /\ Poser /\ q.etape = "parcours"
        BY <2>3 DEF EcrireWebp
    <3>2. /\ n.cover = tirees + 1 /\ n.audio = q.audio /\ n.lu = q.lu /\ n.jeter = q.jeter
          /\ n.reste = q.reste \ {p} /\ n.ancienne = p[2] /\ n.etape = "colonne" /\ n.cible = p[1]
        BY <2>0 DEF Requete
    <3>3. requete'[r] = n /\ \A s \in Requetes : s # r => requete'[s] = requete[s]
        BY <1>1, <3>1
    <3> HIDE DEF n
    <3>4. p = <<p[1], p[2]>>
        BY <2>0
    <3>5. Vues(n) \subseteq Vues(q)
        BY <3>2, <3>4 DEF Vues
    <3>6. q.lu.audio = 0
        BY <2>0, <3>1 DEF Sound
    <3> QED BY <1>0, <2>0, <3>1, <3>2, <3>3, <3>5, <3>6, RequestPuts
  <2>4. CASE EcrireColonne(r)
    <3>1. q.etape = "colonne" /\ q.cover \in Cles /\ q.ancienne \in Cles
        BY <2>0, <2>4 DEF EcrireColonne, WellFormed
    <3>2. CASE q.cible \notin presente
      <4> DEFINE n == [Libre EXCEPT !.quoi = "webp", !.etape = "parcours", !.reste = q.reste]
      <4>1. requete' = [requete EXCEPT ![r] = n] /\ UNCHANGED <<presente, image, ligne, objets, tirees>>
          BY <2>4, <3>2 DEF EcrireColonne, bucket
      <4>2. /\ n.audio = 0 /\ n.cover = 0 /\ n.lu = Vide /\ n.reste = q.reste /\ n.ancienne = 0
            /\ n.cible = Aucun /\ n.jeter = {}
          BY LibreFields DEF Requete
      <4>3. requete'[r] = n /\ \A s \in Requetes : s # r => requete'[s] = requete[s]
          BY <1>1, <4>1
      <4> HIDE DEF n
      <4>4. Tenus(n) = {} /\ Vues(n) = q.reste \cup {<<Aucun, 0>>} /\ Vide.audio = 0
          BY <4>2, LibreFields DEF Tenus, Vues
      <4>5. \A p \in Vues(n) : p[2] = 0 \/ p \in Vues(q)
          BY <4>4 DEF Vues
      <4> QED BY <1>0, <4>1, <4>2, <4>3, <4>4, <4>5, RequestMoves DEF base
    <3>3. CASE q.cible \in presente
      <4> DEFINE n == [Libre EXCEPT !.quoi = "webp", !.etape = "effacer",
                                    !.jeter = {q.ancienne}, !.reste = q.reste]
      <4>1. /\ requete' = [requete EXCEPT ![r] = n] /\ UNCHANGED <<presente, ligne, objets, tirees>>
            /\ image' = [image EXCEPT ![q.cible] = q.cover]
          BY <2>4, <3>3 DEF EcrireColonne, bucket
      <4>2. /\ n.audio = 0 /\ n.cover = 0 /\ n.lu = Vide /\ n.reste = q.reste /\ n.ancienne = 0
            /\ n.cible = Aucun /\ n.jeter = {q.ancienne}
          BY LibreFields DEF Requete
      <4>3. requete'[r] = n /\ \A s \in Requetes : s # r => requete'[s] = requete[s]
          BY <1>1, <4>1
      <4> HIDE DEF n
      <4>4. Tenus(n) = {} /\ Vues(n) = q.reste \cup {<<Aucun, 0>>} /\ Vide.audio = 0
          BY <4>2, LibreFields DEF Tenus, Vues
      <4>5. \A p \in Vues(n) : p[2] = 0 \/ p \in Vues(q)
          BY <4>4 DEF Vues
      <4>6. \A c \in presente : image'[c] = IF c = q.cible THEN q.cover ELSE image[c]
          BY <1>0, <4>1 DEF MediasTypes
      <4>7. q.ancienne # 0 /\ q.cover # 0 /\ <<q.cible, q.ancienne>> \in Vues(q)
            /\ <<q.cible, q.ancienne>>[2] = q.ancienne
          BY <3>1 DEF Cles, Vues
      <4>8. q.ancienne \in Anciens(q) /\ q.cover \in Tenus(q) /\ q.cover # q.ancienne
          BY <2>0, <4>7, KeysOfRequest
      <4>9. /\ \A d \in presente : image[d] = q.ancienne => d = q.cible
            /\ \A k \in Mixes \cap presente : ligne[k].audio # q.ancienne
          BY <2>0, <4>7 DEF Sound, Owned
      <4>10. n.jeter \subseteq Anciens(q) \ Nommes'
          BY <4>1, <4>2, <4>6, <4>8, <4>9 DEF Nommes
      <4> QED BY <1>0, <4>1, <4>2, <4>3, <4>4, <4>5, <4>6, <4>10, RowWritten
    <3> QED BY <3>2, <3>3
  <2>5. CASE FinirScript(r)
      BY <1>0, <2>5, RequestEnds DEF FinirScript, bucket
  <2> QED BY <1>5, <2>1, <2>2, <2>3, <2>4, <2>5 DEF Relancer
<1>6. ASSUME NEW r \in Requetes, Interrompre(r)
      PROVE  KeysInv'
    BY <1>0, <1>6, RequestEnds DEF Interrompre, bucket
<1>7. ASSUME NEW u \in Comptes, SupprimerCompte(u)
      PROVE  KeysInv'
  <2> DEFINE partis == {u} \cup {m \in Mixes \cap presente : ligne[m].auteur = u}
  <2>1. /\ presente' = presente \ partis
        /\ image' = [c \in Cibles |-> IF c \in partis THEN 0 ELSE image[c]]
        /\ ligne' = [m \in Mixes |-> IF m \in partis THEN [ligne[m] EXCEPT !.audio = 0] ELSE ligne[m]]
        /\ UNCHANGED <<objets, tirees, requete>>
      BY <1>7 DEF SupprimerCompte, bucket
  <2>2. presente \subseteq Cibles
      BY <1>0 DEF MediasTypes
  <2> HIDE DEF partis
  <2>3. \A c \in presente' : image'[c] = image[c]
      BY <2>1, <2>2
  <2>4. \A m \in Mixes \cap presente' : ligne'[m].audio = ligne[m].audio
      BY <2>1
  <2> QED BY <1>0, <2>1, <2>3, <2>4, RowsLeave
<1>8. CASE UNCHANGED mediasVars
  <2>1. UNCHANGED <<presente, image, ligne, objets, tirees, requete>>
      BY <1>8 DEF mediasVars, base, bucket
  <2> QED BY <1>0, <2>1, RowsLeave
<1> QED BY <1>2, <1>3, <1>4, <1>5, <1>6, <1>7, <1>8 DEF MediasNext

LEMMA KeysInvInit == MediasInit => KeysInv
<1> SUFFICES ASSUME MediasInit PROVE KeysInv
    OBVIOUS
<1>1. MediasTypes
    BY MediasTypesInit
<1>2. PICK ks \in [presente -> Brutes \cup {0}] :
        /\ \A c, d \in presente : ks[c] = ks[d] /\ ks[c] # 0 => c = d
        /\ image = [c \in Cibles |-> IF c \in presente THEN ks[c] ELSE 0]
        /\ objets = {ks[c] : c \in presente} \ {0}
    BY DEF MediasInit
<1>3. \A c \in presente : image[c] = ks[c] /\ ks[c] \in Brutes \cup {0}
    BY <1>1, <1>2 DEF MediasTypes
<1>4. \A m \in Mixes \cap presente : ligne[m].audio = 0
  <2>1. PICK u \in Comptes :
          ligne = [m \in Mixes |->
                     IF m \in presente
                     THEN [Vide EXCEPT !.auteur = u, !.source = [SansSource EXCEPT !.type = TRUE, !.ref = TRUE]]
                     ELSE Vide]
      BY DEF MediasInit
  <2> QED BY <2>1 DEF Vide
<1>5. NamedOnce
    BY <1>2, <1>3, <1>4 DEF NamedOnce
<1>6. NoDeadMedia
    BY <1>2, <1>3, <1>4 DEF NoDeadMedia, Nommes
<1>7. \A k \in Nommes : k <= tirees
  <2>1. tirees = Cardinality(Brutes) /\ \A k \in Brutes : k <= tirees
      BY MediasAssumption DEF MediasInit
  <2>2. 0 <= tirees
      BY <1>1 DEF MediasTypes
  <2> QED BY <1>3, <1>4, <2>1, <2>2 DEF Nommes
<1>8. Tenus(Libre) = {} /\ Anciens(Libre) = {} /\ Vues(Libre) = {<<Aucun, 0>>}
  <2>1. Tenus(Libre) = {} /\ Vues(Libre) = {<<Aucun, 0>>}
      BY LibreFields DEF Tenus, Vues
  <2>2. {p[2] : p \in Vues(Libre)} = {0}
      BY <2>1
  <2> QED BY <2>1, <2>2, LibreFields DEF Anciens
<1>9. \A p \in Vues(Libre) : p[2] = 0
    BY <1>8
<1>10. \A r \in Requetes : requete[r] = Libre
    BY DEF MediasInit
<1>11. \A r \in Requetes : Sound(requete[r])
    BY <1>8, <1>9, <1>10, LibreFields DEF Sound, Owned
<1>12. HandsApart
    BY <1>8, <1>10 DEF HandsApart
<1> QED BY <1>1, <1>5, <1>6, <1>7, <1>11, <1>12 DEF KeysInv

\* No row ever names an object that was deleted, for every set of rows,
\* requests and keys, whatever the order of their steps (`remove`, `update`,
\* backfill-webp: the row is written first, and what it named goes after).
THEOREM NoDeadMediaAlways == MediasSpec => []NoDeadMedia
<1>1. MediasSpec => []KeysInv
    BY KeysInvInit, KeysInvNext, PTL DEF MediasSpec
<1>2. KeysInv => NoDeadMedia
    BY DEF KeysInv
<1> QED BY <1>1, <1>2, PTL

-----------------------------------------------------------------------------
(* Rows: nothing else leaks, one source                                    *)

\* One step of one request at most: what leaves the rows or its hands is found
\* again elsewhere, and the audio of a row that stays does not change.
LEMMA RowsStep ==
  ASSUME RowsInv, NEW r, perdus \subseteq perdus',
         \A s \in Requetes : s # r => requete'[s] = requete[s],
         \A k \in objets' : \/ k \in objets
                            \/ r \in Requetes /\ k \in EnMain(requete'[r]),
         \A k \in objets' \cap Nommes :
           \/ k \in Nommes' \cup perdus'
           \/ r \in Requetes /\ k \in EnMain(requete'[r]),
         r \in Requetes => \A k \in objets' \cap EnMain(requete[r]) :
           k \in Nommes' \cup perdus' \cup EnMain(requete'[r]),
         r \in Requetes => /\ Stage(requete'[r]) /\ Checked(requete'[r])
                           /\ Read(requete[r])',
         Taken', ExactlyOneSource',
         \A m \in Mixes : ligne[m].auteur # Aucun =>
           /\ ligne'[m].auteur # Aucun
           /\ m \in presente' => m \in presente /\ ligne'[m].audio = ligne[m].audio
  PROVE  RowsInv'
<1>0. /\ NothingElseLeaks
      /\ \A s \in Requetes : Stage(requete[s]) /\ Read(requete[s]) /\ Checked(requete[s])
    BY DEF RowsInv
<1>1. \A s \in Requetes : Stage(requete[s])' /\ Read(requete[s])' /\ Checked(requete[s])'
  <2> SUFFICES ASSUME NEW s \in Requetes
               PROVE  Stage(requete[s])' /\ Read(requete[s])' /\ Checked(requete[s])'
      OBVIOUS
  <2>1. CASE s = r
      BY <2>1 DEF Stage, Checked, Tenus
  <2>2. CASE s # r
    <3>1. requete'[s] = requete[s]
        BY <2>2
    <3>2. Stage(requete[s])' /\ Checked(requete[s])'
        BY <1>0, <3>1 DEF Stage, Checked, Tenus
    <3>3. Read(requete[s])'
        BY <1>0, <3>1 DEF Read
    <3> QED BY <3>2, <3>3
  <2> QED BY <2>1, <2>2
<1>2. NothingElseLeaks'
  <2> SUFFICES ASSUME NEW k \in objets'
               PROVE  k \in Nommes' \cup perdus' \/ \E s \in Requetes : k \in EnMain(requete'[s])
      BY DEF NothingElseLeaks, EnMain
  <2>1. CASE k \notin objets
      BY <2>1
  <2>2. CASE k \in objets
    <3>1. k \in Nommes \cup perdus \/ \E s \in Requetes : k \in EnMain(requete[s])
        BY <1>0, <2>2 DEF NothingElseLeaks
    <3>2. CASE k \in Nommes
        BY <3>2
    <3>3. CASE \E s \in Requetes : k \in EnMain(requete[s])
      <4>1. PICK s \in Requetes : k \in EnMain(requete[s])
          BY <3>3
      <4>2. CASE s = r
          BY <4>1, <4>2
      <4>3. CASE s # r
        <5>1. requete'[s] = requete[s]
            BY <4>3
        <5> QED BY <4>1, <5>1
      <4> QED BY <4>2, <4>3
    <3> QED BY <3>1, <3>2, <3>3
  <2> QED BY <2>1, <2>2
<1> QED BY <1>1, <1>2 DEF RowsInv

\* A step of one request that writes no row.
LEMMA RequestStep ==
  ASSUME RowsInv, NEW r \in Requetes, UNCHANGED base, perdus \subseteq perdus',
         NEW n, requete' = [requete EXCEPT ![r] = n], requete \in [Requetes -> Requete],
         \A k \in objets' : k \in objets \/ k \in EnMain(n),
         \A k \in objets' \cap EnMain(requete[r]) : k \in Nommes \cup perdus' \cup EnMain(n),
         Stage(n), Checked(n), Read(n)
  PROVE  RowsInv'
<1>1. requete'[r] = n /\ \A s \in Requetes : s # r => requete'[s] = requete[s]
    OBVIOUS
<1>2. UNCHANGED <<presente, image, ligne>>
    BY DEF base
<1>3. Nommes' = Nommes
    BY <1>2 DEF Nommes
<1>4. Taken' /\ ExactlyOneSource'
    BY <1>2 DEF RowsInv, Taken, ExactlyOneSource
<1>5. Read(requete[r])'
    BY <1>1, <1>2 DEF Read
<1> QED BY <1>1, <1>2, <1>3, <1>4, <1>5, RowsStep

\* A request that has nothing in its hands.
LEMMA LibreAtRest ==
  /\ Stage(Libre) /\ Checked(Libre) /\ Read(Libre)
  /\ Tenus(Libre) = {} /\ EnMain(Libre) = {0}
<1>1. Tenus(Libre) = {} /\ EnMain(Libre) = {0}
    BY LibreFields DEF Tenus, EnMain
<1>2. Libre.quoi = "libre" /\ Libre.etape = "" /\ Libre.jeter = {} /\ Libre.audio = 0
    BY LibreFields
<1> QED BY <1>1, <1>2 DEF Stage, Checked, Read

LEMMA RequestStops ==
  ASSUME RowsInv, MediasTypes, MediasTypes', NEW r \in Requetes, UNCHANGED base,
         requete' = [requete EXCEPT ![r] = Libre],
         perdus \subseteq perdus', objets' \subseteq objets,
         \A k \in objets' : k \in {requete[r].audio, requete[r].cover} \cup requete[r].jeter =>
           k \in perdus' \cup Nommes
  PROVE  RowsInv'
<1>1. requete \in [Requetes -> Requete]
    BY DEF MediasTypes
<1>2. Stage(Libre) /\ Checked(Libre) /\ Read(Libre)
    BY LibreAtRest
<1>3. \A k \in objets' \cap EnMain(requete[r]) : k \in Nommes \cup perdus'
    BY DEF EnMain
<1> QED BY <1>1, <1>2, <1>3, RequestStep

LEMMA AbandonRows ==
  ASSUME RowsInv, MediasTypes, MediasTypes', NEW r \in Requetes, requete[r].jeter = {},
         AbandonnerEnRoute(r)
  PROVE  RowsInv'
<1>1. /\ perdus' = perdus \cup ({requete[r].audio, requete[r].cover} \ {0})
      /\ requete' = [requete EXCEPT ![r] = Libre]
      /\ UNCHANGED base /\ objets' = objets
    BY DEF AbandonnerEnRoute, bucket
<1>2. 0 \notin objets'
    BY <1>1 DEF MediasTypes, Cles
<1> QED BY <1>1, <1>2, RequestStops

\* A request that goes to its next step keeps what it has in hand.
LEMMA RowsAdvance ==
  ASSUME RowsInv, MediasTypes, NEW r \in Requetes, UNCHANGED <<base, objets, perdus>>,
         NEW e \in Etapes, Avancer(r, e), requete[r].jeter = {},
         e \notin {"", "parcours", "effacer"}, requete[r].quoi # "supprimer",
         requete[r].quoi \notin {"libre", "webp", "variantes"},
         e = "lire" => requete[r].quoi \in {"modifier", "supprimer", "image"},
         e = "ecrire" => requete[r].quoi = "image",
         e \in {"pochette", "inserer"} => Juste(requete[r].audio, requete[r].dto)
  PROVE  RowsInv'
<1> DEFINE q == requete[r]
           n == [q EXCEPT !.etape = e]
<1>1. requete \in [Requetes -> Requete] /\ q \in Requete /\ Stage(q)
    BY DEF MediasTypes, RowsInv
<1>2. requete' = [requete EXCEPT ![r] = n]
    BY DEF Avancer
<1>3. /\ n.etape = e /\ n.quoi = q.quoi /\ n.audio = q.audio /\ n.cover = q.cover
      /\ n.dto = q.dto /\ n.jeter = q.jeter
    BY <1>1, Advances
<1> HIDE DEF n
<1>4. EnMain(n) = EnMain(q)
    BY <1>3 DEF EnMain
<1>5. Stage(n) /\ Checked(n) /\ Read(n)
    BY <1>1, <1>3 DEF Stage, Checked, Read
<1> QED BY <1>1, <1>2, <1>4, <1>5, RequestStep

\* What an accepted update leaves in a row whose audio is the one it read.
LEMMA UpdateKeepsOneSource ==
  ASSUME NEW lu \in Ligne, NEW dto \in Source, NEW cur \in Source, NEW vide \in BOOLEAN, NEW s,
         Juste(lu.audio, lu.source), Acceptable(lu, dto), Juste(lu.audio, cur),
         s = SourceEcrite(cur, lu.source, dto, vide)
  PROVE  Juste(lu.audio, s)
<1>1. /\ lu.source.type \in BOOLEAN /\ lu.source.ref \in BOOLEAN /\ lu.source.page \in BOOLEAN
      /\ dto.type \in BOOLEAN /\ dto.ref \in BOOLEAN /\ dto.page \in BOOLEAN
      /\ cur.type \in BOOLEAN /\ cur.ref \in BOOLEAN /\ cur.page \in BOOLEAN
    BY DEF Ligne, Source
<1>2. /\ s.type = IF dto.type \/ dto.ref THEN lu.source.type \/ dto.type ELSE cur.type
      /\ s.ref = IF dto.type \/ dto.ref THEN lu.source.ref \/ dto.ref ELSE cur.ref
      /\ s.page = (dto.page \/ (cur.page /\ ~vide))
    BY DEF SourceEcrite
<1>3. /\ (dto.type \/ dto.ref) =>
           /\ (lu.source.type \/ dto.type) = (lu.source.ref \/ dto.ref)
           /\ (lu.audio # 0) # (lu.source.type \/ dto.type)
      /\ dto.page => ((lu.source.page \/ dto.page) => (lu.source.ref \/ dto.ref))
    BY DEF Acceptable, SourceLaissee, UneSeuleSource, PageAvecSource
<1>4. /\ lu.source.type = lu.source.ref /\ (lu.audio # 0) # lu.source.type
      /\ cur.type = cur.ref /\ (lu.audio # 0) # cur.type
      /\ cur.page => cur.ref
    BY DEF Juste, UneSeuleSource, PageAvecSource
<1>5. s.type = s.ref /\ (lu.audio # 0) # s.type
  <2>1. CASE dto.type \/ dto.ref
      BY <1>1, <1>2, <1>3, <2>1
  <2>2. CASE ~(dto.type \/ dto.ref)
      BY <1>1, <1>2, <1>4, <2>2
  <2> QED BY <2>1, <2>2
<1>6. s.page => s.ref
  <2>1. lu.source.ref = cur.ref
      BY <1>1, <1>4
  <2> QED BY <1>1, <1>2, <1>3, <1>4, <2>1
<1> QED BY <1>5, <1>6 DEF Juste, UneSeuleSource, PageAvecSource

LEMMA RowsInvNext ==
  ASSUME RowsInv, MediasTypes, [MediasNext]_mediasVars
  PROVE  RowsInv'
<1>0. /\ MediasTypes' /\ requete \in [Requetes -> Requete] /\ Taken /\ ExactlyOneSource
      /\ 0 \notin objets /\ 0 \notin objets'
    BY MediasTypesNext DEF MediasTypes, RowsInv, Cles
<1>1. ASSUME NEW r \in Requetes
      PROVE  /\ requete[r] \in Requete /\ WellFormed(requete[r]) /\ Stage(requete[r])
             /\ Read(requete[r]) /\ Checked(requete[r])
             /\ requete[r].quoi \in Quois
    BY <1>0, RequeteFields DEF MediasTypes, RowsInv
<1>2. ASSUME NEW r \in Requetes, NEW u \in Comptes, NEW c \in Cibles, NEW dto \in Demandes,
             NEW quoi \in {"creer", "modifier", "supprimer", "image"}, Recevoir(r, u, c, quoi, dto)
      PROVE  RowsInv'
  <2> DEFINE e == IF quoi = "supprimer" THEN "lire" ELSE "fichiers"
             n == [Libre EXCEPT !.quoi = quoi, !.cible = c, !.compte = u, !.dto = dto, !.etape = e]
  <2>1. /\ requete' = [requete EXCEPT ![r] = n] /\ UNCHANGED <<base, objets, perdus>>
        /\ requete[r] = Libre
      BY <1>2 DEF Recevoir, bucket
  <2>2. n.audio = 0 /\ n.cover = 0 /\ n.jeter = {} /\ n.etape = e /\ n.quoi = quoi
      BY LibreFields DEF Requete
  <2> HIDE DEF n
  <2>3. Stage(n) /\ Checked(n) /\ Read(n)
      BY <2>2 DEF Stage, Checked, Read
  <2> QED BY <1>0, <2>1, <2>3, LibreAtRest, RequestStep
<1>3. ASSUME NEW r \in Requetes, NEW u \in Comptes, NEW m \in Mixes, NEW page \in BOOLEAN,
             CreerDepuisImport(r, u, m, page)
      PROVE  RowsInv'
  <2> DEFINE d == [type |-> TRUE, ref |-> TRUE, page |-> page]
             n == [Libre EXCEPT !.quoi = "creer", !.cible = m, !.compte = u, !.etape = "pochette",
                                !.dto = d]
  <2>1. /\ requete' = [requete EXCEPT ![r] = n] /\ UNCHANGED <<base, objets, perdus>>
        /\ requete[r] = Libre
      BY <1>3 DEF CreerDepuisImport, bucket
  <2>2. Juste(0, d)
      BY DEF Juste, UneSeuleSource, PageAvecSource
  <2> HIDE DEF d
  <2>3. n.audio = 0 /\ n.cover = 0 /\ n.jeter = {} /\ n.etape = "pochette" /\ n.quoi = "creer" /\ n.dto = d
      BY LibreFields DEF Requete
  <2> HIDE DEF n
  <2>4. Stage(n) /\ Checked(n) /\ Read(n)
      BY <2>2, <2>3 DEF Stage, Checked, Read
  <2> QED BY <1>0, <2>1, <2>4, LibreAtRest, RequestStep
<1>4. ASSUME NEW r \in Requetes, Servir(r)
      PROVE  RowsInv'
  <2> DEFINE q == requete[r]
  <2>0. /\ q \in Requete /\ WellFormed(q) /\ Stage(q) /\ Read(q) /\ Checked(q)
        /\ q.quoi \in Quois /\ q.dto \in Source /\ q.lu \in Ligne
        /\ q.compte \in Comptes \cup {Aucun}
      BY <1>1, RequeteFields
  <2>1. CASE DeposerAudio(r)
    <3> DEFINE n == [q EXCEPT !.audio = tirees + 1]
    <3>1. /\ requete' = [requete EXCEPT ![r] = n] /\ UNCHANGED <<base, perdus>> /\ Poser
          /\ q.audio = 0 /\ q.etape = "fichiers" /\ q.quoi = "creer"
        BY <2>1 DEF DeposerAudio
    <3>2. /\ n.audio = tirees + 1 /\ n.cover = q.cover /\ n.jeter = q.jeter
          /\ n.quoi = "creer" /\ n.etape = "fichiers"
        BY <2>0, <3>1 DEF Requete
    <3> HIDE DEF n
    <3>3. Stage(n) /\ Checked(n) /\ Read(n)
        BY <2>0, <3>1, <3>2 DEF Stage, Checked, Read
    <3>4. /\ \A k \in objets' : k \in objets \/ k \in EnMain(n)
          /\ \A k \in objets' \cap EnMain(q) : k \in EnMain(n)
        BY <1>0, <3>1, <3>2 DEF Poser, EnMain
    <3> QED BY <1>0, <3>1, <3>3, <3>4, RequestStep
  <2>2. CASE DeposerImage(r)
    <3> DEFINE n == [q EXCEPT !.cover = tirees + 1]
    <3>1. /\ requete' = [requete EXCEPT ![r] = n] /\ UNCHANGED <<base, perdus>> /\ Poser
          /\ q.cover = 0 /\ q.etape = "fichiers"
        BY <2>2 DEF DeposerImage
    <3>2. /\ n.cover = tirees + 1 /\ n.audio = q.audio /\ n.jeter = q.jeter
          /\ n.quoi = q.quoi /\ n.etape = "fichiers"
        BY <2>0, <3>1 DEF Requete
    <3> HIDE DEF n
    <3>3. Stage(n) /\ Checked(n) /\ Read(n)
        BY <2>0, <3>1, <3>2 DEF Stage, Checked, Read
    <3>4. /\ \A k \in objets' : k \in objets \/ k \in EnMain(n)
          /\ \A k \in objets' \cap EnMain(q) : k \in EnMain(n)
        BY <1>0, <3>1, <3>2 DEF Poser, EnMain
    <3> QED BY <1>0, <3>1, <3>3, <3>4, RequestStep
  <2>3. CASE RefuserFichier(r)
    <3>1. /\ requete' = [requete EXCEPT ![r] = Libre] /\ UNCHANGED base
          /\ Effacer({q.audio, q.cover} \ {0}) /\ q.jeter = {}
        BY <2>0, <2>3 DEF RefuserFichier, Stage
    <3>2. /\ objets' \subseteq objets /\ perdus \subseteq perdus'
          /\ objets' \cap ({q.audio, q.cover} \ {0}) \subseteq perdus'
        BY <3>1, EffacerTypes
    <3> QED BY <1>0, <3>1, <3>2, RequestStops
  <2>4. CASE Intercepter(r)
    <3> DEFINE e == IF q.quoi = "creer" THEN "controler" ELSE "lire"
    <3>1. Avancer(r, e) /\ UNCHANGED <<base, objets, perdus>> /\ q.etape = "fichiers"
        BY <2>4 DEF Intercepter, bucket
    <3>2. e \in Etapes /\ e \in {"controler", "lire"} /\ (e = "lire" => q.quoi # "creer")
        BY DEF Etapes
    <3>3. q.jeter = {} /\ q.quoi \in {"creer", "modifier", "image"}
        BY <2>0, <3>1 DEF Stage, Quois
    <3> HIDE DEF e
    <3> QED BY <3>1, <3>2, <3>3, RowsAdvance
  <2>5. CASE Controler(r)
    <3>1. q.etape = "controler" /\ q.jeter = {} /\ q.quoi = "creer"
        BY <2>0, <2>5 DEF Controler, Stage, WellFormed
    <3>2. CASE AbandonnerEnRoute(r)
        BY <1>0, <3>1, <3>2, AbandonRows
    <3>3. CASE ~AbandonnerEnRoute(r)
      <4>1. /\ Avancer(r, "pochette") /\ UNCHANGED <<base, objets, perdus>>
            /\ Juste(q.audio, q.dto)
          BY <2>5, <3>3 DEF Controler, Juste, bucket
      <4>2. "pochette" \in Etapes
          BY DEF Etapes
      <4> QED BY <3>1, <4>1, <4>2, RowsAdvance
    <3> QED BY <3>2, <3>3
  <2>6. CASE Pochette(r)
    <3>0. q.etape = "pochette" /\ q.jeter = {} /\ q.quoi = "creer" /\ Juste(q.audio, q.dto)
        BY <2>0, <2>6 DEF Pochette, Stage, WellFormed, Checked
    <3>1. CASE Avancer(r, "inserer") /\ UNCHANGED bucket
      <4>1. "inserer" \in Etapes /\ UNCHANGED <<base, objets, perdus>>
          BY <2>6, <3>1 DEF Etapes, Pochette, bucket
      <4> QED BY <3>0, <3>1, <4>1, RowsAdvance
    <3>2. CASE /\ q.cover = 0 /\ Poser /\ Reduire(tirees + 1)
               /\ requete' = [requete EXCEPT ![r].etape = "inserer", ![r].cover = tirees + 1]
      <4> DEFINE n == [q EXCEPT !.etape = "inserer", !.cover = tirees + 1]
      <4>1. requete' = [requete EXCEPT ![r] = n] /\ UNCHANGED <<base, perdus>>
          BY <1>0, <2>6, <3>2 DEF Pochette
      <4>2. /\ n.cover = tirees + 1 /\ n.audio = q.audio /\ n.jeter = q.jeter
            /\ n.quoi = "creer" /\ n.etape = "inserer" /\ n.dto = q.dto
          BY <2>0, <3>0 DEF Requete
      <4> HIDE DEF n
      <4>3. Stage(n) /\ Checked(n) /\ Read(n)
          BY <3>0, <4>2 DEF Stage, Checked, Read
      <4>4. /\ \A k \in objets' : k \in objets \/ k \in EnMain(n)
            /\ \A k \in objets' \cap EnMain(q) : k \in EnMain(n)
          BY <1>0, <3>2, <4>2 DEF Poser, EnMain
      <4> QED BY <1>0, <4>1, <4>3, <4>4, RequestStep
    <3> QED BY <2>6, <3>1, <3>2 DEF Pochette
  <2>7. CASE Inserer(r)
    <3>0. q.etape = "inserer" /\ q.jeter = {} /\ q.cible \in Mixes /\ Juste(q.audio, q.dto)
        BY <2>0, <2>7 DEF Inserer, Stage, WellFormed, Checked
    <3>1. CASE AbandonnerEnRoute(r)
        BY <1>0, <3>0, <3>1, AbandonRows
    <3>2. CASE ~AbandonnerEnRoute(r)
      <4> DEFINE m == q.cible
                 l == [auteur |-> q.compte, audio |-> q.audio, source |-> q.dto]
      <4>1. /\ q.compte \in presente /\ ligne[m] = Vide
            /\ presente' = presente \cup {m}
            /\ image' = [image EXCEPT ![m] = q.cover]
            /\ ligne' = [ligne EXCEPT ![m] = l]
            /\ requete' = [requete EXCEPT ![r] = Libre]
            /\ UNCHANGED <<objets, perdus>>
          BY <2>7, <3>2 DEF Inserer, bucket
      <4>2. m \notin presente /\ q.compte # Aucun
        <5>1. Vide.auteur = Aucun
            BY DEF Vide
        <5>2. presente \subseteq Cibles /\ Aucun \notin Cibles
            BY MediasAssumption DEF MediasTypes, Cibles
        <5> QED BY <1>0, <3>0, <4>1, <5>1, <5>2 DEF Taken
      <4>3. \A k \in Mixes : ligne'[k] = IF k = m THEN l ELSE ligne[k]
          BY <3>0, <4>1 DEF MediasTypes
      <4>4. l.auteur = q.compte /\ l.audio = q.audio /\ l.source = q.dto
          OBVIOUS
      <4> HIDE DEF l
      <4>5. \A c \in presente' : image'[c] = IF c = m THEN q.cover ELSE image[c]
          BY <3>0, <4>1 DEF MediasTypes, Cibles
      <4>6. Nommes \subseteq Nommes' /\ {q.cover, q.audio} \subseteq Nommes'
        <5>1. ASSUME NEW c \in presente PROVE image[c] \in Nommes'
            BY <4>1, <4>2, <4>5 DEF Nommes
        <5>2. ASSUME NEW k \in Mixes \cap presente PROVE ligne[k].audio \in Nommes'
            BY <4>1, <4>2, <4>3 DEF Nommes
        <5>3. m \in presente' /\ image'[m] = q.cover /\ ligne'[m].audio = q.audio
            BY <3>0, <4>1, <4>3, <4>4, <4>5
        <5> QED BY <3>0, <5>1, <5>2, <5>3 DEF Nommes
      <4>7. Taken'
          BY <1>0, <4>1, <4>2, <4>3, <4>4 DEF Taken
      <4>8. ExactlyOneSource'
        <5> SUFFICES ASSUME NEW k \in Mixes \cap presente'
                     PROVE  LET s == ligne'[k].source
                            IN (s.type = s.ref) /\ ((ligne'[k].audio # 0) # s.type) /\ (s.page => s.ref)
            BY DEF ExactlyOneSource
        <5>1. CASE k = m
            BY <3>0, <4>3, <4>4, <5>1 DEF Juste, UneSeuleSource, PageAvecSource
        <5>2. CASE k # m
            BY <1>0, <4>1, <4>3, <5>2 DEF ExactlyOneSource
        <5> QED BY <5>1, <5>2
      <4>9. \A k \in Mixes : ligne[k].auteur # Aucun =>
              /\ ligne'[k].auteur # Aucun
              /\ k \in presente' => k \in presente /\ ligne'[k].audio = ligne[k].audio
        <5>1. Vide.auteur = Aucun
            BY DEF Vide
        <5> QED BY <4>1, <4>3, <5>1
      <4>10. requete'[r] = Libre /\ \A s \in Requetes : s # r => requete'[s] = requete[s]
          BY <1>0, <4>1
      <4>11. \A k \in objets' \cap EnMain(q) : k \in Nommes'
          BY <3>0, <4>6 DEF EnMain
      <4>12. Read(requete[r])'
          BY <4>10, LibreFields DEF Read
      <4> QED BY <4>1, <4>6, <4>7, <4>8, <4>9, <4>10, <4>11, <4>12, LibreAtRest, RowsStep
    <3> QED BY <3>1, <3>2
  <2>8. CASE LireMix(r)
    <3>0. q.etape = "lire" /\ q.jeter = {} /\ q.cible \in Mixes /\ q.quoi \in {"modifier", "supprimer"}
        BY <2>0, <2>8 DEF LireMix, Stage, WellFormed
    <3>1. CASE AbandonnerEnRoute(r)
        BY <1>0, <3>0, <3>1, AbandonRows
    <3>2. CASE ~AbandonnerEnRoute(r)
      <4> DEFINE m == q.cible
                 n == [q EXCEPT !.etape = "ecrire", !.lu = ligne[m], !.ancienne = image[m]]
      <4>1. /\ m \in presente /\ requete' = [requete EXCEPT ![r] = n] /\ UNCHANGED <<base, objets, perdus>>
            /\ Acceptable(ligne[m], q.dto)
          BY <2>8, <3>2 DEF LireMix, bucket
      <4>2. /\ n.cover = q.cover /\ n.audio = q.audio /\ n.lu = ligne[m] /\ n.jeter = q.jeter
            /\ n.quoi = q.quoi /\ n.etape = "ecrire" /\ n.cible = m /\ n.dto = q.dto
          BY <2>0 DEF Requete
      <4> HIDE DEF n
      <4>3. Juste(ligne[m].audio, ligne[m].source) /\ ligne[m].auteur # Aucun
          BY <1>0, <3>0, <4>1 DEF ExactlyOneSource, Taken, Juste, UneSeuleSource, PageAvecSource
      <4>4. Stage(n) /\ Checked(n)
          BY <2>0, <3>0, <4>2 DEF Stage, Checked
      <4>5. Read(n)
          BY <3>0, <4>1, <4>2, <4>3 DEF Read
      <4>6. EnMain(n) = EnMain(q)
          BY <4>2 DEF EnMain
      <4> QED BY <1>0, <4>1, <4>4, <4>5, <4>6, RequestStep
    <3> QED BY <3>1, <3>2
  <2>9. CASE EcrireMix(r)
    <3>0. /\ q.etape = "ecrire" /\ q.jeter = {} /\ q.cible \in Mixes /\ q.audio = 0 /\ q.quoi = "modifier"
          /\ q.cible \in Cibles
        BY <2>0, <2>9 DEF EcrireMix, Stage, WellFormed, Cibles
    <3>1. CASE AbandonnerEnRoute(r)
        BY <1>0, <3>0, <3>1, AbandonRows
    <3>2. CASE ~AbandonnerEnRoute(r)
      <4>p. PICK vide \in BOOLEAN :
              ligne' = [ligne EXCEPT ![q.cible].source =
                          SourceEcrite(ligne[q.cible].source, q.lu.source, q.dto, vide)]
          BY <2>9, <3>0, <3>2 DEF EcrireMix, MediasTypes
      <4> DEFINE m == q.cible
                 n == IF q.cover # 0 /\ q.ancienne # 0
                      THEN [Libre EXCEPT !.quoi = "modifier", !.etape = "effacer", !.jeter = {q.ancienne}]
                      ELSE Libre
                 cur == ligne[m].source
                 src == SourceEcrite(cur, q.lu.source, q.dto, vide)
      <4>1. /\ m \in presente
            /\ image' = [image EXCEPT ![m] = IF q.cover # 0 THEN q.cover ELSE image[m]]
            /\ perdus' = IF q.cover # 0 /\ image[m] \notin {0, q.ancienne}
                         THEN perdus \cup {image[m]} ELSE perdus
            /\ requete' = [requete EXCEPT ![r] = n]
            /\ UNCHANGED <<presente, objets>>
          BY <2>9, <3>2 DEF EcrireMix, bucket
      <4>2. ligne' = [ligne EXCEPT ![m].source = src]
          BY <4>p
      <4>3. ligne[m] \in Ligne /\ cur \in Source
          BY <3>0 DEF MediasTypes, Ligne
      <4>4. /\ q.lu.audio = ligne[m].audio /\ Juste(q.lu.audio, q.lu.source) /\ Acceptable(q.lu, q.dto)
            /\ Juste(q.lu.audio, cur)
          BY <1>0, <2>0, <3>0, <4>1 DEF Read, ExactlyOneSource, Juste, UneSeuleSource, PageAvecSource
      <4>5. Juste(q.lu.audio, src)
        <5> HIDE DEF cur
        <5> QED BY <2>0, <4>3, <4>4, <4>p, UpdateKeepsOneSource
      <4> HIDE DEF src
      <4>6. \A k \in Mixes : /\ ligne'[k].audio = ligne[k].audio /\ ligne'[k].auteur = ligne[k].auteur
                             /\ ligne'[k].source = IF k = m THEN src ELSE ligne[k].source
        <5>1. ligne \in [Mixes -> Ligne]
            BY DEF MediasTypes
        <5> QED BY <3>0, <4>2, <5>1 DEF Ligne
      <4>7. \A c \in presente : image'[c] = IF c = m /\ q.cover # 0 THEN q.cover ELSE image[c]
          BY <3>0, <4>1 DEF MediasTypes
      <4>8. /\ n.audio = 0 /\ n.cover = 0 /\ n.quoi \in {"libre", "modifier"}
            /\ n.jeter = IF q.cover # 0 /\ q.ancienne # 0 THEN {q.ancienne} ELSE {}
            /\ n.etape = IF n.quoi = "libre" THEN "" ELSE "effacer"
            /\ n.quoi = "libre" => n.jeter = {}
        <5>1. CASE q.cover # 0 /\ q.ancienne # 0
            BY <5>1, LibreFields DEF Requete
        <5>2. CASE ~(q.cover # 0 /\ q.ancienne # 0)
          <6>1. n = Libre
              BY <5>2
          <6> HIDE DEF n
          <6> QED BY <5>2, <6>1, LibreFields
        <5> QED BY <5>1, <5>2
      <4> HIDE DEF n
      <4>9. Stage(n) /\ Checked(n) /\ Read(n)
          BY <4>8 DEF Stage, Checked, Read, Tenus
      <4>10. requete'[r] = n /\ \A s \in Requetes : s # r => requete'[s] = requete[s]
          BY <1>0, <4>1
      <4>11. Read(requete[r])'
          BY <4>8, <4>10 DEF Read
      <4>12. \A k \in objets' \cap Nommes : k \in Nommes' \cup perdus' \/ k \in EnMain(n)
        <5> SUFFICES ASSUME NEW k \in objets' \cap Nommes
                     PROVE  k \in Nommes' \cup perdus' \/ k \in EnMain(n)
            OBVIOUS
        <5>0. k # 0
            BY <1>0
        <5>1. CASE k = image[m]
          <6>1. CASE q.cover = 0
              BY <4>1, <4>7, <5>1, <6>1 DEF Nommes
          <6>2. CASE q.cover # 0 /\ image[m] = q.ancienne
              BY <4>8, <5>0, <5>1, <6>2 DEF EnMain
          <6>3. CASE q.cover # 0 /\ image[m] # q.ancienne
              BY <4>1, <5>0, <5>1, <6>3
          <6> QED BY <6>1, <6>2, <6>3
        <5>2. CASE k # image[m]
          <6>1. CASE \E c \in presente : image[c] = k
              BY <4>1, <4>7, <5>2, <6>1 DEF Nommes
          <6>2. CASE \E a \in Mixes \cap presente : ligne[a].audio = k
              BY <4>1, <4>6, <6>2 DEF Nommes
          <6> QED BY <6>1, <6>2 DEF Nommes
        <5> QED BY <5>1, <5>2
      <4>13. \A k \in objets' \cap EnMain(q) : k \in Nommes'
        <5>1. q.cover # 0 => q.cover \in Nommes'
            BY <4>1, <4>7 DEF Nommes
        <5> QED BY <1>0, <3>0, <5>1 DEF EnMain
      <4>14. Taken'
          BY <1>0, <4>1, <4>6 DEF Taken
      <4>15. ExactlyOneSource'
        <5> SUFFICES ASSUME NEW k \in Mixes \cap presente'
                     PROVE  LET s == ligne'[k].source
                            IN (s.type = s.ref) /\ ((ligne'[k].audio # 0) # s.type) /\ (s.page => s.ref)
            BY DEF ExactlyOneSource
        <5>1. CASE k = m
            BY <4>4, <4>5, <4>6, <5>1 DEF Juste, UneSeuleSource, PageAvecSource
        <5>2. CASE k # m
            BY <1>0, <4>1, <4>6, <5>2 DEF ExactlyOneSource
        <5> QED BY <5>1, <5>2
      <4>16. perdus \subseteq perdus'
          BY <4>1
      <4> QED BY <4>1, <4>6, <4>9, <4>10, <4>11, <4>12, <4>13, <4>14, <4>15, <4>16, RowsStep
    <3> QED BY <3>1, <3>2
  <2>10. CASE SupprimerLigne(r)
    <3>0. /\ q.etape = "ecrire" /\ q.jeter = {} /\ q.cible \in Mixes /\ q.audio = 0 /\ q.cover = 0
          /\ q.quoi = "supprimer" /\ q.cible \in Cibles
        BY <2>0, <2>10 DEF SupprimerLigne, Stage, WellFormed, Cibles
    <3>1. CASE AbandonnerEnRoute(r)
        BY <1>0, <3>0, <3>1, AbandonRows
    <3>2. CASE ~AbandonnerEnRoute(r)
      <4> DEFINE m == q.cible
                 n == [Libre EXCEPT !.quoi = "supprimer", !.etape = "effacer", !.jeter = AJeter(q)]
      <4>1. /\ m \in presente /\ presente' = presente \ {m}
            /\ image' = [image EXCEPT ![m] = 0]
            /\ ligne' = [ligne EXCEPT ![m].audio = 0]
            /\ perdus' = perdus \cup ({image[m]} \ {0, q.ancienne})
            /\ requete' = [requete EXCEPT ![r] = n]
            /\ UNCHANGED objets
          BY <2>10, <3>2 DEF SupprimerLigne, bucket
      <4>2. \A c \in presente' : c \in presente /\ c # m /\ image'[c] = image[c]
          BY <3>0, <4>1 DEF MediasTypes
      <4>3. \A k \in Mixes : /\ ligne'[k].auteur = ligne[k].auteur
                             /\ k # m => ligne'[k] = ligne[k]
        <5>1. ligne \in [Mixes -> Ligne]
            BY DEF MediasTypes
        <5> QED BY <3>0, <4>1, <5>1 DEF Ligne
      <4>4. /\ n.audio = 0 /\ n.cover = 0 /\ n.quoi = "supprimer" /\ n.etape = "effacer"
            /\ n.jeter = AJeter(q)
          BY LibreFields DEF Requete
      <4> HIDE DEF n
      <4>5. Stage(n) /\ Checked(n) /\ Read(n)
          BY <4>4 DEF Stage, Checked, Read, Tenus
      <4>6. requete'[r] = n /\ \A s \in Requetes : s # r => requete'[s] = requete[s]
          BY <1>0, <4>1
      <4>7. Read(requete[r])'
          BY <4>4, <4>6 DEF Read
      <4>8. q.lu.audio = ligne[m].audio
          BY <2>0, <3>0, <4>1 DEF Read
      <4>9. \A k \in objets' \cap Nommes : k \in Nommes' \cup perdus' \/ k \in EnMain(n)
        <5> SUFFICES ASSUME NEW k \in objets' \cap Nommes
                     PROVE  k \in Nommes' \cup perdus' \/ k \in EnMain(n)
            OBVIOUS
        <5>0. k # 0
            BY <1>0
        <5>1. CASE k = image[m]
            BY <4>1, <4>4, <5>0, <5>1 DEF EnMain, AJeter
        <5>2. CASE k = ligne[m].audio
            BY <4>4, <4>8, <5>0, <5>2 DEF EnMain, AJeter
        <5>3. CASE k # image[m] /\ k # ligne[m].audio
          <6>1. CASE \E c \in presente : image[c] = k
              BY <4>1, <4>2, <5>3, <6>1 DEF Nommes
          <6>2. CASE \E a \in Mixes \cap presente : ligne[a].audio = k
              BY <4>1, <4>3, <5>3, <6>2 DEF Nommes
          <6> QED BY <6>1, <6>2 DEF Nommes
        <5> QED BY <5>1, <5>2, <5>3
      <4>10. \A k \in objets' \cap EnMain(q) : FALSE
          BY <1>0, <3>0 DEF EnMain
      <4>11. Taken' /\ ExactlyOneSource'
          BY <1>0, <4>1, <4>3 DEF Taken, ExactlyOneSource
      <4>12. \A k \in Mixes : ligne[k].auteur # Aucun =>
              /\ ligne'[k].auteur # Aucun
              /\ k \in presente' => k \in presente /\ ligne'[k].audio = ligne[k].audio
          BY <4>1, <4>3
      <4>13. perdus \subseteq perdus'
          BY <4>1
      <4> QED BY <4>1, <4>5, <4>6, <4>7, <4>9, <4>10, <4>11, <4>12, <4>13, RowsStep
    <3> QED BY <3>1, <3>2
  <2>11. CASE EffacerAnciens(r)
    <3>0. q.etape = "effacer" /\ q.audio = 0 /\ q.cover = 0
      <4>1. q.etape = "effacer" /\ Tenus(q) = {}
          BY <2>0, <2>11 DEF EffacerAnciens, Stage
      <4> QED BY <4>1 DEF Tenus
    <3>1. UNCHANGED base /\ Effacer(q.jeter)
        BY <2>11 DEF EffacerAnciens
    <3>2. /\ objets' \subseteq objets /\ perdus \subseteq perdus'
          /\ objets' \cap q.jeter \subseteq perdus'
        BY <3>1, EffacerTypes
    <3>3. CASE q.quoi = "webp"
      <4> DEFINE n == [Libre EXCEPT !.quoi = "webp", !.etape = "parcours", !.reste = q.reste]
      <4>1. requete' = [requete EXCEPT ![r] = n]
          BY <2>11, <3>3 DEF EffacerAnciens
      <4>2. n.audio = 0 /\ n.cover = 0 /\ n.jeter = {} /\ n.quoi = "webp" /\ n.etape = "parcours"
          BY LibreFields DEF Requete
      <4> HIDE DEF n
      <4>3. Stage(n) /\ Checked(n) /\ Read(n)
          BY <4>2 DEF Stage, Checked, Read, Tenus
      <4>4. \A k \in objets' \cap EnMain(q) : k \in perdus'
          BY <1>0, <3>0, <3>2 DEF EnMain
      <4> QED BY <1>0, <3>1, <3>2, <4>1, <4>3, <4>4, RequestStep
    <3>4. CASE q.quoi # "webp"
      <4>1. requete' = [requete EXCEPT ![r] = Libre]
          BY <2>11, <3>4 DEF EffacerAnciens
      <4> QED BY <1>0, <3>0, <3>1, <3>2, <4>1, RequestStops
    <3> QED BY <3>3, <3>4
  <2>12. CASE LireCompte(r)
    <3>0. q.etape = "lire" /\ q.quoi = "image" /\ q.jeter = {}
        BY <2>0, <2>12 DEF LireCompte, Stage
    <3>1. CASE AbandonnerEnRoute(r)
        BY <1>0, <3>0, <3>1, AbandonRows
    <3>2. CASE ~AbandonnerEnRoute(r)
      <4>1. Avancer(r, "ecrire") /\ UNCHANGED <<base, objets, perdus>> /\ "ecrire" \in Etapes
          BY <2>12, <3>2 DEF LireCompte, bucket, Etapes
      <4> QED BY <3>0, <4>1, RowsAdvance
    <3> QED BY <3>1, <3>2
  <2>13. CASE EcrireImage(r)
    <3>0. q.etape = "ecrire" /\ q.quoi = "image" /\ q.jeter = {} /\ q.audio = 0
        BY <2>0, <2>13 DEF EcrireImage, Stage
    <3>1. CASE AbandonnerEnRoute(r)
        BY <1>0, <3>0, <3>1, AbandonRows
    <3>2. CASE ~AbandonnerEnRoute(r)
      <4> DEFINE u == q.cible
      <4>1. /\ u \in presente /\ image' = [image EXCEPT ![u] = q.cover]
            /\ perdus' = perdus \cup ({image[u]} \ {0})
            /\ requete' = [requete EXCEPT ![r] = Libre]
            /\ UNCHANGED <<presente, ligne, objets>>
          BY <2>13, <3>2 DEF EcrireImage, bucket
      <4>2. \A c \in presente : image'[c] = IF c = u THEN q.cover ELSE image[c]
          BY <4>1 DEF MediasTypes
      <4>3. \A k \in objets' \cap Nommes : k \in Nommes' \cup perdus'
        <5> SUFFICES ASSUME NEW k \in objets' \cap Nommes
                     PROVE  k \in Nommes' \cup perdus'
            OBVIOUS
        <5>1. CASE k = image[u]
            BY <1>0, <4>1, <5>1
        <5>2. CASE k # image[u]
            BY <4>1, <4>2, <5>2 DEF Nommes
        <5> QED BY <5>1, <5>2
      <4>4. \A k \in objets' \cap EnMain(q) : k \in Nommes'
        <5>1. q.cover \in Nommes'
            BY <4>1, <4>2 DEF Nommes
        <5> QED BY <1>0, <3>0, <5>1 DEF EnMain
      <4>5. Taken' /\ ExactlyOneSource'
          BY <1>0, <4>1 DEF Taken, ExactlyOneSource
      <4>6. requete'[r] = Libre /\ \A s \in Requetes : s # r => requete'[s] = requete[s]
          BY <1>0, <4>1
      <4>7. Read(requete[r])'
          BY <4>6, LibreFields DEF Read
      <4>8. perdus \subseteq perdus'
          BY <4>1
      <4> QED BY <4>1, <4>3, <4>4, <4>5, <4>6, <4>7, <4>8, LibreAtRest, RowsStep
    <3> QED BY <3>1, <3>2
  <2> QED BY <1>4, <2>1, <2>2, <2>3, <2>4, <2>5, <2>6, <2>7, <2>8, <2>9, <2>10, <2>11, <2>12, <2>13
       DEF Servir
<1>5. ASSUME NEW r \in Requetes, Relancer(r)
      PROVE  RowsInv'
  <2> DEFINE q == requete[r]
  <2>0. q \in Requete /\ WellFormed(q) /\ Stage(q) /\ Read(q) /\ Checked(q) /\ q.quoi \in Quois
      BY <1>1
  <2>1. ASSUME NEW quoi \in {"webp", "variantes"}, LancerScript(r, quoi)
        PROVE  RowsInv'
    <3> DEFINE ps == IF quoi = "webp" THEN Listees ELSE {p \in Listees : p[2] \notin reduites}
               n == [Libre EXCEPT !.quoi = quoi, !.etape = "parcours", !.reste = ps]
    <3>1. requete' = [requete EXCEPT ![r] = n] /\ UNCHANGED <<base, objets, perdus>> /\ requete[r] = Libre
        BY <2>1 DEF LancerScript, bucket
    <3> HIDE DEF ps
    <3>2. n.audio = 0 /\ n.cover = 0 /\ n.jeter = {} /\ n.quoi = quoi /\ n.etape = "parcours"
        BY LibreFields DEF Requete
    <3> HIDE DEF n
    <3>3. Stage(n) /\ Checked(n) /\ Read(n)
        BY <3>2 DEF Stage, Checked, Read, Tenus
    <3> QED BY <1>0, <3>1, <3>3, LibreAtRest, RequestStep
  <2>2. ASSUME NEW p \in q.reste, PasserLigne(r, p) \/ EcrireReduites(r, p)
        PROVE  RowsInv'
    <3> DEFINE n == [q EXCEPT !.reste = q.reste \ {p}]
    <3>1. /\ requete' = [requete EXCEPT ![r] = n] /\ UNCHANGED <<base, objets, perdus>>
          /\ q.etape = "parcours"
      <4>1. requete' = [requete EXCEPT ![r].reste = @ \ {p}] /\ q.etape = "parcours"
          BY <2>2 DEF PasserLigne, EcrireReduites
      <4>2. requete' = [requete EXCEPT ![r] = n]
          BY <1>0, <4>1
      <4>3. UNCHANGED <<base, objets, perdus>>
          BY <2>2 DEF PasserLigne, EcrireReduites, bucket
      <4> QED BY <4>1, <4>2, <4>3
    <3>2. /\ n.cover = q.cover /\ n.audio = q.audio /\ n.jeter = q.jeter
          /\ n.etape = q.etape /\ n.quoi = q.quoi /\ n.dto = q.dto
        BY <2>0 DEF Requete
    <3> HIDE DEF n
    <3>3. Stage(n) /\ Checked(n) /\ Read(n)
        BY <2>0, <3>1, <3>2 DEF Stage, Checked, Read, Tenus
    <3>4. EnMain(n) = EnMain(q)
        BY <3>2 DEF EnMain
    <3> QED BY <1>0, <3>1, <3>3, <3>4, RequestStep
  <2>3. ASSUME NEW p \in q.reste, EcrireWebp(r, p)
        PROVE  RowsInv'
    <3> DEFINE n == [q EXCEPT !.etape = "colonne", !.cible = p[1], !.cover = tirees + 1,
                              !.ancienne = p[2], !.reste = q.reste \ {p}]
    <3>1. /\ requete' = [requete EXCEPT ![r] = n] /\ UNCHANGED <<base, perdus>>
          /\ Poser /\ q.etape = "parcours" /\ q.quoi = "webp"
        BY <2>3 DEF EcrireWebp
    <3>2. /\ n.cover = tirees + 1 /\ n.audio = q.audio /\ n.jeter = q.jeter
          /\ n.quoi = "webp" /\ n.etape = "colonne"
        BY <2>0, <3>1 DEF Requete
    <3> HIDE DEF n
    <3>3. q.audio = 0 /\ q.cover = 0 /\ q.jeter = {}
      <4>1. Tenus(q) = {} /\ q.jeter = {}
          BY <2>0, <3>1 DEF Stage
      <4> QED BY <4>1 DEF Tenus
    <3>4. Stage(n) /\ Checked(n) /\ Read(n)
        BY <3>2, <3>3 DEF Stage, Checked, Read
    <3>5. /\ \A k \in objets' : k \in objets \/ k \in EnMain(n)
          /\ \A k \in objets' \cap EnMain(q) : k \in EnMain(n)
        BY <1>0, <3>1, <3>2, <3>3 DEF Poser, EnMain
    <3> QED BY <1>0, <3>1, <3>4, <3>5, RequestStep
  <2>4. CASE EcrireColonne(r)
    <3>1. /\ q.etape = "colonne" /\ q.quoi = "webp" /\ q.cover \in Cles /\ q.ancienne \in Cles
          /\ q.audio = 0 /\ q.jeter = {}
        BY <2>0, <2>4 DEF EcrireColonne, WellFormed, Stage
    <3>2. CASE q.cible \notin presente
      <4> DEFINE n == [Libre EXCEPT !.quoi = "webp", !.etape = "parcours", !.reste = q.reste]
      <4>1. /\ requete' = [requete EXCEPT ![r] = n] /\ UNCHANGED <<presente, image, ligne, objets>>
            /\ perdus' = perdus \cup {q.cover}
          BY <2>4, <3>2 DEF EcrireColonne, bucket
      <4>2. n.audio = 0 /\ n.cover = 0 /\ n.jeter = {} /\ n.quoi = "webp" /\ n.etape = "parcours"
          BY LibreFields DEF Requete
      <4> HIDE DEF n
      <4>3. Stage(n) /\ Checked(n) /\ Read(n)
          BY <4>2 DEF Stage, Checked, Read, Tenus
      <4>4. \A k \in objets' \cap EnMain(q) : k \in perdus'
          BY <1>0, <3>1, <4>1 DEF EnMain
      <4>5. UNCHANGED base /\ perdus \subseteq perdus'
          BY <4>1 DEF base
      <4> QED BY <1>0, <4>1, <4>3, <4>4, <4>5, RequestStep
    <3>3. CASE q.cible \in presente
      <4> DEFINE n == [Libre EXCEPT !.quoi = "webp", !.etape = "effacer",
                                    !.jeter = {q.ancienne}, !.reste = q.reste]
                 c == q.cible
      <4>1. /\ requete' = [requete EXCEPT ![r] = n] /\ UNCHANGED <<presente, ligne, objets>>
            /\ image' = [image EXCEPT ![c] = q.cover]
            /\ perdus' = perdus \cup ({image[c]} \ {0, q.ancienne})
          BY <2>4, <3>3 DEF EcrireColonne, bucket
      <4>2. /\ n.audio = 0 /\ n.cover = 0 /\ n.jeter = {q.ancienne} /\ n.quoi = "webp"
            /\ n.etape = "effacer"
          BY LibreFields DEF Requete
      <4> HIDE DEF n
      <4>3. Stage(n) /\ Checked(n) /\ Read(n)
          BY <4>2 DEF Stage, Checked, Read, Tenus
      <4>4. requete'[r] = n /\ \A s \in Requetes : s # r => requete'[s] = requete[s]
          BY <1>0, <4>1
      <4>5. Read(requete[r])'
          BY <4>2, <4>4 DEF Read
      <4>6. \A d \in presente : image'[d] = IF d = c THEN q.cover ELSE image[d]
          BY <4>1 DEF MediasTypes
      <4>7. \A k \in objets' \cap Nommes : k \in Nommes' \cup perdus' \/ k \in EnMain(n)
        <5> SUFFICES ASSUME NEW k \in objets' \cap Nommes
                     PROVE  k \in Nommes' \cup perdus' \/ k \in EnMain(n)
            OBVIOUS
        <5>1. CASE k = image[c]
            BY <1>0, <4>1, <4>2, <5>1 DEF EnMain
        <5>2. CASE k # image[c]
            BY <4>1, <4>6, <5>2 DEF Nommes
        <5> QED BY <5>1, <5>2
      <4>8. \A k \in objets' \cap EnMain(q) : k \in Nommes'
        <5>1. q.cover \in Nommes'
            BY <3>3, <4>1, <4>6 DEF Nommes
        <5> QED BY <1>0, <3>1, <5>1 DEF EnMain
      <4>9. Taken' /\ ExactlyOneSource'
          BY <1>0, <4>1 DEF Taken, ExactlyOneSource
      <4>10. perdus \subseteq perdus'
          BY <4>1
      <4> QED BY <4>1, <4>3, <4>4, <4>5, <4>7, <4>8, <4>9, <4>10, RowsStep
    <3> QED BY <3>2, <3>3
  <2>5. CASE FinirScript(r)
    <3>1. /\ requete' = [requete EXCEPT ![r] = Libre] /\ UNCHANGED <<base, objets, perdus>>
          /\ q.etape = "parcours"
        BY <2>5 DEF FinirScript, bucket
    <3>2. q.audio = 0 /\ q.cover = 0 /\ q.jeter = {}
      <4>1. Tenus(q) = {} /\ q.jeter = {}
          BY <2>0, <3>1 DEF Stage
      <4> QED BY <4>1 DEF Tenus
    <3> QED BY <1>0, <3>1, <3>2, RequestStops
  <2> QED BY <1>5, <2>1, <2>2, <2>3, <2>4, <2>5 DEF Relancer
<1>6. ASSUME NEW r \in Requetes, Interrompre(r)
      PROVE  RowsInv'
  <2>1. /\ requete' = [requete EXCEPT ![r] = Libre] /\ UNCHANGED <<base, objets>>
        /\ perdus' = perdus \cup ((EnMain(requete[r]) \cap objets) \ Nommes)
      BY <1>6 DEF Interrompre, bucket
  <2>2. \A k \in objets' : k \in {requete[r].audio, requete[r].cover} \cup requete[r].jeter =>
          k \in perdus' \cup Nommes
      BY <2>1 DEF EnMain
  <2> QED BY <1>0, <2>1, <2>2, RequestStops
<1>7. ASSUME NEW u \in Comptes, SupprimerCompte(u)
      PROVE  RowsInv'
  <2> DEFINE partis == {u} \cup {m \in Mixes \cap presente : ligne[m].auteur = u}
  <2>1. /\ presente' = presente \ partis
        /\ image' = [c \in Cibles |-> IF c \in partis THEN 0 ELSE image[c]]
        /\ ligne' = [m \in Mixes |-> IF m \in partis THEN [ligne[m] EXCEPT !.audio = 0] ELSE ligne[m]]
        /\ perdus' = perdus \cup (({image[c] : c \in partis}
                       \cup {ligne[m].audio : m \in Mixes \cap partis}) \ {0})
        /\ UNCHANGED <<objets, requete>>
      BY <1>7 DEF SupprimerCompte, bucket
  <2>2. presente \subseteq Cibles
      BY DEF MediasTypes
  <2> HIDE DEF partis
  <2>3. \A c \in presente' : c \in presente /\ c \notin partis /\ image'[c] = image[c]
      BY <2>1, <2>2
  <2>4. \A m \in Mixes : /\ ligne'[m].auteur = ligne[m].auteur
                         /\ m \notin partis => ligne'[m] = ligne[m]
    <3>1. \A m \in Mixes : ligne[m] \in Ligne
        BY DEF MediasTypes
    <3> QED BY <2>1, <3>1 DEF Ligne
  <2>5. \A k \in objets' \cap Nommes : k \in Nommes' \cup perdus'
    <3> SUFFICES ASSUME NEW k \in objets' \cap Nommes
                 PROVE  k \in Nommes' \cup perdus'
        OBVIOUS
    <3>1. CASE \E c \in presente : image[c] = k
      <4>1. PICK c \in presente : image[c] = k
          BY <3>1
      <4>2. CASE c \in partis
          BY <1>0, <2>1, <4>1, <4>2
      <4>3. CASE c \notin partis
          BY <2>1, <2>3, <4>1, <4>3 DEF Nommes
      <4> QED BY <4>2, <4>3
    <3>2. CASE \E m \in Mixes \cap presente : ligne[m].audio = k
      <4>1. PICK m \in Mixes \cap presente : ligne[m].audio = k
          BY <3>2
      <4>2. CASE m \in partis
          BY <1>0, <2>1, <4>1, <4>2
      <4>3. CASE m \notin partis
          BY <2>1, <2>4, <4>1, <4>3 DEF Nommes
      <4> QED BY <4>2, <4>3
    <3> QED BY <3>1, <3>2 DEF Nommes
  <2>6. Taken' /\ ExactlyOneSource'
      BY <1>0, <2>1, <2>4 DEF Taken, ExactlyOneSource
  <2>7. \A m \in Mixes : ligne[m].auteur # Aucun =>
          /\ ligne'[m].auteur # Aucun
          /\ m \in presente' => m \in presente /\ ligne'[m].audio = ligne[m].audio
      BY <2>1, <2>4
  <2>8. PICK r : r \notin Requetes
    <3>1. {x \in Requetes : x \notin x} \notin Requetes
        OBVIOUS
    <3> QED BY <3>1
  <2>9. perdus \subseteq perdus'
      BY <2>1
  <2> QED BY <2>1, <2>5, <2>6, <2>7, <2>8, <2>9, RowsStep
<1>8. CASE UNCHANGED mediasVars
  <2>1. UNCHANGED <<presente, image, ligne, objets, requete, perdus>>
      BY <1>8 DEF mediasVars, base, bucket
  <2>2. Taken' /\ NothingElseLeaks' /\ ExactlyOneSource'
      BY <2>1 DEF RowsInv, Taken, NothingElseLeaks, ExactlyOneSource, Nommes, EnMain
  <2>3. ASSUME NEW r \in Requetes
        PROVE  Stage(requete[r])' /\ Read(requete[r])' /\ Checked(requete[r])'
    <3>1. Stage(requete[r]) /\ Read(requete[r]) /\ Checked(requete[r])
        BY DEF RowsInv
    <3> QED BY <2>1, <3>1 DEF Stage, Read, Checked, Tenus
  <2> QED BY <2>2, <2>3 DEF RowsInv
<1> QED BY <1>2, <1>3, <1>4, <1>5, <1>6, <1>7, <1>8 DEF MediasNext

LEMMA RowsInvInit == MediasInit => RowsInv
<1> SUFFICES ASSUME MediasInit PROVE RowsInv
    OBVIOUS
<1>1. PICK u \in Comptes :
        ligne = [m \in Mixes |->
                   IF m \in presente
                   THEN [Vide EXCEPT !.auteur = u, !.source = [SansSource EXCEPT !.type = TRUE, !.ref = TRUE]]
                   ELSE Vide]
    BY DEF MediasInit
<1>2. \A m \in Mixes \cap presente :
        /\ ligne[m].auteur = u /\ ligne[m].audio = 0
        /\ ligne[m].source.type = TRUE /\ ligne[m].source.ref = TRUE
    BY <1>1 DEF Vide, SansSource
<1>3. Taken /\ ExactlyOneSource
    BY <1>2, MediasAssumption DEF Taken, ExactlyOneSource
<1>4. NothingElseLeaks
  <2>1. PICK ks \in [presente -> Brutes \cup {0}] :
          /\ image = [c \in Cibles |-> IF c \in presente THEN ks[c] ELSE 0]
          /\ objets = {ks[c] : c \in presente} \ {0}
      BY DEF MediasInit
  <2>2. presente \subseteq Cibles
      BY DEF MediasInit, Cibles
  <2>3. \A c \in presente : image[c] = ks[c]
      BY <2>1, <2>2
  <2> QED BY <2>1, <2>3 DEF NothingElseLeaks, Nommes
<1>5. \A r \in Requetes : requete[r] = Libre
    BY DEF MediasInit
<1> QED BY <1>3, <1>4, <1>5, LibreAtRest DEF RowsInv

LEMMA RowsInvAlways == MediasSpec => []RowsInv
<1>1. MediasInit => MediasTypes /\ RowsInv
    BY MediasTypesInit, RowsInvInit
<1>2. MediasTypes /\ RowsInv /\ [MediasNext]_mediasVars => (MediasTypes /\ RowsInv)'
    BY MediasTypesNext, RowsInvNext
<1> QED BY <1>1, <1>2, PTL DEF MediasSpec

\* An object of the bucket is named, held, or was left by a cause the code
\* accepts, for every set of rows, requests and keys: no other path of the
\* handlers or of the scripts leaks.
THEOREM NothingElseLeaksAlways == MediasSpec => []NothingElseLeaks
<1>1. RowsInv => NothingElseLeaks
    BY DEF RowsInv
<1> QED BY <1>1, RowsInvAlways, PTL

\* However updates and deletions that read the same row interleave, a mix has
\* an audio file or a complete remote source and never both
\* (assertExactlyOneAudioSource, assertSourcePageHasASource).
THEOREM ExactlyOneSourceAlways == MediasSpec => []ExactlyOneSource
<1>1. RowsInv => ExactlyOneSource
    BY DEF RowsInv
<1> QED BY <1>1, RowsInvAlways, PTL
===============================================================================
