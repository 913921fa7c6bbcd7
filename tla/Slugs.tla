-------------------------------- MODULE Slugs --------------------------------
(***************************************************************************)
(* The address of a mix inside its account: /mixes/<account>/<slug>.       *)
(* Creation looks for a free slug one query at a time, then inserts; the   *)
(* unique index decides between two creations that found the same one.     *)
(* The rows older than the column get theirs from backfill-slugs, between  *)
(* the migration that opens the column and the one that closes it.         *)
(*                                                                         *)
(* The slugs of one account are numbers; 0 is SQL NULL.  Candidates of two *)
(* titles may meet ("mix" taken twice gives "mix-2", which is also what    *)
(* the title "Mix 2" reduces to), hence Base.                              *)
(***************************************************************************)
EXTENDS Integers

CONSTANTS
  Titres,      \* titles
  Base,        \* what slugifierTitre makes of each title
  Lignes,      \* mixes of the account, in the order of createdAt
  Anciennes,   \* those that existed before the column
  Createurs,   \* creations in flight at the same time
  MaxEssais    \* numberings tried, 100 in the code

ASSUME SlugsAssumption ==
  /\ Base \in [Titres -> Nat \ {0}] /\ MaxEssais \in Nat \ {0}
  /\ Lignes \subseteq Nat \ {0} /\ Anciennes \subseteq Lignes

VARIABLES
  fermee,    \* the second migration has been applied
  titre,     \* title of each mix
  slug,      \* slug of each mix
  vivants,   \* mixes that exist
  creation,  \* what each creation in flight is doing
  reprise,   \* the script: the rows it still has to do, and `pris`
  nees,      \* mixes created since the column exists
  retouches  \* history: mixes whose title changed

slugsVars == <<fermee, titre, slug, vivants, creation, reprise, nees, retouches>>

-----------------------------------------------------------------------------
AucuneCreation == [ligne |-> 0, essai |-> 0]
Arretee == [liste |-> {}, pris |-> {}]

Pris == {slug[i] : i \in vivants} \ {0}

\* The title itself, then the title and a number from 2 on.
Candidat(t, n) == Base[t] + n - 1

\* The first candidate that is not taken, if one of MaxEssais is free.
Libres(t, pris) == {n \in 1..MaxEssais : Candidat(t, n) \notin pris}

SlugsInit ==
  /\ fermee = FALSE
  /\ vivants = Anciennes
  /\ titre \in [Lignes -> Titres]
  /\ slug = [i \in Lignes |-> 0]
  /\ creation = [h \in Createurs |-> AucuneCreation]
  /\ reprise = Arretee
  /\ nees = {} /\ retouches = {}

\* A creation begins: its row is the youngest.
CommencerMix(h, i) ==
  /\ creation[h] = AucuneCreation
  /\ i \notin Anciennes \cup nees /\ \A k \in Createurs : creation[k].ligne # i
  /\ creation' = [creation EXCEPT ![h] = [ligne |-> i, essai |-> 1]]
  /\ UNCHANGED <<fermee, titre, slug, vivants, reprise, nees, retouches>>

\* slugUnique: one findFirst per candidate; the hundredth failure throws.
EssayerSlug(h) ==
  /\ creation[h].essai \in 1..MaxEssais
  /\ LET c == creation[h] IN
     creation' = [creation EXCEPT ![h] =
       IF Candidat(titre[c.ligne], c.essai) \notin Pris THEN [c EXCEPT !.essai = -c.essai]
       ELSE IF c.essai = MaxEssais THEN AucuneCreation
       ELSE [c EXCEPT !.essai = @ + 1]]
  /\ UNCHANGED <<fermee, titre, slug, vivants, reprise, nees, retouches>>

\* The insertion: once the column is closed, its index refuses a slug that
\* was taken since the query, and the request fails.
InsererMix(h) ==
  /\ creation[h].essai < 0
  /\ LET i == creation[h].ligne
         s == Candidat(titre[i], -creation[h].essai)
     IN IF fermee /\ s \in Pris THEN UNCHANGED <<slug, vivants, nees>>
        ELSE /\ slug' = [slug EXCEPT ![i] = s]
             /\ vivants' = vivants \cup {i}
             /\ nees' = nees \cup {i}
  /\ creation' = [creation EXCEPT ![h] = AucuneCreation]
  /\ UNCHANGED <<fermee, titre, reprise, retouches>>

\* An update of the title leaves the slug alone.
RenommerMix(i, t) ==
  /\ i \in vivants /\ titre[i] # t
  /\ titre' = [titre EXCEPT ![i] = t]
  /\ retouches' = retouches \cup {i}
  /\ UNCHANGED <<fermee, slug, vivants, creation, reprise, nees>>

RetirerMix(i) ==
  /\ i \in vivants
  /\ vivants' = vivants \ {i}
  /\ UNCHANGED <<fermee, titre, slug, creation, reprise, nees, retouches>>

-----------------------------------------------------------------------------
(* backfill-slugs --apply, and the migration after it                      *)

\* The rows and the slugs taken are read once, whole.
LancerReprise ==
  /\ reprise = Arretee /\ ~fermee
  /\ reprise' = [liste |-> {<<i, titre[i]>> : i \in {k \in vivants : slug[k] = 0}}, pris |-> Pris]
  /\ UNCHANGED <<fermee, titre, slug, vivants, creation, nees, retouches>>

\* Mutant: the youngest of a title is served first.
SuivanteLaPlusJeune(p) == p \in reprise.liste /\ \A o \in reprise.liste : o[1] <= p[1]

\* The oldest row that is left.
Suivante(p) == p \in reprise.liste /\ \A o \in reprise.liste : p[1] <= o[1]

\* One row: a slug no other row of the list has, kept in `pris` even when the
\* update fails, on a row that is gone or a base that does not answer.
PoserSlug(p) ==
  /\ Suivante(p)
  /\ LET libres == Libres(p[2], reprise.pris)
         n == CHOOSE k \in libres : \A j \in libres : k <= j
     IN IF libres = {}
        THEN reprise' = [reprise EXCEPT !.liste = @ \ {p}] /\ UNCHANGED slug
        ELSE /\ reprise' = [liste |-> reprise.liste \ {p},
                            pris |-> reprise.pris \cup {Candidat(p[2], n)}]
             /\ \/ UNCHANGED slug
                \/ /\ p[1] \in vivants
                   /\ slug' = [slug EXCEPT ![p[1]] = Candidat(p[2], n)]
  /\ UNCHANGED <<fermee, titre, vivants, creation, nees, retouches>>

\* The script is interrupted.
CouperReprise ==
  /\ reprise.liste # {}
  /\ reprise' = Arretee
  /\ UNCHANGED <<fermee, titre, slug, vivants, creation, nees, retouches>>

FinReprise ==
  /\ reprise # Arretee /\ reprise.liste = {}
  /\ reprise' = Arretee
  /\ UNCHANGED <<fermee, titre, slug, vivants, creation, nees, retouches>>

\* NOT NULL and the unique index, or nothing at all.
Fermer ==
  /\ ~fermee
  /\ \A i \in vivants : slug[i] # 0
  /\ \A i, j \in vivants : slug[i] = slug[j] => i = j
  /\ fermee' = TRUE
  /\ UNCHANGED <<titre, slug, vivants, creation, reprise, nees, retouches>>

SlugsNext ==
  \/ \E h \in Createurs :
       \/ \E i \in Lignes : CommencerMix(h, i)
       \/ EssayerSlug(h) \/ InsererMix(h)
  \/ \E i \in Lignes : RetirerMix(i) \/ \E t \in Titres : RenommerMix(i, t)
  \/ LancerReprise \/ CouperReprise \/ FinReprise \/ Fermer
  \/ \E p \in reprise.liste : PoserSlug(p)

SlugsSpec == SlugsInit /\ [][SlugsNext]_slugsVars

-----------------------------------------------------------------------------
(* Properties                                                              *)

\* However often the script is cut and run again, of two old mixes of one
\* title the older has the smaller number, as long as members touch nothing
\* in between; an update that fails only delays its own row.
OldestKeepsPlainAddress ==
  (nees = {} /\ Anciennes \subseteq vivants \ retouches) =>
    \A i, j \in Anciennes :
      (i < j /\ titre[i] = titre[j] /\ slug[i] # 0 /\ slug[j] # 0) => slug[i] < slug[j]
===============================================================================
