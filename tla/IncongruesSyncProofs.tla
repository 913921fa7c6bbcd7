------------------------- MODULE IncongruesSyncProofs -------------------------
(***************************************************************************)
(* Proofs about IncongruesSync, for any number of accounts, discussions    *)
(* and overlapping passes.                                                 *)
(***************************************************************************)
EXTENDS IncongruesSync, TLAPS

\* A pass at one of its steps holds the record of a pass.
LEMMA PassInFlight ==
  ASSUME NEW q \in {Libre} \cup EnVol, q.etape \in Etapes
  PROVE  q \in EnVol
BY DEF Etapes, Travail, Libre

\* The fields of a pass in flight.
LEMMA PassFields ==
  ASSUME NEW q \in EnVol
  PROVE  /\ q.sorte \in Sortes /\ q.etape \in Etapes
         /\ q.auteurs \in SUBSET Pseudos
         /\ q.comptes \in SUBSET (Users \X (Pseudos \cup {None}))
         /\ q.user \in Users \cup {None}
         /\ q.pseudo \in Pseudos \cup {None}
         /\ q.reste \in SUBSET Discussions
         /\ q.disc \in Discussions \cup {None}
         /\ q.qui \in Passes \cup {None}
BY DEF EnVol

\* A pass starts with its kind.
LEMMA PassStart ==
  ASSUME NEW s \in Sortes, NEW e \in Etapes
  PROVE  [Libre EXCEPT !.sorte = s, !.etape = e] \in EnVol
BY DEF EnVol, Libre

\* Going through the accounts keeps the record's type.
LEMMA PassMoves ==
  ASSUME NEW q \in EnVol
  PROVE  /\ \A e \in Etapes : [q EXCEPT !.etape = e] \in EnVol
         /\ \A e \in Etapes, A \in SUBSET Pseudos :
              [q EXCEPT !.etape = e, !.auteurs = A] \in EnVol
         /\ \A e \in Etapes, C \in SUBSET (Users \X (Pseudos \cup {None})) :
              [q EXCEPT !.etape = e, !.comptes = C] \in EnVol
         /\ \A C \in SUBSET (Users \X (Pseudos \cup {None})) :
              [q EXCEPT !.comptes = C] \in EnVol
         /\ \A C \in SUBSET (Users \X (Pseudos \cup {None})), u \in Users,
               p \in Pseudos \cup {None}, e \in Etapes, i \in Passes \cup {None} :
              [q EXCEPT !.comptes = C, !.user = u, !.pseudo = p, !.etape = e,
                        !.qui = i] \in EnVol
BY DEF EnVol

\* So does the work on one account.
LEMMA WorkMoves ==
  ASSUME NEW q \in EnVol
  PROVE  /\ \A e \in Etapes, S \in SUBSET Discussions :
              [q EXCEPT !.etape = e, !.reste = S] \in EnVol
         /\ \A e \in Etapes, S \in SUBSET Discussions,
               d \in Discussions \cup {None} :
              [q EXCEPT !.reste = S, !.etape = e, !.disc = d] \in EnVol
         /\ Passer(q) \in EnVol
         /\ Repris(q) \in EnVol
BY DEF EnVol, Passer, Repris, Etapes, Travail

\* What setting a discussion, or an account, aside leaves.
LEMMA AsideFields ==
  ASSUME NEW q \in EnVol
  PROVE  /\ Passer(q).etape = "travail" /\ Passer(q).disc = None
         /\ Passer(q).user = q.user /\ Passer(q).pseudo = q.pseudo
         /\ Passer(q).comptes = q.comptes
         /\ Repris(q).etape = "boucle" /\ Repris(q).comptes = q.comptes
BY DEF EnVol, Passer, Repris

\* The end of the work on an account keeps the types.
LEMMA EndTypes ==
  ASSUME TypeOK, NEW k \in Passes, passe[k] \in EnVol, Terminer(k)
  PROVE  /\ enCours' \in [Users -> Passes \cup {None}]
         /\ passe' \in [Passes -> {Libre} \cup EnVol]
<1>1. enCours' \in [Users -> Passes \cup {None}]
  BY DEF TypeOK, Terminer
<1>2. ASSUME NEW i \in Passes, i = k \/ passe[i].etape = "attend"
      PROVE  Repris(passe[i]) \in EnVol
  <2>1. passe[i] \in EnVol
    BY <1>2, PassInFlight DEF TypeOK, Etapes
  <2> QED
    BY <2>1, WorkMoves
<1>3. passe' = [i \in Passes |->
         IF i = k \/ (passe[i].etape = "attend" /\ passe[i].qui = k)
         THEN Repris(passe[i]) ELSE passe[i]]
  BY DEF Terminer
<1>4. passe' \in [Passes -> {Libre} \cup EnVol]
  <2>1. \A i \in Passes :
          (IF i = k \/ (passe[i].etape = "attend" /\ passe[i].qui = k)
           THEN Repris(passe[i]) ELSE passe[i]) \in {Libre} \cup EnVol
    <3> HIDE DEF Repris
    <3> QED
      BY <1>2 DEF TypeOK
  <2> QED
    BY <1>3, <2>1
<1> QED
  BY <1>1, <1>4

\* A work at a step has the account and the discussion that step needs.
LEMMA WorkObjectsStep ==
  ASSUME TypeOK, WorkHasObjects, [Next]_vars
  PROVE  WorkHasObjects'
<1> USE DEF TypeOK, WorkHasObjects
<1>1. Libre.etape = "libre"
  BY DEF Libre
<1>2. ASSUME Membre \/ UNCHANGED vars \/ (\E s \in Sortes : Attendre(s))
      PROVE  WorkHasObjects'
  BY <1>2 DEF Membre, Publier, Revendiquer, Chercher, Marquer, Delier, CreerMain,
              Modifier, Supprimer, Attendre, vars
<1>3. ASSUME Redemarrer PROVE WorkHasObjects'
  BY <1>1, <1>3 DEF Redemarrer, Travail
<1>4. ASSUME NEW k \in Passes, NEW s \in Sortes, Lancer(k, s)
      PROVE  WorkHasObjects'
  <2>1. /\ passe'[k].etape \in {"recentes", "comptes"}
        /\ \A i \in Passes : i # k => passe'[i] = passe[i]
    BY <1>4 DEF Lancer, Libre
  <2> QED
    BY <2>1 DEF Travail
<1>5. ASSUME NEW k \in Passes, Avancer(k) PROVE WorkHasObjects'
  <2>1. passe[k].etape \in Etapes
    BY <1>5 DEF Avancer, LireRecentes, LireComptes, FinPasse, Suivant, Lister,
                EchecListe, PremierControle, EstBienDe, Importer,
                SecondControle, CreateFromImport, Ecarter, FinTravail,
                Etapes, Travail
  <2>2. passe[k] \in EnVol
    BY <2>1, PassInFlight
  <2>3. ASSUME EchecListe(k) \/ FinTravail(k) PROVE WorkHasObjects'
    <3>1. ASSUME NEW i \in Passes, passe'[i].etape \in Travail
          PROVE  passe'[i] = passe[i]
      <4>1. ASSUME i = k \/ (passe[i].etape = "attend" /\ passe[i].qui = k)
            PROVE  passe'[i].etape = "boucle"
        <5>1. passe[i] \in EnVol
          BY <4>1, <2>2, PassInFlight DEF Etapes
        <5> QED
          BY <2>3, <4>1, <5>1, AsideFields DEF EchecListe, FinTravail, Terminer
      <4> QED
        BY <2>3, <3>1, <4>1 DEF EchecListe, FinTravail, Terminer, Travail
    <3> QED
      BY <3>1 DEF Travail
  <2>4. ASSUME \A i \in Passes : i # k => passe'[i] = passe[i],
               passe'[k].etape \in Travail => passe'[k].user \in Users,
               passe'[k].etape \in {"relire", "importer", "second", "creer"} =>
                 passe'[k].disc \in Discussions
        PROVE  WorkHasObjects'
    BY <2>4
  <2>5. ASSUME \/ \E A \in SUBSET Pseudos : LireRecentes(k, A)
               \/ LireComptes(k) \/ FinPasse(k)
        PROVE  WorkHasObjects'
    <3>1. /\ passe'[k].etape \in {"comptes", "boucle", "libre"}
          /\ \A i \in Passes : i # k => passe'[i] = passe[i]
      <4>1. CASE \E A \in SUBSET Pseudos : LireRecentes(k, A)
        BY <2>2, <4>1, <1>1 DEF LireRecentes, EnVol
      <4>2. CASE LireComptes(k)
        BY <2>2, <4>2 DEF LireComptes, EnVol
      <4>3. CASE FinPasse(k)
        BY <4>3, <1>1 DEF FinPasse
      <4> QED
        BY <2>5, <4>1, <4>2, <4>3
    <3> QED
      BY <3>1, <2>4 DEF Travail
  <2>6. ASSUME NEW u \in Users, NEW p \in Pseudos \cup {None}, Suivant(k, u, p)
        PROVE  WorkHasObjects'
    <3>1. /\ passe'[k].etape \in {"libre", "boucle", "attend", "liste"}
          /\ passe'[k].etape = "liste" => passe'[k].user = u
          /\ \A i \in Passes : i # k => passe'[i] = passe[i]
      <4> DEFINE R == passe[k].comptes \ {<<u, p>>}
      <4>1. CASE passe' = [passe EXCEPT ![k] = Libre]
        BY <4>1, <1>1
      <4>2. CASE passe' = [passe EXCEPT ![k].comptes = R]
        BY <2>2, <2>6, <4>2 DEF Suivant, EnVol
      <4>3. CASE SyncUser(k, u, p, R)
        BY <2>2, <4>3 DEF SyncUser, EnVol
      <4> QED
        BY <2>6, <4>1, <4>2, <4>3 DEF Suivant
    <3> QED
      BY <3>1, <2>4 DEF Travail
  <2>7. ASSUME NEW d \in Discussions, PremierControle(k, d) PROVE WorkHasObjects'
    <3>1. /\ passe'[k].etape \in {"travail", "relire"}
          /\ passe'[k].etape = "relire" => passe'[k].disc = d
          /\ passe'[k].user = passe[k].user
          /\ \A i \in Passes : i # k => passe'[i] = passe[i]
      BY <2>2, <2>7 DEF PremierControle, EnVol
    <3>2. passe[k].user \in Users
      BY <2>7 DEF PremierControle, Travail
    <3> QED
      BY <3>1, <3>2, <2>4 DEF Travail
  <2>8. ASSUME \/ \E S \in SUBSET Discussions : Lister(k, S)
               \/ EstBienDe(k) \/ Importer(k) \/ SecondControle(k) \/ Ecarter(k)
               \/ \E m \in Mixes : CreateFromImport(k, m)
        PROVE  WorkHasObjects'
    <3>1. /\ passe[k].etape \in Travail
          /\ passe'[k].etape # "travail" =>
               /\ passe[k].etape \in {"relire", "importer", "second"}
               /\ passe'[k].disc = passe[k].disc
          /\ passe'[k].user = passe[k].user
          /\ \A i \in Passes : i # k => passe'[i] = passe[i]
      <4>1. CASE \E S \in SUBSET Discussions : Lister(k, S)
        BY <2>2, <4>1 DEF Lister, EnVol, Travail
      <4>2. CASE EstBienDe(k) \/ Importer(k)
        <5>1. CASE EstBienDe(k)
          BY <2>2, <5>1 DEF EstBienDe, EnVol, Travail
        <5>2. CASE Importer(k)
          BY <2>2, <5>2 DEF Importer, EnVol, Travail
        <5> QED
          BY <4>2, <5>1, <5>2
      <4>3. CASE SecondControle(k)
        <5>1. passe[k].etape = "second"
          BY <4>3 DEF SecondControle
        <5>2. /\ \/ passe'[k] = Passer(passe[k])
                 \/ passe'[k] = [passe[k] EXCEPT !.etape = "creer"]
              /\ \A i \in Passes : i # k => passe'[i] = passe[i]
          BY <4>3 DEF SecondControle
        <5> QED
          <6>1. CASE passe'[k] = Passer(passe[k])
            BY <2>2, <5>1, <5>2, <6>1, AsideFields DEF Travail
          <6>2. CASE passe'[k] = [passe[k] EXCEPT !.etape = "creer"]
            BY <2>2, <5>1, <5>2, <6>2 DEF Travail, EnVol
          <6> QED
            BY <5>2, <6>1, <6>2
      <4>4. CASE Ecarter(k) \/ \E m \in Mixes : CreateFromImport(k, m)
        BY <2>2, <4>4, AsideFields DEF Ecarter, CreateFromImport, Travail
      <4> QED
        BY <2>8, <4>1, <4>2, <4>3, <4>4
    <3> QED
      BY <3>1, <2>4 DEF Travail
  <2> QED
    BY <1>5, <2>3, <2>5, <2>6, <2>7, <2>8 DEF Avancer
<1> QED
  BY <1>2, <1>3, <1>4, <1>5 DEF Next

\* The variables keep their types through every step of members and passes:
\* no mix is inserted without an account or without a discussion.
THEOREM SyncTypeOK == Spec => [](TypeOK /\ WorkHasObjects)
<1>1. Init => TypeOK /\ WorkHasObjects
  <2>1. Init => TypeOK
    <3>1. [pseudo |-> None, verifie |-> FALSE] \in Lien
      BY DEF Lien
    <3>2. [auteur |-> None, lecteur |-> None] \in Discussion
      BY DEF Discussion
    <3> QED
      BY <3>1, <3>2 DEF Init, TypeOK
  <2>2. Init => WorkHasObjects
    BY DEF Init, WorkHasObjects, Libre, Travail
  <2> QED
    BY <2>1, <2>2
<1>2. ASSUME TypeOK, WorkHasObjects, [Next]_vars PROVE TypeOK'
  <2> USE <1>2 DEF TypeOK, liens, journal
  <2>1. ASSUME Membre PROVE TypeOK'
    <3>1. ASSUME NEW d \in Discussions, NEW p \in Pseudos, NEW r \in Refs \cup {None},
                 Publier(d, p, r)
          PROVE  TypeOK'
      BY <3>1 DEF Publier, Discussion
    <3>2. ASSUME NEW u \in Users, NEW p \in Pseudos, Revendiquer(u, p) PROVE TypeOK'
      BY <3>2 DEF Revendiquer, Lien
    <3>3. ASSUME NEW u \in Users, Chercher(u) PROVE TypeOK'
      BY <3>3 DEF Chercher
    <3>4. ASSUME NEW u \in Users, Marquer(u) PROVE TypeOK'
      <4>1. lien' \in [Users -> Lien]
        BY <3>4 DEF Marquer, Lien
      <4> QED
        BY <3>4, <4>1 DEF Marquer
    <3>5. ASSUME NEW u \in Users, Delier(u) PROVE TypeOK'
      BY <3>5 DEF Delier, Lien
    <3>6. ASSUME NEW u \in Users, NEW m \in Mixes, NEW r \in Refs,
                 NEW d \in Discussions \cup {None}, CreerMain(u, m, r, d)
          PROVE  TypeOK'
      BY <3>6 DEF CreerMain, Mix
    <3>7. ASSUME NEW m \in Mixes, Supprimer(m) PROVE TypeOK'
      BY <3>7 DEF Supprimer
    <3>8. ASSUME NEW m \in Mixes, NEW r \in Refs,
                 NEW d \in Discussions \cup {None}, Modifier(m, r, d)
          PROVE  TypeOK'
      <4>1. mixes[m] \in Mix
        BY <3>8 DEF Modifier
      <4>2. [mixes[m] EXCEPT !.ref = r, !.page = d, !.sync = FALSE] \in Mix
        BY <4>1 DEF Mix
      <4> QED
        BY <3>8, <4>2 DEF Modifier
    <3> QED
      BY <2>1, <3>1, <3>2, <3>3, <3>4, <3>5, <3>6, <3>7, <3>8 DEF Membre
  <2>2. ASSUME NEW k \in Passes, NEW s \in Sortes, Lancer(k, s) PROVE TypeOK'
    BY <2>2, PassStart DEF Lancer, Etapes
  <2>3. ASSUME NEW s \in Sortes, Attendre(s) PROVE TypeOK'
    BY <2>3 DEF Attendre
  <2>4. ASSUME NEW k \in Passes, Avancer(k) PROVE TypeOK'
    <3>1. passe[k].etape \in Etapes
      BY <2>4 DEF Avancer, LireRecentes, LireComptes, FinPasse, Suivant, Lister,
                  EchecListe, PremierControle, EstBienDe, Importer,
                  SecondControle, CreateFromImport, Ecarter, FinTravail,
                  Etapes, Travail
    <3>2. passe[k] \in EnVol
      BY <3>1, PassInFlight
    <3>3. ASSUME NEW A \in SUBSET Pseudos, LireRecentes(k, A) PROVE TypeOK'
      BY <3>2, <3>3, PassMoves DEF LireRecentes, Etapes
    <3>4. ASSUME LireComptes(k) PROVE TypeOK'
      <4> DEFINE C == {<<u, lien[u].pseudo>> : u \in {v \in Users : lien[v].verifie}}
      <4>1. C \in SUBSET (Users \X (Pseudos \cup {None}))
        BY DEF Lien
      <4>2. [passe[k] EXCEPT !.etape = "boucle", !.comptes = C] \in EnVol
        BY <3>2, <4>1, PassMoves DEF Etapes
      <4> QED
        BY <3>4, <4>2 DEF LireComptes
    <3>5. ASSUME FinPasse(k) PROVE TypeOK'
      BY <3>5 DEF FinPasse
    <3>6. ASSUME NEW u \in Users, NEW p \in Pseudos \cup {None}, Suivant(k, u, p)
          PROVE  TypeOK'
      <4> DEFINE R == passe[k].comptes \ {<<u, p>>}
      <4>1. R \in SUBSET (Users \X (Pseudos \cup {None}))
        BY <3>2, PassFields
      <4>2. [passe[k] EXCEPT !.comptes = R] \in EnVol
        BY <3>2, <4>1, PassMoves
      <4>3. ASSUME SyncUser(k, u, p, R)
            PROVE  /\ passe' \in [Passes -> {Libre} \cup EnVol]
                   /\ enCours' \in [Users -> Passes \cup {None}]
        <5> DEFINE e == IF enCours[u] # None THEN "attend" ELSE "liste"
        <5>1. e \in Etapes /\ enCours[u] \in Passes \cup {None}
          BY DEF Etapes, Travail
        <5>2. [passe[k] EXCEPT !.comptes = R, !.user = u, !.pseudo = p,
                               !.etape = e, !.qui = enCours[u]] \in EnVol
          <6> HIDE DEF e, R
          <6> QED
            BY <3>2, <4>1, <5>1, PassMoves
        <5> QED
          BY <4>3, <5>2 DEF SyncUser
      <4>4. abandons' \in BOOLEAN
        BY <3>6 DEF Suivant
      <4> HIDE DEF R
      <4>5. /\ passe' \in [Passes -> {Libre} \cup EnVol]
            /\ enCours' \in [Users -> Passes \cup {None}]
        BY <3>6, <4>2, <4>3 DEF Suivant, R
      <4> QED
        BY <3>6, <4>4, <4>5 DEF Suivant
    <3>7. ASSUME NEW S \in SUBSET Discussions, Lister(k, S) PROVE TypeOK'
      BY <3>2, <3>7, WorkMoves DEF Lister, Etapes, Travail
    <3>8. ASSUME EchecListe(k) \/ FinTravail(k) PROVE TypeOK'
      BY <3>2, <3>8, EndTypes DEF EchecListe, FinTravail
    <3>9. ASSUME NEW d \in Discussions, PremierControle(k, d) PROVE TypeOK'
      <4> DEFINE R == passe[k].reste \ {d}
                 e == IF FindBySource(None, d) # {} THEN "travail" ELSE "relire"
                 x == IF FindBySource(None, d) # {} THEN None ELSE d
      <4>1. R \in SUBSET Discussions /\ e \in Etapes /\ x \in Discussions \cup {None}
        BY <3>2, PassFields DEF Etapes, Travail
      <4>2. [passe[k] EXCEPT !.reste = R, !.etape = e, !.disc = x] \in EnVol
        <5> HIDE DEF R, e, x
        <5> QED
          BY <3>2, <4>1, WorkMoves
      <4> QED
        BY <3>9, <4>2 DEF PremierControle
    <3>10. ASSUME EstBienDe(k) \/ Importer(k) PROVE TypeOK'
      <4>1. \A e \in Etapes : [passe[k] EXCEPT !.etape = e] \in EnVol
        BY <3>2, PassMoves
      <4> QED
        BY <3>10, <4>1 DEF EstBienDe, Importer, Etapes, Travail
    <3>11. ASSUME SecondControle(k) \/ Ecarter(k) PROVE TypeOK'
      <4>1. /\ Passer(passe[k]) \in EnVol
            /\ [passe[k] EXCEPT !.etape = "creer"] \in EnVol
        BY <3>2, PassMoves, WorkMoves DEF Etapes, Travail
      <4> QED
        BY <3>11, <4>1 DEF SecondControle, Ecarter
    <3>12. ASSUME NEW m \in Mixes, CreateFromImport(k, m) PROVE TypeOK'
      <4>1. Passer(passe[k]) \in EnVol
        BY <3>2, WorkMoves
      <4>2. passe[k].user \in Users /\ passe[k].disc \in Discussions
        BY <3>12 DEF CreateFromImport, WorkHasObjects, Travail
      <4>3. [user |-> passe[k].user, ref |-> forum[passe[k].disc].lecteur,
             page |-> passe[k].disc, sync |-> TRUE] \in Mix
        BY <4>2 DEF Mix, Discussion
      <4>4. mixes' \in [Mixes -> {Absent} \cup Mix]
        BY <3>12, <4>3 DEF CreateFromImport
      <4>5. jumeaux' \in BOOLEAN
        BY <3>12 DEF CreateFromImport
      <4> QED
        BY <3>12, <4>1, <4>4, <4>5 DEF CreateFromImport
    <3> QED
      BY <2>4, <3>3, <3>4, <3>5, <3>6, <3>7, <3>8, <3>9, <3>10, <3>11, <3>12
         DEF Avancer
  <2>5. ASSUME Redemarrer PROVE TypeOK'
    BY <2>5 DEF Redemarrer
  <2>6. CASE UNCHANGED vars
    BY <2>6 DEF vars
  <2> QED
    BY <2>1, <2>2, <2>3, <2>4, <2>5, <2>6 DEF Next
<1>3. QED
  BY <1>1, <1>2, WorkObjectsStep, PTL DEF Spec

-----------------------------------------------------------------------------
\* One pass moves and no row is written: what must hold of its new record for
\* the invariant to hold still.
LEMMA PassMoveKeeps ==
  ASSUME TypeOK, WorkHasObjects, SyncInv, NEW k \in Passes,
         UNCHANGED <<lien, tenus, forum, mixes>>,
         \A i \in Passes : i # k => passe'[i] = passe[i],
         \A c \in passe'[k].comptes : c[2] # None => c \in tenus,
         passe'[k].etape \in Travail =>
           /\ enCours'[passe'[k].user] = k
           /\ passe'[k].pseudo # None =>
                <<passe'[k].user, passe'[k].pseudo>> \in tenus,
         passe'[k].etape \in Travail \ {"liste"} => passe'[k].pseudo # None,
         passe'[k].etape \in {"importer", "second", "creer"} =>
           forum[passe'[k].disc].auteur = passe'[k].pseudo,
         passe'[k].etape \in {"second", "creer"} =>
           forum[passe'[k].disc].lecteur # None,
         passe'[k].etape = "creer" =>
           \A m \in Mixes : mixes[m].sync /\ mixes[m].user = passe'[k].user =>
              /\ mixes[m].page # passe'[k].disc
              /\ mixes[m].ref # forum[passe'[k].disc].lecteur,
         \A i \in Passes : i # k /\ passe[i].etape \in Travail =>
            enCours'[passe[i].user] = i
  PROVE  SyncInv'
<1> USE DEF SyncInv
<1>1. OnlyOwnDiscussions' /\ OneCopyPerAccount' /\ SyncMixesFounded'
  BY DEF OnlyOwnDiscussions, OneCopyPerAccount, SyncMixesFounded
<1>2. PseudosHeld'
  <2>1. \A u \in Users :
          lien'[u].verifie /\ lien'[u].pseudo # None => <<u, lien'[u].pseudo>> \in tenus'
    BY DEF PseudosHeld
  <2>2. ASSUME NEW i \in Passes
        PROVE  /\ \A c \in passe'[i].comptes : c[2] # None => c \in tenus'
               /\ passe'[i].etape \in Travail /\ passe'[i].pseudo # None
                    => <<passe'[i].user, passe'[i].pseudo>> \in tenus'
    <3>1. CASE i = k
      BY <3>1
    <3>2. CASE i # k
      BY <3>2 DEF PseudosHeld
    <3> QED
      BY <3>1, <3>2
  <2> QED
    BY <2>1, <2>2 DEF PseudosHeld
<1>3. AuthorConfirmed'
  BY DEF AuthorConfirmed
<1>4. WorkIsRegistered'
  BY DEF WorkIsRegistered
<1>5. CreationIsNew'
  BY DEF CreationIsNew
<1> QED
  BY <1>1, <1>2, <1>3, <1>4, <1>5

\* Work that ends leaves the work on the other accounts registered.
LEMMA EndKeeps ==
  ASSUME TypeOK, WorkHasObjects, SyncInv, NEW k \in Passes,
         passe[k].etape \in Travail, Terminer(k),
         UNCHANGED <<lien, tenus, forum, mixes>>
  PROVE  SyncInv'
<1> USE DEF SyncInv
<1>1. ASSUME NEW i \in Passes
      PROVE  /\ passe'[i].comptes = passe[i].comptes
             /\ \/ passe'[i].etape = "boucle"
                \/ i # k /\ passe'[i] = passe[i]
  <2>1. CASE i = k \/ (passe[i].etape = "attend" /\ passe[i].qui = k)
    <3>1. passe[i] \in EnVol
      BY <2>1, PassInFlight DEF TypeOK, Etapes
    <3>2. passe'[i] = Repris(passe[i])
      BY <2>1 DEF Terminer
    <3> QED
      BY <3>1, <3>2, AsideFields
  <2>2. CASE ~(i = k \/ (passe[i].etape = "attend" /\ passe[i].qui = k))
    BY <2>2 DEF Terminer
  <2> QED
    BY <2>1, <2>2
<1>2. ASSUME NEW i \in Passes, passe'[i].etape \in Travail
      PROVE  i # k /\ passe'[i] = passe[i]
  BY <1>1, <1>2 DEF Travail
<1>3. OnlyOwnDiscussions' /\ OneCopyPerAccount' /\ SyncMixesFounded'
  BY DEF OnlyOwnDiscussions, OneCopyPerAccount, SyncMixesFounded
<1>4. PseudosHeld'
  BY <1>1, <1>2 DEF PseudosHeld
<1>5. AuthorConfirmed'
  BY <1>2 DEF AuthorConfirmed, Travail
<1>6. WorkIsRegistered'
  <2>1. ASSUME NEW i \in Passes, passe'[i].etape \in Travail
        PROVE  enCours'[passe'[i].user] = i
    <3>1. /\ i # k /\ passe'[i] = passe[i] /\ enCours[passe[i].user] = i
          /\ enCours[passe[k].user] = k /\ passe[i].user \in Users
      BY <1>2, <2>1 DEF WorkIsRegistered, WorkHasObjects
    <3> QED
      BY <3>1 DEF Terminer, TypeOK
  <2> QED
    BY <2>1 DEF WorkIsRegistered
<1>7. CreationIsNew'
  BY <1>2 DEF CreationIsNew, Travail
<1> QED
  BY <1>3, <1>4, <1>5, <1>6, <1>7

\* The steps of a pass that read.
LEMMA ReadsKeep ==
  ASSUME TypeOK, WorkHasObjects, SyncInv, NEW k \in Passes, Avancer(k),
         passe[k] \in EnVol,
         ~\E m \in Mixes : CreateFromImport(k, m)
  PROVE  SyncInv'
<1> USE DEF liens, journal
<1>1. \A c \in passe[k].comptes : c[2] # None => c \in tenus
  BY DEF SyncInv, PseudosHeld
<1>2. passe[k].etape \in Travail =>
        /\ enCours[passe[k].user] = k
        /\ passe[k].pseudo # None => <<passe[k].user, passe[k].pseudo>> \in tenus
  BY DEF SyncInv, PseudosHeld, WorkIsRegistered
<1>3. \A i \in Passes : passe[i].etape \in Travail => enCours[passe[i].user] = i
  BY DEF SyncInv, WorkIsRegistered
<1>4. ASSUME \/ \E A \in SUBSET Pseudos : LireRecentes(k, A)
             \/ LireComptes(k) \/ FinPasse(k)
      PROVE  SyncInv'
  <2>1. /\ \A i \in Passes : i # k => passe'[i] = passe[i]
        /\ UNCHANGED <<lien, tenus, forum, mixes, enCours>>
    BY <1>4 DEF LireRecentes, LireComptes, FinPasse, TypeOK
  <2>2. /\ passe'[k].etape \in {"comptes", "boucle", "libre"}
        /\ \A c \in passe'[k].comptes : c[2] # None => c \in tenus
    <3>1. CASE \E A \in SUBSET Pseudos : LireRecentes(k, A)
      BY <1>1, <3>1 DEF LireRecentes, EnVol, Libre, TypeOK
    <3>2. CASE LireComptes(k)
      <4>1. /\ passe'[k].etape = "boucle"
            /\ passe'[k].comptes =
                 {<<u, lien[u].pseudo>> : u \in {v \in Users : lien[v].verifie}}
        BY <3>2 DEF LireComptes, EnVol, TypeOK
      <4> QED
        BY <4>1 DEF SyncInv, PseudosHeld
    <3>3. CASE FinPasse(k)
      BY <3>3 DEF FinPasse, Libre, TypeOK
    <3> QED
      BY <1>4, <3>1, <3>2, <3>3
  <2> QED
    BY <1>3, <2>1, <2>2, PassMoveKeeps DEF Travail
<1>5. ASSUME NEW u \in Users, NEW p \in Pseudos \cup {None}, Suivant(k, u, p)
      PROVE  SyncInv'
  <2> DEFINE R == passe[k].comptes \ {<<u, p>>}
  <2>1. /\ UNCHANGED <<lien, tenus, forum, mixes>> /\ passe[k].etape = "boucle"
        /\ p # None => <<u, p>> \in tenus
    BY <1>1, <1>5 DEF Suivant
  <2>2. CASE passe' = [passe EXCEPT ![k] = Libre] /\ UNCHANGED enCours
    <3>1. /\ passe'[k].etape = "libre" /\ passe'[k].comptes = {}
          /\ \A i \in Passes : i # k => passe'[i] = passe[i]
      BY <2>2 DEF Libre, TypeOK
    <3> QED
      BY <1>3, <2>1, <2>2, <3>1, PassMoveKeeps DEF Travail
  <2>3. CASE passe' = [passe EXCEPT ![k].comptes = R] /\ UNCHANGED enCours
    <3>1. /\ passe'[k].etape = "boucle" /\ passe'[k].comptes = R
          /\ \A i \in Passes : i # k => passe'[i] = passe[i]
      BY <2>1, <2>3 DEF EnVol, TypeOK
    <3> QED
      BY <1>1, <1>3, <2>1, <2>3, <3>1, PassMoveKeeps DEF Travail
  <2>4. CASE SyncUser(k, u, p, R)
    <3>1. /\ passe'[k].comptes = R /\ passe'[k].user = u /\ passe'[k].pseudo = p
          /\ passe'[k].etape = IF enCours[u] # None THEN "attend" ELSE "liste"
          /\ \A i \in Passes : i # k => passe'[i] = passe[i]
      BY <2>4 DEF SyncUser, EnVol, TypeOK
    <3>2. /\ enCours[u] = None => enCours'[u] = k
          /\ \A v \in Users : enCours[v] # None => enCours'[v] = enCours[v]
      BY <2>4 DEF SyncUser, TypeOK
    <3>3. ASSUME NEW i \in Passes, i # k, passe[i].etape \in Travail
          PROVE  enCours'[passe[i].user] = i
      <4>1. passe[i].user \in Users /\ enCours[passe[i].user] = i
        BY <1>3, <3>3 DEF WorkHasObjects
      <4> QED
        BY <3>2, <4>1, NoneAssumption
    <3> HIDE DEF R
    <3>4. passe'[k].etape \in Travail => passe'[k].etape = "liste" /\ enCours[u] = None
      BY <3>1 DEF Travail
    <3>5. passe'[k].etape \in {"attend", "liste"}
      BY <3>1
    <3>6. \A c \in passe'[k].comptes : c[2] # None => c \in tenus
      BY <1>1, <3>1 DEF R
    <3> QED
      BY <2>1, <3>1, <3>2, <3>3, <3>4, <3>5, <3>6, PassMoveKeeps
  <2> QED
    BY <1>5, <2>2, <2>3, <2>4 DEF Suivant
<1>6. ASSUME EchecListe(k) \/ FinTravail(k) PROVE SyncInv'
  BY <1>6, EndKeeps DEF EchecListe, FinTravail, Travail
<1>7. ASSUME \/ \E S \in SUBSET Discussions : Lister(k, S)
             \/ \E d \in Discussions : PremierControle(k, d)
             \/ EstBienDe(k) \/ Importer(k) \/ SecondControle(k) \/ Ecarter(k)
      PROVE  SyncInv'
  <2>1. /\ \A i \in Passes : i # k => passe'[i] = passe[i]
        /\ UNCHANGED <<lien, tenus, forum, mixes, enCours>>
        /\ passe[k].etape \in Travail
    BY <1>7 DEF Lister, PremierControle, EstBienDe, Importer, SecondControle,
                Ecarter, Travail, TypeOK
  <2>2. /\ passe'[k].comptes = passe[k].comptes /\ passe'[k].user = passe[k].user
        /\ passe'[k].pseudo = passe[k].pseudo
        /\ \/ passe'[k].etape \in {"travail", "relire"}
           \/ /\ passe'[k].etape = "importer" /\ EstBienDe(k)
              /\ passe'[k].disc = passe[k].disc
           \/ /\ passe'[k].etape = "second" /\ Importer(k)
              /\ passe'[k].disc = passe[k].disc
           \/ /\ passe'[k].etape = "creer" /\ SecondControle(k)
              /\ passe'[k].disc = passe[k].disc
              /\ FindBySource(forum[passe[k].disc].lecteur, passe[k].disc) = {}
    <3> USE DEF TypeOK
    <3>1. CASE \E S \in SUBSET Discussions : Lister(k, S)
      BY <3>1 DEF Lister, EnVol
    <3>2. CASE \E d \in Discussions : PremierControle(k, d)
      BY <3>2 DEF PremierControle, EnVol
    <3>3. CASE EstBienDe(k)
      BY <3>3 DEF EstBienDe, EnVol
    <3>4. CASE Importer(k)
      BY <3>4 DEF Importer, EnVol
    <3>5. CASE Ecarter(k)
      BY <3>5, AsideFields DEF Ecarter
    <3>6. CASE SecondControle(k)
      <4>1. CASE FindBySource(forum[passe[k].disc].lecteur, passe[k].disc) # {}
        BY <3>6, <4>1, AsideFields DEF SecondControle
      <4>2. CASE FindBySource(forum[passe[k].disc].lecteur, passe[k].disc) = {}
        <5>1. passe' = [passe EXCEPT ![k] = [passe[k] EXCEPT !.etape = "creer"]]
          BY <3>6, <4>2 DEF SecondControle
        <5> QED
          BY <3>6, <4>2, <5>1 DEF EnVol
      <4> QED
        BY <4>1, <4>2
    <3> QED
      BY <1>7, <3>1, <3>2, <3>3, <3>4, <3>5, <3>6
  <2>3. passe'[k].etape \in {"importer", "second", "creer"} =>
          forum[passe'[k].disc].auteur = passe'[k].pseudo
    <3>1. CASE EstBienDe(k) /\ passe'[k].disc = passe[k].disc
      BY <2>2, <3>1 DEF EstBienDe
    <3>2. CASE (Importer(k) \/ SecondControle(k)) /\ passe'[k].disc = passe[k].disc
      BY <2>2, <3>2 DEF Importer, SecondControle, SyncInv, AuthorConfirmed
    <3> QED
      BY <2>2, <3>1, <3>2
  <2>6. passe[k].pseudo # None
    BY <1>7 DEF Lister, PremierControle, EstBienDe, Importer, SecondControle,
                Ecarter, SyncInv, AuthorConfirmed, Travail
  <2>4. passe'[k].etape \in {"second", "creer"} =>
          forum[passe'[k].disc].lecteur # None
    BY <2>2 DEF Importer, SecondControle, SyncInv, CreationIsNew
  <2>5. passe'[k].etape = "creer" =>
          \A m \in Mixes : mixes[m].sync /\ mixes[m].user = passe'[k].user =>
             /\ mixes[m].page # passe'[k].disc
             /\ mixes[m].ref # forum[passe'[k].disc].lecteur
    <3>1. ASSUME passe'[k].etape = "creer"
          PROVE  /\ passe'[k].disc = passe[k].disc
                 /\ passe[k].disc \in Discussions
                 /\ forum[passe[k].disc].lecteur # None
                 /\ FindBySource(forum[passe[k].disc].lecteur, passe[k].disc) = {}
      BY <2>2, <3>1 DEF SecondControle, SyncInv, CreationIsNew, WorkHasObjects
    <3> QED
      BY <3>1, NoneAssumption DEF FindBySource
  <2> QED
    BY <1>1, <1>2, <1>3, <2>1, <2>2, <2>3, <2>4, <2>5, <2>6, PassMoveKeeps
<1> QED
  BY <1>4, <1>5, <1>6, <1>7 DEF Avancer

\* What members do, and what the passes do to the table, keeps the invariant.
LEMMA WritesKeep ==
  ASSUME TypeOK, WorkHasObjects, SyncInv,
         Membre \/ \E k \in Passes, m \in Mixes : CreateFromImport(k, m)
  PROVE  SyncInv'
<1> USE NoneAssumption DEF TypeOK, liens, journal
<1>0. Absent.sync = FALSE
  BY DEF Absent
<1>1. ASSUME NEW d \in Discussions, NEW p \in Pseudos, NEW r \in Refs \cup {None},
             Publier(d, p, r)
      PROVE  SyncInv'
  <2>1. /\ forum[d].auteur = None
        /\ \A e \in Discussions : e # d => forum'[e] = forum[e]
        /\ UNCHANGED <<lien, tenus, mixes, enCours, passe>>
    BY <1>1 DEF Publier, Publiees
  <2>2. OnlyOwnDiscussions' /\ SyncMixesFounded' /\ OneCopyPerAccount'
    BY <2>1 DEF SyncInv, OnlyOwnDiscussions, SyncMixesFounded, OneCopyPerAccount
  <2>3. PseudosHeld' /\ WorkIsRegistered'
    BY <2>1 DEF SyncInv, PseudosHeld, WorkIsRegistered
  <2>4. ASSUME NEW k \in Passes, passe[k].etape \in {"importer", "second", "creer"}
        PROVE  passe[k].disc \in Discussions /\ passe[k].disc # d
    BY <2>1, <2>4 DEF SyncInv, AuthorConfirmed, WorkHasObjects, Travail
  <2>5. AuthorConfirmed'
    BY <2>1, <2>4 DEF SyncInv, AuthorConfirmed
  <2>6. CreationIsNew'
    BY <2>1, <2>4 DEF SyncInv, CreationIsNew
  <2> QED
    BY <2>2, <2>3, <2>5, <2>6 DEF SyncInv
<1>2. ASSUME NEW u \in Users,
             \/ \E p \in Pseudos : Revendiquer(u, p)
             \/ Chercher(u) \/ Marquer(u) \/ Delier(u)
      PROVE  SyncInv'
  <2>1. /\ UNCHANGED <<forum, mixes, enCours, passe>> /\ tenus \subseteq tenus'
    BY <1>2 DEF Revendiquer, Chercher, Marquer, Delier
  <2>2. \A v \in Users : lien'[v].verifie /\ lien'[v].pseudo # None
                          => <<v, lien'[v].pseudo>> \in tenus'
    <3>1. CASE Marquer(u)
      BY <3>1 DEF Marquer, SyncInv, PseudosHeld, Lien
    <3>2. CASE Chercher(u)
      BY <3>2 DEF Chercher, SyncInv, PseudosHeld
    <3>3. CASE Delier(u) \/ \E p \in Pseudos : Revendiquer(u, p)
      BY <3>3 DEF Delier, Revendiquer, SyncInv, PseudosHeld
    <3> QED
      BY <1>2, <3>1, <3>2, <3>3
  <2>3. PseudosHeld'
    BY <2>1, <2>2 DEF SyncInv, PseudosHeld
  <2>4. OnlyOwnDiscussions' /\ SyncMixesFounded' /\ OneCopyPerAccount'
    BY <2>1 DEF SyncInv, OnlyOwnDiscussions, SyncMixesFounded, OneCopyPerAccount
  <2>5. AuthorConfirmed' /\ WorkIsRegistered' /\ CreationIsNew'
    BY <2>1 DEF SyncInv, AuthorConfirmed, WorkIsRegistered, CreationIsNew
  <2> QED
    BY <2>3, <2>4, <2>5 DEF SyncInv
<1>3. ASSUME NEW m \in Mixes, ~mixes'[m].sync,
             \A n \in Mixes : n # m => mixes'[n] = mixes[n],
             UNCHANGED <<lien, tenus, forum, enCours, passe>>
      PROVE  SyncInv'
  <2>1. OnlyOwnDiscussions' /\ SyncMixesFounded' /\ OneCopyPerAccount'
    BY <1>3 DEF SyncInv, OnlyOwnDiscussions, SyncMixesFounded, OneCopyPerAccount
  <2>2. PseudosHeld' /\ AuthorConfirmed' /\ WorkIsRegistered' /\ CreationIsNew'
    BY <1>3 DEF SyncInv, PseudosHeld, AuthorConfirmed, WorkIsRegistered,
                CreationIsNew
  <2> QED
    BY <2>1, <2>2 DEF SyncInv
<1>4. ASSUME NEW u \in Users, NEW m \in Mixes, NEW r \in Refs,
             NEW d \in Discussions \cup {None}, CreerMain(u, m, r, d)
      PROVE  SyncInv'
  BY <1>3, <1>4 DEF CreerMain
<1>5. ASSUME NEW m \in Mixes, Supprimer(m) PROVE SyncInv'
  BY <1>0, <1>3, <1>5 DEF Supprimer
<1>51. ASSUME NEW m \in Mixes, NEW r \in Refs,
              NEW d \in Discussions \cup {None}, Modifier(m, r, d)
       PROVE  SyncInv'
  BY <1>3, <1>51 DEF Modifier
<1>6. ASSUME NEW k \in Passes, NEW m \in Mixes, CreateFromImport(k, m)
      PROVE  SyncInv'
  <2> DEFINE d == passe[k].disc
             u == passe[k].user
  <2>1. /\ passe[k].etape = "creer" /\ passe[k] \in EnVol
        /\ d \in Discussions /\ u \in Users /\ mixes[m] = Absent
    BY <1>6, PassInFlight DEF CreateFromImport, WorkHasObjects, Travail, Etapes
  <2>2. /\ mixes'[m].user = u /\ mixes'[m].ref = forum[d].lecteur
        /\ mixes'[m].page = d /\ mixes'[m].sync
        /\ \A n \in Mixes : n # m => mixes'[n] = mixes[n]
        /\ \A i \in Passes : i # k => passe'[i] = passe[i]
        /\ passe'[k] = Passer(passe[k])
        /\ UNCHANGED <<lien, tenus, forum, enCours>>
    BY <1>6 DEF CreateFromImport
  <2>3. /\ passe[k].pseudo # None /\ forum[d].auteur = passe[k].pseudo
        /\ <<u, passe[k].pseudo>> \in tenus /\ enCours[u] = k
        /\ forum[d].lecteur # None
        /\ \A n \in Mixes : mixes[n].sync /\ mixes[n].user = u =>
             mixes[n].page # d /\ mixes[n].ref # forum[d].lecteur
    BY <2>1 DEF SyncInv, AuthorConfirmed, PseudosHeld, WorkIsRegistered,
                CreationIsNew, Travail
  <2>4. /\ passe'[k].etape = "travail" /\ passe'[k].user = u
        /\ passe'[k].pseudo = passe[k].pseudo
        /\ passe'[k].comptes = passe[k].comptes
    BY <2>1, <2>2, AsideFields
  <2> HIDE DEF d, u
  <2>5. OnlyOwnDiscussions' /\ SyncMixesFounded'
    BY <2>1, <2>2, <2>3 DEF SyncInv, OnlyOwnDiscussions, SyncMixesFounded
  <2>6. OneCopyPerAccount'
    BY <2>1, <2>2, <2>3 DEF SyncInv, OneCopyPerAccount
  <2>7. PseudosHeld'
    <3>1. ASSUME NEW i \in Passes
          PROVE  /\ passe'[i].comptes = passe[i].comptes
                 /\ passe'[i].etape \in Travail /\ passe'[i].pseudo # None
                      => <<passe'[i].user, passe'[i].pseudo>> \in tenus
      BY <2>2, <2>3, <2>4 DEF SyncInv, PseudosHeld
    <3> QED
      BY <2>2, <3>1 DEF SyncInv, PseudosHeld
  <2>8. AuthorConfirmed' /\ WorkIsRegistered'
    BY <2>2, <2>3, <2>4 DEF SyncInv, AuthorConfirmed, WorkIsRegistered
  <2>9. CreationIsNew'
    <3>1. ASSUME NEW i \in Passes, passe'[i].etape \in {"second", "creer"}
          PROVE  /\ i # k /\ passe'[i] = passe[i]
                 /\ passe[i].etape = "creer" => passe[i].user # u
      BY <2>2, <2>3, <2>4, <3>1 DEF SyncInv, WorkIsRegistered, Travail
    <3>2. ASSUME NEW i \in Passes, passe'[i].etape = "creer", NEW n \in Mixes,
                 mixes'[n].sync, mixes'[n].user = passe'[i].user
          PROVE  /\ mixes'[n].page # passe'[i].disc
                 /\ mixes'[n].ref # forum'[passe'[i].disc].lecteur
      <4>1. n # m /\ mixes'[n] = mixes[n] /\ passe'[i] = passe[i]
        BY <2>2, <3>1, <3>2
      <4> QED
        BY <2>2, <3>2, <4>1 DEF SyncInv, CreationIsNew
    <3> QED
      BY <2>2, <3>1, <3>2 DEF SyncInv, CreationIsNew
  <2> QED
    BY <2>5, <2>6, <2>7, <2>8, <2>9 DEF SyncInv
<1> QED
  BY <1>1, <1>2, <1>4, <1>5, <1>51, <1>6 DEF Membre

\* Through every step, what the sync publishes under an account was written by
\* a forum member it was verified for, and is there once: the strengthening is
\* inductive.
THEOREM SyncSafe == Spec => []SyncInv
<1>0. /\ Libre.etape = "libre" /\ Libre.comptes = {}
      /\ Absent.sync = FALSE
  BY DEF Libre, Absent
<1>1. Init => SyncInv
  BY <1>0 DEF Init, SyncInv, OnlyOwnDiscussions, OneCopyPerAccount, PseudosHeld,
              AuthorConfirmed, WorkIsRegistered, CreationIsNew,
              SyncMixesFounded, Travail
<1>2. ASSUME TypeOK, WorkHasObjects, SyncInv, [Next]_vars PROVE SyncInv'
  <2> USE <1>2
  <2>1. ASSUME NEW k \in Passes, NEW s \in Sortes, Lancer(k, s) PROVE SyncInv'
    <3>1. /\ passe'[k].etape \in {"recentes", "comptes"}
          /\ passe'[k].comptes = {}
          /\ \A i \in Passes : i # k => passe'[i] = passe[i]
          /\ UNCHANGED <<lien, tenus, forum, mixes, enCours>>
      BY <2>1 DEF Lancer, Libre, TypeOK, liens
    <3>2. \A i \in Passes : passe[i].etape \in Travail => enCours[passe[i].user] = i
      BY DEF SyncInv, WorkIsRegistered
    <3> QED
      BY <3>1, <3>2, PassMoveKeeps DEF Travail
  <2>2. ASSUME NEW k \in Passes, Avancer(k), ~\E m \in Mixes : CreateFromImport(k, m)
        PROVE  SyncInv'
    <3>1. passe[k].etape \in Etapes
      BY <2>2 DEF Avancer, LireRecentes, LireComptes, FinPasse, Suivant, Lister,
                  EchecListe, PremierControle, EstBienDe, Importer,
                  SecondControle, Ecarter, FinTravail, Etapes, Travail
    <3>2. passe[k] \in EnVol
      BY <3>1, PassInFlight DEF TypeOK
    <3> QED
      BY <2>2, <3>2, ReadsKeep
  <2>3. ASSUME Membre \/ \E k \in Passes, m \in Mixes : CreateFromImport(k, m)
        PROVE  SyncInv'
    BY <2>3, WritesKeep
  <2>4. ASSUME Redemarrer PROVE SyncInv'
    <3>1. /\ \A k \in Passes : passe'[k] = Libre
          /\ UNCHANGED <<lien, tenus, forum, mixes>>
      BY <2>4 DEF Redemarrer
    <3>2. OnlyOwnDiscussions' /\ OneCopyPerAccount' /\ SyncMixesFounded'
      BY <3>1 DEF SyncInv, OnlyOwnDiscussions, OneCopyPerAccount, SyncMixesFounded
    <3>3. PseudosHeld'
      BY <1>0, <3>1 DEF SyncInv, PseudosHeld, Travail
    <3>4. AuthorConfirmed' /\ WorkIsRegistered' /\ CreationIsNew'
      BY <1>0, <3>1 DEF AuthorConfirmed, WorkIsRegistered, CreationIsNew, Travail
    <3> QED
      BY <3>2, <3>3, <3>4 DEF SyncInv
  <2>5. CASE UNCHANGED vars \/ \E s \in Sortes : Attendre(s)
    <3>1. UNCHANGED <<lien, tenus, forum, mixes, enCours, passe>>
      BY <2>5 DEF vars, Attendre, liens
    <3> QED
      BY <3>1 DEF SyncInv, OnlyOwnDiscussions, OneCopyPerAccount, PseudosHeld,
                  AuthorConfirmed, WorkIsRegistered, CreationIsNew,
                  SyncMixesFounded
  <2> QED
    BY <2>1, <2>2, <2>3, <2>4, <2>5 DEF Next
<1>3. QED
  BY <1>1, <1>2, SyncTypeOK, PTL DEF Spec

\* The two properties the runs check.
THEOREM SyncOwnAndOnce == Spec => [](OnlyOwnDiscussions /\ OneCopyPerAccount)
<1>1. SyncInv => OnlyOwnDiscussions /\ OneCopyPerAccount
  BY DEF SyncInv
<1> QED
  BY <1>1, SyncSafe, PTL

\* The first alone, as the runs name it: every mix a synchronisation leaves with
\* an account comes from a discussion opened under the pseudonym that account
\* had shown to be its own.
THEOREM SyncOwnOnly == Spec => []OnlyOwnDiscussions
<1>1. SyncInv => OnlyOwnDiscussions
  BY DEF SyncInv
<1> QED
  BY <1>1, SyncSafe, PTL
=============================================================================
