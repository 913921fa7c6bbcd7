-------------------------- MODULE DeploiementProofs --------------------------
(***************************************************************************)
(* What holds of a deployment and of the scripts that repair the base, for *)
(* every set of versions, mixes and objects, and wherever they are cut.    *)
(*                                                                         *)
(* SchemaFirst: what a version asks for is compared with the base once, at *)
(* the head of the script, and the directories are copied long after.  The *)
(* invariant carries that comparison to the copy: past "schema", the       *)
(* version pulled asks for nothing the base does not have (ChecksHold).    *)
(*                                                                         *)
(* OldestKeepsPlainAddress: a run that is cut has given some rows a number *)
(* and passed over others, whose update failed.  The invariant is that     *)
(* there is one numbering of the rows passed so far, each with the first   *)
(* number the older ones leave, which every run has followed (Suivie).     *)
(*                                                                         *)
(* RunLeavesThemDone: a row that was listed and not touched since is still *)
(* in the list with the source it had, or it has been done (PasOubliees);  *)
(* an object that is neither ahead nor counted has both headers.           *)
(***************************************************************************)
EXTENDS Deploiement, Slugs, Reprises, WellFoundedInduction, TLAPS

\* The directories and the lock each hold a version or nothing, so that a copy
\* changes the piece it names and no other.
DisqueOK == disque \in [Pieces -> Versions \cup {Absent}]

\* Past the comparison, what the pulled version asks for is in the base.
ChecksHold == rendu \notin {"", "schema"} => Demande[tiree] \subseteq base

DeploiementInv == tiree \in Versions /\ DisqueOK /\ ChecksHold /\ SchemaFirst

-----------------------------------------------------------------------------
\* What the base has is never taken away: the state of a version whose
\* migrations are there stays good whatever step comes (Migrer adds).
LEMMA BaseGrows == [DeploiementNext]_deploiementVars => base \subseteq base'
BY DEF DeploiementNext, deploiementVars, Tirer, ControlerSchema, Enlever, Recopier,
       CopierVerrou, ActiverNode, InstallerNpm, Redemarrer, Recharger, CouperScript, Migrer

\* A version whose migrations are in the base stays so.
LEMMA StaysServed ==
  ASSUME [DeploiementNext]_deploiementVars, NEW v, Demande[v] \subseteq base
  PROVE  Demande[v] \subseteq base'
BY BaseGrows

\* The initial state is good: one version everywhere, migrated.
LEMMA DeploiementInvInit == DeploiementInit => DeploiementInv
<1> SUFFICES ASSUME DeploiementInit PROVE DeploiementInv
    OBVIOUS
<1>1. tiree \in Versions /\ DisqueOK
    BY DeploiementAssumption DEF DeploiementInit, DisqueOK
<1>2. disque.generated = Depart /\ client = Depart /\ base = Demande[Depart] /\ tiree = Depart
    BY DEF DeploiementInit, Pieces, Repertoires
<1>3. ChecksHold /\ SchemaFirst
    BY <1>2 DEF ChecksHold, SchemaFirst
<1> QED BY <1>1, <1>3 DEF DeploiementInv

\* Each step of the script, of the process and of the person who migrates
\* keeps the invariant.
LEMMA DeploiementInvNext ==
  DeploiementInv /\ [DeploiementNext]_deploiementVars => DeploiementInv'
<1> SUFFICES ASSUME DeploiementInv, [DeploiementNext]_deploiementVars
             PROVE  DeploiementInv'
    OBVIOUS
<1>0. /\ tiree \in Versions /\ DisqueOK /\ ChecksHold /\ SchemaFirst
      /\ base \subseteq base'
    BY BaseGrows DEF DeploiementInv
<1>1. CASE \E v \in Versions : Tirer(v)
    BY <1>0, <1>1 DEF DeploiementInv, Tirer, DisqueOK, ChecksHold, SchemaFirst
<1>2. CASE ControlerSchema
  <2>1. UNCHANGED <<tiree, base, disque, client>>
      BY <1>2 DEF ControlerSchema
  <2>2. rendu' \notin {"", "schema"} => Demande[tiree] \subseteq base
      BY <1>2 DEF ControlerSchema, Manquantes
  <2> QED BY <1>0, <2>1, <2>2 DEF DeploiementInv, DisqueOK, ChecksHold, SchemaFirst
<1>3. CASE Enlever
  <2>1. disque' \in [Pieces -> Versions \cup {Absent}]
      BY <1>0, <1>3 DEF Enlever, DisqueOK
  <2>2. disque'.generated \in {disque.generated, Absent}
      BY <1>0, <1>3 DEF Enlever, DisqueOK, Pieces, Repertoires
  <2>3. ChecksHold' /\ SchemaFirst' /\ tiree' \in Versions
      BY <1>0, <1>3, <2>2 DEF Enlever, ChecksHold, SchemaFirst
  <2> QED BY <2>1, <2>3 DEF DeploiementInv, DisqueOK
<1>4. CASE Recopier
  <2>1. disque' \in [Pieces -> Versions \cup {Absent}]
      BY <1>0, <1>4 DEF Recopier, DisqueOK
  <2>2. disque'.generated \in {disque.generated, tiree}
      BY <1>0, <1>4 DEF Recopier, DisqueOK, Pieces, Repertoires
  <2>3. Demande[tiree] \subseteq base
      BY <1>0, <1>4 DEF Recopier, ChecksHold, Repertoires
  <2>4. ChecksHold' /\ SchemaFirst' /\ tiree' \in Versions
      BY <1>0, <1>4, <2>2, <2>3 DEF Recopier, ChecksHold, SchemaFirst
  <2> QED BY <2>1, <2>4 DEF DeploiementInv, DisqueOK
<1>5. CASE CopierVerrou
  <2>1. disque' \in [Pieces -> Versions \cup {Absent}]
      BY <1>0, <1>5 DEF CopierVerrou, DisqueOK
  <2>2. disque'.generated = disque.generated
      BY <1>0, <1>5 DEF CopierVerrou, DisqueOK, Pieces, Repertoires
  <2>3. ChecksHold' /\ SchemaFirst' /\ tiree' \in Versions
      BY <1>0, <1>5, <2>2 DEF CopierVerrou, ChecksHold, SchemaFirst
  <2> QED BY <2>1, <2>3 DEF DeploiementInv, DisqueOK
<1>6. CASE ActiverNode
    BY <1>0, <1>6 DEF DeploiementInv, ActiverNode, DisqueOK, ChecksHold, SchemaFirst
<1>7. CASE InstallerNpm
    BY <1>0, <1>7 DEF DeploiementInv, InstallerNpm, DisqueOK, ChecksHold, SchemaFirst
<1>8. CASE Redemarrer
    BY <1>0, <1>8 DEF DeploiementInv, Redemarrer, DisqueOK, ChecksHold, SchemaFirst
<1>9. CASE Recharger
    BY <1>0, <1>9 DEF DeploiementInv, Recharger, DisqueOK, ChecksHold, SchemaFirst
<1>10. CASE CouperScript
    BY <1>0, <1>10 DEF DeploiementInv, CouperScript, DisqueOK, ChecksHold, SchemaFirst
<1>11. CASE Migrer
    BY <1>0, <1>11 DEF DeploiementInv, Migrer, DisqueOK, ChecksHold, SchemaFirst
<1>12. CASE UNCHANGED deploiementVars
    BY <1>0, <1>12 DEF DeploiementInv, deploiementVars, DisqueOK, ChecksHold, SchemaFirst
<1> QED BY <1>1, <1>2, <1>3, <1>4, <1>5, <1>6, <1>7, <1>8, <1>9, <1>10, <1>11, <1>12
        DEF DeploiementNext

\* The files are never ahead of the base, whatever the script, the process and
\* the person who migrates do, in any order.
THEOREM SchemaFirstAlways == DeploiementSpec => []SchemaFirst
<1>1. DeploiementInv => SchemaFirst
    BY DEF DeploiementInv
<1> QED BY <1>1, DeploiementInvInit, DeploiementInvNext, PTL DEF DeploiementSpec

-----------------------------------------------------------------------------
\* A set of natural numbers that is not empty has a least one.
LEMMA HasLeast ==
  ASSUME NEW S, S \subseteq Nat, S # {}
  PROVE  \E x \in S : \A y \in S : x <= y
<1>1. PICK x \in S : \A y \in S : ~(<<y, x>> \in OpToRel(<, Nat))
    BY NatLessThanWellFounded, WFMin
<1>2. \A y \in S : ~(y < x)
    BY <1>1 DEF OpToRel
<1>3. \A y \in S : x <= y
    BY <1>2
<1> QED BY <1>3

-----------------------------------------------------------------------------
(* The addresses of old mixes                                              *)

\* Members have touched nothing since the column exists.
Tranquille == nees = {} /\ Anciennes \subseteq vivants \ retouches

\* The numbers given to the rows of D older than i.
AvantElle(i, D, N) == {N[x] : x \in {y \in D : y < i}}

\* n is the first number of the title t that pris leaves, where there is one.
Premier(n, t, pris) == n \in Libres(t, pris) /\ \A k \in Libres(t, pris) : n <= k

\* N serves the rows of D in their order, each with the first number the older
\* ones leave, 0 when they leave none: what one uninterrupted run would do.
Servies(N, D, t) ==
  /\ N \in [D -> Nat]
  /\ \A i \in D :
       \/ N[i] = 0 /\ Libres(t[i], AvantElle(i, D, N)) = {}
       \/ \E n \in 1..MaxEssais : /\ N[i] = Candidat(t[i], n)
                                  /\ Premier(n, t[i], AvantElle(i, D, N))

\* D holds every old row older than one of its own.
Ainees(D) == \A i \in D, x \in Anciennes : x < i => x \in D

\* A row has no slug, or the one of N.
SelonEux(N, D, s) == \A i \in Anciennes : s[i] = 0 \/ (i \in D /\ s[i] = N[i])

\* The old rows a run no longer has to do.
Faites(l, t) == {i \in Anciennes : <<i, t[i]>> \notin l}

\* A run that has rows left has old rows without a slug left; the others are in
\* D, and `pris` is what they were given, whether or not it reached the base.
ALaSuite(N, D, t, s, r) ==
  r.liste # {} =>
    /\ \A p \in r.liste : \E i \in Anciennes : p = <<i, t[i]>> /\ s[i] = 0
    /\ Faites(r.liste, t) \subseteq D
    /\ r.pris \ {0} = {N[i] : i \in Faites(r.liste, t)} \ {0}

\* There is a numbering that every run, cut or not, has followed so far.
Suivie(t, s, r) ==
  \E D \in SUBSET Anciennes : \E N \in [D -> Nat] :
    /\ Ainees(D) /\ Servies(N, D, t)
    /\ SelonEux(N, D, s) /\ ALaSuite(N, D, t, s, r)

\* What a creation holds: nothing, or a row that is not an old one.
CreationOK(c) == c = AucuneCreation \/ (c.ligne \in Lignes \ Anciennes /\ c.essai \in Int)

\* What the script remembers.
UneReprise == [liste : SUBSET (Lignes \X Titres), pris : SUBSET Nat]

SlugsTypes ==
  /\ titre \in [Lignes -> Titres] /\ slug \in [Lignes -> Nat]
  /\ nees \subseteq Lignes \ Anciennes /\ vivants \subseteq Anciennes \cup nees
  /\ \A h \in Createurs : CreationOK(creation[h])
  /\ DOMAIN creation = Createurs
  /\ reprise \in UneReprise

SlugsInv == SlugsTypes /\ (Tranquille => Suivie(titre, slug, reprise))

-----------------------------------------------------------------------------
\* A number of a title is a natural number, never 0, and grows with its rank.
LEMMA NumbersGrow ==
  ASSUME NEW t \in Titres, NEW m \in 1..MaxEssais, NEW n \in 1..MaxEssais
  PROVE  /\ Candidat(t, m) \in Nat \ {0}
         /\ Candidat(t, m) = Candidat(t, n) => m = n
         /\ m < n => Candidat(t, m) < Candidat(t, n)
<1>1. Base[t] \in Nat /\ Base[t] # 0 /\ MaxEssais \in Nat
    BY SlugsAssumption
<1> QED BY <1>1 DEF Candidat

\* The first number of a title is found where there is one, and it is one.
LEMMA FirstNumber ==
  ASSUME NEW t, NEW pris, Libres(t, pris) # {}
  PROVE  /\ \E n \in 1..MaxEssais : Premier(n, t, pris)
         /\ \A m, n : Premier(m, t, pris) /\ Premier(n, t, pris) => m = n
         /\ Premier(CHOOSE k \in Libres(t, pris) : \A j \in Libres(t, pris) : k <= j, t, pris)
<1>1. Libres(t, pris) \subseteq Nat /\ Libres(t, pris) \subseteq 1..MaxEssais
    BY SlugsAssumption DEF Libres
<1>2. PICK n \in Libres(t, pris) : \A k \in Libres(t, pris) : n <= k
    BY <1>1, HasLeast
<1>3. Premier(CHOOSE k \in Libres(t, pris) : \A j \in Libres(t, pris) : k <= j, t, pris)
    BY <1>2 DEF Premier
<1>4. \A a, b \in Nat : a <= b /\ b <= a => a = b
    OBVIOUS
<1>5. \A m, k : Premier(m, t, pris) /\ Premier(k, t, pris) => m = k
    BY <1>1, <1>4 DEF Premier
<1> QED BY <1>1, <1>2, <1>3, <1>5 DEF Premier

\* Taking 0 for a number, or not, changes nothing.
LEMMA SameFree ==
  ASSUME NEW t \in Titres, NEW p, NEW q, p \ {0} = q \ {0}
  PROVE  Libres(t, p) = Libres(t, q)
<1>1. \A n \in 1..MaxEssais : Candidat(t, n) # 0
    BY NumbersGrow
<1> QED BY <1>1 DEF Libres

\* No two rows are served one number.
LEMMA ServedApart ==
  ASSUME NEW D \in SUBSET Anciennes, NEW N, NEW t \in [Lignes -> Titres], Servies(N, D, t),
         NEW i \in D, NEW x \in D, x # i, N[i] # 0
  PROVE  N[x] # N[i]
<1>1. i \in Nat /\ x \in Nat /\ t[i] \in Titres /\ t[x] \in Titres
    BY SlugsAssumption
<1>2. CASE x < i
  <2>1. N[x] \in AvantElle(i, D, N)
      BY <1>2 DEF AvantElle
  <2>2. N[i] \notin AvantElle(i, D, N)
      BY DEF Servies, Premier, Libres
  <2> QED BY <2>1, <2>2
<1>3. CASE i < x
  <2>1. N[i] \in AvantElle(x, D, N)
      BY <1>3 DEF AvantElle
  <2>2. N[x] = 0 \/ N[x] \notin AvantElle(x, D, N)
      BY DEF Servies, Premier, Libres
  <2> QED BY <2>1, <2>2
<1> QED BY <1>1, <1>2, <1>3

\* Of two rows of one title that were served, the older has the smaller number.
LEMMA OlderIsSmaller ==
  ASSUME NEW D \in SUBSET Anciennes, NEW N, NEW t \in [Lignes -> Titres], Servies(N, D, t),
         NEW i \in D, NEW j \in D, i < j, t[i] = t[j], N[i] # 0, N[j] # 0
  PROVE  N[i] < N[j]
<1>0. i \in Nat /\ j \in Nat /\ t[i] \in Titres /\ i # j
    BY SlugsAssumption
<1>1. PICK m \in 1..MaxEssais : N[i] = Candidat(t[i], m) /\ Premier(m, t[i], AvantElle(i, D, N))
    BY DEF Servies
<1>2. PICK n \in 1..MaxEssais : N[j] = Candidat(t[i], n) /\ Premier(n, t[i], AvantElle(j, D, N))
    BY DEF Servies
<1>3. AvantElle(i, D, N) \subseteq AvantElle(j, D, N)
  <2>1. \A y \in D : y \in Nat
      BY SlugsAssumption
  <2>2. \A y \in D : y < i => y < j
      BY <2>1, <1>0
  <2> QED BY <2>2 DEF AvantElle
<1>4. n \in Libres(t[i], AvantElle(i, D, N))
    BY <1>2, <1>3 DEF Premier, Libres
<1>5. m <= n
    BY <1>1, <1>4 DEF Premier
<1>6. N[j] # N[i]
    BY <1>0, ServedApart
<1>7. m \in Nat /\ n \in Nat
    BY SlugsAssumption
<1>8. m < n
    BY <1>1, <1>2, <1>5, <1>6, <1>7
<1> QED BY <1>0, <1>1, <1>2, <1>8, NumbersGrow

-----------------------------------------------------------------------------
\* One row of a run (PoserSlug): the first number `pris` leaves is the one the
\* older rows leave, so that the numbering goes on.
LEMMA RowFollows ==
  ASSUME NEW t \in [Lignes -> Titres], NEW s \in [Lignes -> Nat], NEW r, NEW p \in r.liste,
         \A o \in r.liste : p[1] <= o[1],
         Suivie(t, s, r), NEW s2 \in [Lignes -> Nat], NEW r2, r2.liste = r.liste \ {p},
         NEW libres, libres = Libres(p[2], r.pris),
         libres = {} => s2 = s /\ r2.pris = r.pris,
         NEW n, libres # {} => Premier(n, p[2], r.pris),
         libres # {} =>
           /\ r2.pris = r.pris \cup {Candidat(p[2], n)}
           /\ s2 = s \/ s2 = [s EXCEPT ![p[1]] = Candidat(p[2], n)]
  PROVE  Suivie(t, s2, r2)
<1> DEFINE l == r.liste
<1>a. PICK D \in SUBSET Anciennes : \E N \in [D -> Nat] :
        Ainees(D) /\ Servies(N, D, t) /\ SelonEux(N, D, s) /\ ALaSuite(N, D, t, s, r)
    BY DEF Suivie
<1>0. PICK N \in [D -> Nat] :
        Ainees(D) /\ Servies(N, D, t) /\ SelonEux(N, D, s) /\ ALaSuite(N, D, t, s, r)
    BY <1>a
<1>1. PICK i \in Anciennes : p = <<i, t[i]>> /\ s[i] = 0
    BY <1>0 DEF ALaSuite
<1>2. p[1] = i /\ p[2] = t[i] /\ t[i] \in Titres /\ i \in Nat /\ i \in Lignes
    BY <1>1, SlugsAssumption
<1>3. \A o \in l : \E k \in Anciennes : o = <<k, t[k]>> /\ s[k] = 0
    BY <1>0 DEF ALaSuite
<1>4. /\ Faites(l, t) \subseteq D
      /\ r.pris \ {0} = {N[k] : k \in Faites(l, t)} \ {0}
    BY <1>0 DEF ALaSuite
<1>5. Faites(r2.liste, t) = Faites(l, t) \cup {i} /\ i \notin Faites(l, t)
    BY <1>1 DEF Faites
<1>6. \A x \in Anciennes : x \in Nat
    BY SlugsAssumption
<1>7. \A x \in Anciennes : x < i => x \in Faites(l, t)
  <2> SUFFICES ASSUME NEW x \in Anciennes, x < i, <<x, t[x]>> \in l PROVE FALSE
      BY DEF Faites
  <2>1. i <= x
      BY <1>2
  <2> QED BY <2>1, <1>6, <1>2
<1>8. AvantElle(i, D, N) \subseteq {N[k] : k \in Faites(l, t)}
    BY <1>7 DEF AvantElle
<1>9. \A o \in r2.liste : \E k \in Anciennes : o = <<k, t[k]>> /\ s[k] = 0 /\ k # i
    BY <1>3, <1>1
<1>10. \A k \in 1..MaxEssais : Candidat(t[i], k) \in Nat \ {0}
    BY <1>2, NumbersGrow
<1>b. /\ \A k \in Lignes : k # i => s2[k] = s[k]
      /\ s2[i] = s[i] \/ (libres # {} /\ s2[i] = Candidat(t[i], n))
    BY <1>2
<1>11. \A o \in r2.liste : \E k \in Anciennes : o = <<k, t[k]>> /\ s2[k] = 0
    BY <1>9, <1>b, SlugsAssumption
<1>c. {N[k] : k \in Faites(r2.liste, t)} = {N[k] : k \in Faites(l, t)} \cup {N[i]}
    BY <1>5
<1>12. libres \subseteq 1..MaxEssais
    BY DEF Libres
<1>13. libres # {} => Premier(n, t[i], r.pris) /\ n \in 1..MaxEssais
    BY <1>2, <1>12 DEF Premier
<1>14. CASE i \in D
  <2>1. libres \subseteq Libres(t[i], AvantElle(i, D, N))
    <3> SUFFICES ASSUME NEW k \in 1..MaxEssais, Candidat(t[i], k) \notin r.pris
                 PROVE  Candidat(t[i], k) \notin AvantElle(i, D, N)
        BY <1>2 DEF Libres
    <3> QED BY <1>4, <1>8, <1>10
  <2>2. CASE N[i] = 0 /\ Libres(t[i], AvantElle(i, D, N)) = {}
    <3>1. s2 = s /\ r2.pris = r.pris
        BY <2>1, <2>2
    <3>2. r2.pris \ {0} = {N[k] : k \in Faites(r2.liste, t)} \ {0}
        BY <3>1, <1>4, <1>c, <2>2
    <3>3. ALaSuite(N, D, t, s2, r2)
        BY <3>2, <1>11, <1>4, <1>5, <1>14 DEF ALaSuite
    <3> QED BY <3>1, <3>3, <1>0 DEF Suivie
  <2>3. ASSUME NEW m \in 1..MaxEssais, N[i] = Candidat(t[i], m),
               Premier(m, t[i], AvantElle(i, D, N))
        PROVE  Suivie(t, s2, r2)
    <3>1. N[i] # 0
        BY <2>3, <1>10
    <3>2. \A k \in Faites(l, t) : N[k] # N[i]
        BY <3>1, <1>0, <1>4, <1>5, <1>14, ServedApart
    <3>3. m \in libres
        BY <3>1, <3>2, <2>3, <1>2, <1>4 DEF Libres
    <3>4. Premier(m, t[i], r.pris)
        BY <3>3, <2>1, <2>3, <1>2 DEF Premier
    <3>5. n = m
        BY <3>3, <3>4, <1>13, <1>2, FirstNumber
    <3>6. /\ r2.pris = r.pris \cup {N[i]}
          /\ s2 = s \/ s2 = [s EXCEPT ![i] = N[i]]
        BY <3>3, <3>5, <2>3, <1>2
    <3>7. r2.pris \ {0} = {N[k] : k \in Faites(r2.liste, t)} \ {0}
        BY <3>6, <1>4, <1>c
    <3>8. ALaSuite(N, D, t, s2, r2)
        BY <3>7, <1>11, <1>4, <1>5, <1>14 DEF ALaSuite
    <3>9. SelonEux(N, D, s2)
        BY <1>b, <3>5, <2>3, <1>0, <1>14, <1>1, SlugsAssumption DEF SelonEux
    <3> QED BY <3>8, <3>9, <1>0 DEF Suivie
  <2> QED BY <2>2, <2>3, <1>14, <1>0 DEF Servies
<1>15. CASE i \notin D
  <2> DEFINE E == D \cup {i}
             nu == IF libres = {} THEN 0 ELSE Candidat(t[i], n)
             M == [x \in E |-> IF x = i THEN nu ELSE N[x]]
  <2>1. \A x \in D : x < i /\ x \in Faites(l, t)
    <3> SUFFICES ASSUME NEW x \in D PROVE x < i
        BY <1>7
    <3>1. ~(i < x) /\ x # i
        BY <1>0, <1>1, <1>15 DEF Ainees
    <3>2. x \in Nat
        BY <1>a, <1>6
    <3>3. \A b \in Nat : ~(i < b) /\ b # i => b < i
        BY <1>2
    <3> QED BY <3>1, <3>2, <3>3
  <2>2. Faites(l, t) = D
      BY <2>1, <1>4
  <2>3. nu \in Nat
      BY <1>10, <1>13
  <2>4. E \in SUBSET Anciennes /\ M \in [E -> Nat] /\ M[i] = nu /\ \A x \in D : M[x] = N[x]
      BY <2>3, <1>15
  <2> HIDE DEF M
  <2>5. \A x \in D : AvantElle(x, E, M) = AvantElle(x, D, N)
    <3> TAKE x \in D
    <3>1. ~(i < x)
        BY <2>1, <1>2, <1>6
    <3>2. {y \in E : y < x} = {y \in D : y < x}
        BY <3>1
    <3> QED BY <3>2, <2>4 DEF AvantElle
  <2>6. AvantElle(i, E, M) = {N[k] : k \in D}
    <3>1. {y \in E : y < i} = D
        BY <2>1, <1>2
    <3> QED BY <3>1, <2>4 DEF AvantElle
  <2>7. AvantElle(i, E, M) \ {0} = r.pris \ {0}
      BY <2>6, <2>2, <1>4
  <2>8. Libres(t[i], AvantElle(i, E, M)) = libres
    <3>1. Libres(t[i], r.pris) = libres
        BY <1>2
    <3> HIDE DEF E
    <3>2. Libres(t[i], AvantElle(i, E, M)) = Libres(t[i], r.pris)
        BY ONLY <2>7, <1>2, SameFree
    <3> QED BY <3>1, <3>2
  <2>9. \/ M[i] = 0 /\ Libres(t[i], AvantElle(i, E, M)) = {}
        \/ \E k \in 1..MaxEssais : M[i] = Candidat(t[i], k) /\ Premier(k, t[i], AvantElle(i, E, M))
    <3>1. CASE libres = {}
        BY <3>1, <2>8, <2>4
    <3>2. CASE libres # {}
      <4>1. Premier(n, t[i], AvantElle(i, E, M)) /\ M[i] = Candidat(t[i], n)
          BY <3>2, <1>13, <2>8, <2>4, <1>2 DEF Premier
      <4> QED BY <4>1, <3>2, <1>13
    <3> QED BY <3>1, <3>2
  <2>10. Servies(M, E, t)
    <3>1. \A x \in D :
            \/ M[x] = 0 /\ Libres(t[x], AvantElle(x, E, M)) = {}
            \/ \E k \in 1..MaxEssais : M[x] = Candidat(t[x], k) /\ Premier(k, t[x], AvantElle(x, E, M))
        BY <2>5, <2>4, <1>0 DEF Servies
    <3> QED BY <3>1, <2>9, <2>4 DEF Servies
  <2>11. Ainees(E)
    <3>1. \A x \in Anciennes : x < i => x \in D
        BY <1>7, <2>2
    <3> QED BY <3>1, <1>0 DEF Ainees
  <2>12. s2[i] \in {0, nu} /\ \A x \in Lignes : x # i => s2[x] = s[x]
      BY <1>1, <1>b
  <2>13. SelonEux(M, E, s2)
      BY <2>12, <2>4, <1>0, <1>2, SlugsAssumption DEF SelonEux
  <2>14. r2.pris \ {0} = {M[k] : k \in Faites(r2.liste, t)} \ {0}
    <3> HIDE DEF nu
    <3>4. {M[k] : k \in D \cup {i}} = {M[k] : k \in D} \cup {M[i]}
        OBVIOUS
    <3>5. {M[k] : k \in D} = {N[k] : k \in D}
        BY <2>4
    <3>1. {M[k] : k \in D \cup {i}} = {N[k] : k \in D} \cup {nu}
        BY <3>4, <3>5, <2>4
    <3>3. Faites(r2.liste, t) = D \cup {i}
        BY <2>2, <1>5
    <3>2. r2.pris \ {0} = (r.pris \cup {nu}) \ {0}
        BY <1>2 DEF nu
    <3> QED BY <3>1, <3>2, <3>3, <2>2, <1>4
  <2>15. ALaSuite(M, E, t, s2, r2)
      BY <2>14, <1>11, <1>5, <2>2 DEF ALaSuite
  <2> QED BY <2>4, <2>10, <2>11, <2>13, <2>15 DEF Suivie
<1> QED BY <1>14, <1>15

-----------------------------------------------------------------------------
\* Once members have touched something, they have.
LEMMA NoWayBack ==
  SlugsTypes /\ [SlugsNext]_slugsVars /\ Tranquille' => Tranquille
<1> SUFFICES ASSUME SlugsTypes, [SlugsNext]_slugsVars, Tranquille' PROVE Tranquille
    OBVIOUS
<1>1. ASSUME NEW h \in Createurs, InsererMix(h) PROVE Tranquille
  <2>1. creation[h].essai < 0
      BY <1>1 DEF InsererMix
  <2>2. creation[h].ligne \in Lignes \ Anciennes
      BY <2>1, <1>1 DEF SlugsTypes, CreationOK, AucuneCreation
  <2> QED BY <1>1, <2>2 DEF InsererMix, Tranquille
<1>2. ASSUME NEW h \in Createurs, NEW i \in Lignes, CommencerMix(h, i) PROVE Tranquille
    BY <1>2 DEF CommencerMix, Tranquille
<1>3. ASSUME NEW h \in Createurs, EssayerSlug(h) PROVE Tranquille
    BY <1>3 DEF EssayerSlug, Tranquille
<1>4. ASSUME NEW i \in Lignes, RetirerMix(i) PROVE Tranquille
    BY <1>4 DEF RetirerMix, Tranquille
<1>5. ASSUME NEW i \in Lignes, NEW t \in Titres, RenommerMix(i, t) PROVE Tranquille
    BY <1>5 DEF RenommerMix, Tranquille
<1>6. CASE LancerReprise \/ CouperReprise \/ FinReprise \/ Fermer
    BY <1>6 DEF LancerReprise, CouperReprise, FinReprise, Fermer, Tranquille
<1>7. ASSUME NEW p \in reprise.liste, PoserSlug(p) PROVE Tranquille
    BY <1>7 DEF PoserSlug, Tranquille
<1>8. CASE UNCHANGED slugsVars
    BY <1>8 DEF slugsVars, Tranquille
<1> QED BY <1>1, <1>2, <1>3, <1>4, <1>5, <1>6, <1>7, <1>8 DEF SlugsNext

\* A row served by hand or by a run has a number; so that slugs are numbers.
LEMMA SlugsTypesNext == SlugsTypes /\ [SlugsNext]_slugsVars => SlugsTypes'
<1> SUFFICES ASSUME SlugsTypes, [SlugsNext]_slugsVars PROVE SlugsTypes'
    OBVIOUS
<1> USE DEF SlugsTypes
<1>0. \A t \in Titres, n \in Int : Candidat(t, n) \in Int
    BY SlugsAssumption DEF Candidat
<1>1. ASSUME NEW h \in Createurs, InsererMix(h) PROVE SlugsTypes'
  <2>1. creation[h].essai < 0
      BY <1>1 DEF InsererMix
  <2>2. creation[h].ligne \in Lignes \ Anciennes /\ creation[h].essai \in Int
      BY <2>1, <1>1 DEF CreationOK, AucuneCreation
  <2>3. Candidat(titre[creation[h].ligne], -creation[h].essai) \in Nat
    <3>0. titre[creation[h].ligne] \in Titres
        BY <2>2
    <3>1. /\ Base[titre[creation[h].ligne]] \in Nat \ {0}
          /\ -creation[h].essai \in Nat \ {0}
        BY <3>0, <2>1, <2>2, SlugsAssumption
    <3> HIDE DEF SlugsTypes
    <3> QED BY <3>1 DEF Candidat
  <2>4. slug' \in [Lignes -> Nat]
      BY <1>1, <2>2, <2>3 DEF InsererMix
  <2>5. nees' \subseteq Lignes \ Anciennes /\ vivants' \subseteq Anciennes \cup nees'
      BY <1>1, <2>2 DEF InsererMix
  <2>6. \A k \in Createurs : CreationOK(creation'[k])
      BY <1>1 DEF InsererMix, CreationOK
  <2>7. DOMAIN creation' = Createurs /\ titre' = titre /\ reprise' = reprise
      BY <1>1 DEF InsererMix
  <2> QED BY <2>4, <2>5, <2>6, <2>7
<1>2. ASSUME NEW h \in Createurs, NEW i \in Lignes, CommencerMix(h, i) PROVE SlugsTypes'
  <2>1. i \in Lignes \ Anciennes
      BY <1>2 DEF CommencerMix
  <2> QED BY <1>2, <2>1 DEF CommencerMix, CreationOK
<1>3. ASSUME NEW h \in Createurs, EssayerSlug(h) PROVE SlugsTypes'
  <2>1. creation[h].essai \in 1..MaxEssais
      BY <1>3 DEF EssayerSlug
  <2>2. creation[h].essai \in Int /\ creation[h].ligne \in Lignes \ Anciennes
    <3>1. creation[h] # AucuneCreation
        BY <2>1, SlugsAssumption DEF AucuneCreation
    <3> QED BY <3>1, <2>1, SlugsAssumption DEF CreationOK
  <2>3. CreationOK([creation[h] EXCEPT !.essai = -creation[h].essai])
      BY <2>2 DEF CreationOK
  <2>4. CreationOK([creation[h] EXCEPT !.essai = creation[h].essai + 1])
      BY <2>2 DEF CreationOK
  <2>5. CreationOK(creation'[h]) /\ \A k \in Createurs : k # h => creation'[k] = creation[k]
      BY <1>3, <2>3, <2>4 DEF EssayerSlug, CreationOK
  <2> QED BY <1>3, <2>5 DEF EssayerSlug
<1>4. ASSUME NEW i \in Lignes, RetirerMix(i) PROVE SlugsTypes'
    BY <1>4 DEF RetirerMix
<1>5. ASSUME NEW i \in Lignes, NEW t \in Titres, RenommerMix(i, t) PROVE SlugsTypes'
    BY <1>5 DEF RenommerMix
<1>6. CASE LancerReprise \/ CouperReprise \/ FinReprise \/ Fermer
  <2>1. Arretee \in UneReprise
      BY DEF Arretee, UneReprise
  <2>2. Pris \in SUBSET Nat
    <3>1. \A i \in vivants : slug[i] \in Nat
        BY SlugsAssumption
    <3> QED BY <3>1 DEF Pris
  <2>3. {<<i, titre[i]>> : i \in {k \in vivants : slug[k] = 0}} \in SUBSET (Lignes \X Titres)
      BY SlugsAssumption
  <2>4. ASSUME LancerReprise PROVE reprise' \in UneReprise
      BY <2>4, <2>2, <2>3 DEF LancerReprise, UneReprise
  <2>5. reprise' \in UneReprise
      BY <1>6, <2>1, <2>4 DEF CouperReprise, FinReprise, Fermer
  <2> QED BY <1>6, <2>5 DEF LancerReprise, CouperReprise, FinReprise, Fermer
<1>7. ASSUME NEW p \in reprise.liste, PoserSlug(p) PROVE SlugsTypes'
  <2> DEFINE libres == Libres(p[2], reprise.pris)
             n == CHOOSE k \in libres : \A j \in libres : k <= j
  <2>1. p[1] \in Lignes /\ p[2] \in Titres
      BY DEF UneReprise
  <2>2. libres # {} => Candidat(p[2], n) \in Nat
    <3>1. libres # {} => n \in 1..MaxEssais
        BY FirstNumber DEF Premier, Libres
    <3> HIDE DEF n, libres
    <3> QED BY <3>1, <2>1, NumbersGrow
  <2> HIDE DEF n
  <2>3. slug' \in [Lignes -> Nat]
      BY <1>7, <2>1, <2>2 DEF PoserSlug, n
  <2>4. reprise' \in UneReprise
      BY <1>7, <2>2 DEF PoserSlug, n, UneReprise
  <2> QED BY <1>7, <2>3, <2>4 DEF PoserSlug
<1>8. CASE UNCHANGED slugsVars
    BY <1>8 DEF slugsVars
<1> QED BY <1>1, <1>2, <1>3, <1>4, <1>5, <1>6, <1>7, <1>8 DEF SlugsNext

-----------------------------------------------------------------------------
\* No row is numbered before the first run: the empty numbering will do.
LEMMA SlugsInvInit == SlugsInit => SlugsInv
<1> SUFFICES ASSUME SlugsInit PROVE SlugsInv
    OBVIOUS
<1>1. SlugsTypes
    BY DEF SlugsInit, SlugsTypes, CreationOK, UneReprise, Arretee
<1>2. \E D \in SUBSET Anciennes : \E N \in [D -> Nat] :
        /\ Ainees(D) /\ Servies(N, D, titre)
        /\ SelonEux(N, D, slug) /\ ALaSuite(N, D, titre, slug, reprise)
  <2> DEFINE N == [x \in {} |-> 0]
  <2>1. N \in [{} -> Nat]
      OBVIOUS
  <2>2. Ainees({}) /\ Servies(N, {}, titre)
      BY <2>1 DEF Ainees, Servies
  <2>3. SelonEux(N, {}, slug)
      BY SlugsAssumption DEF SlugsInit, SelonEux
  <2>4. ALaSuite(N, {}, titre, slug, reprise)
      BY DEF SlugsInit, Arretee, ALaSuite
  <2>5. {} \in SUBSET Anciennes
      OBVIOUS
  <2> QED BY <2>1, <2>2, <2>3, <2>4, <2>5
<1> QED BY <1>1, <1>2 DEF SlugsInv, Suivie

\* A run that begins has what the numbering gave so far in `pris`.
LEMMA RunBegins ==
  ASSUME SlugsTypes, Tranquille, Suivie(titre, slug, reprise), LancerReprise
  PROVE  Suivie(titre, slug, reprise')
<1>a. PICK D \in SUBSET Anciennes : \E N \in [D -> Nat] :
        /\ Ainees(D) /\ Servies(N, D, titre)
        /\ SelonEux(N, D, slug) /\ ALaSuite(N, D, titre, slug, reprise)
    BY DEF Suivie
<1>0. PICK N \in [D -> Nat] :
        /\ Ainees(D) /\ Servies(N, D, titre)
        /\ SelonEux(N, D, slug) /\ ALaSuite(N, D, titre, slug, reprise)
    BY <1>a
<1>1. vivants = Anciennes
    BY DEF SlugsTypes, Tranquille
<1>2. /\ reprise'.liste = {<<i, titre[i]>> : i \in {k \in Anciennes : slug[k] = 0}}
      /\ reprise'.pris = Pris
    BY <1>1 DEF LancerReprise
<1>3. Faites(reprise'.liste, titre) = {i \in Anciennes : slug[i] # 0}
    BY <1>2 DEF Faites
<1>4. \A i \in Anciennes : slug[i] # 0 => i \in D /\ slug[i] = N[i]
    BY <1>0 DEF SelonEux
<1>5. {slug[i] : i \in {k \in Anciennes : slug[k] # 0}} = {N[i] : i \in {k \in Anciennes : slug[k] # 0}}
    BY <1>4
<1>6. {slug[i] : i \in {k \in Anciennes : slug[k] # 0}} = {slug[i] : i \in Anciennes} \ {0}
    OBVIOUS
<1>7. reprise'.pris \ {0} = {N[i] : i \in Faites(reprise'.liste, titre)} \ {0}
    BY <1>1, <1>2, <1>3, <1>5, <1>6 DEF Pris
<1>8. ALaSuite(N, D, titre, slug, reprise')
    BY <1>2, <1>3, <1>4, <1>7 DEF ALaSuite
<1> QED BY <1>a, <1>0, <1>8 DEF Suivie

\* Every step of members and of the script keeps the numbering, as long as
\* members have touched nothing.
LEMMA SlugsInvNext == SlugsInv /\ [SlugsNext]_slugsVars => SlugsInv'
<1> SUFFICES ASSUME SlugsInv, [SlugsNext]_slugsVars, Tranquille'
             PROVE  Suivie(titre', slug', reprise')
    BY SlugsTypesNext DEF SlugsInv
<1>0. SlugsTypes /\ SlugsTypes' /\ Tranquille /\ Suivie(titre, slug, reprise)
    BY NoWayBack, SlugsTypesNext DEF SlugsInv
<1>1. ASSUME NEW h \in Createurs, InsererMix(h) PROVE Suivie(titre', slug', reprise')
    BY <1>1, <1>0 DEF InsererMix, Tranquille
<1>2. ASSUME NEW h \in Createurs, NEW i \in Lignes, CommencerMix(h, i)
      PROVE  Suivie(titre', slug', reprise')
    BY <1>2, <1>0 DEF CommencerMix
<1>3. ASSUME NEW h \in Createurs, EssayerSlug(h) PROVE Suivie(titre', slug', reprise')
    BY <1>3, <1>0 DEF EssayerSlug
<1>4. ASSUME NEW i \in Lignes, RetirerMix(i) PROVE Suivie(titre', slug', reprise')
    BY <1>4, <1>0 DEF RetirerMix
<1>5. ASSUME NEW i \in Lignes, NEW t \in Titres, RenommerMix(i, t)
      PROVE  Suivie(titre', slug', reprise')
  <2>1. i \in Anciennes
      BY <1>5, <1>0 DEF RenommerMix, SlugsTypes, Tranquille
  <2> QED BY <1>5, <2>1 DEF RenommerMix, Tranquille
<1>6. CASE LancerReprise
    BY <1>6, <1>0, RunBegins DEF LancerReprise
<1>7. CASE CouperReprise \/ FinReprise
  <2>1. reprise'.liste = {} /\ titre' = titre /\ slug' = slug
      BY <1>7 DEF CouperReprise, FinReprise, Arretee
  <2>2. \A N, D : ALaSuite(N, D, titre, slug, reprise')
      BY <2>1 DEF ALaSuite
  <2> QED BY <1>0, <2>1, <2>2 DEF Suivie
<1>8. CASE Fermer
    BY <1>8, <1>0 DEF Fermer
<1>9. ASSUME NEW p \in reprise.liste, PoserSlug(p) PROVE Suivie(titre', slug', reprise')
  <2> DEFINE libres == Libres(p[2], reprise.pris)
             n == CHOOSE k \in libres : \A j \in libres : k <= j
  <2>1. /\ titre \in [Lignes -> Titres] /\ slug \in [Lignes -> Nat]
        /\ slug' \in [Lignes -> Nat] /\ titre' = titre
      BY <1>9, <1>0 DEF SlugsTypes, PoserSlug
  <2>2. reprise \in UneReprise
      BY <1>0 DEF SlugsTypes
  <2>3. \A o \in reprise.liste : p[1] <= o[1]
      BY <1>9 DEF PoserSlug, Suivante
  <2>4. libres = {} => slug' = slug /\ reprise'.pris = reprise.pris
      BY <1>9, <2>2 DEF PoserSlug, UneReprise
  <2>5. reprise'.liste = reprise.liste \ {p}
      BY <1>9, <2>2 DEF PoserSlug, UneReprise
  <2>6. libres # {} => /\ reprise'.pris = reprise.pris \cup {Candidat(p[2], n)}
                       /\ slug' = slug \/ slug' = [slug EXCEPT ![p[1]] = Candidat(p[2], n)]
      BY <1>9 DEF PoserSlug
  <2>7. libres # {} => Premier(n, p[2], reprise.pris)
      BY FirstNumber
  <2>8. libres = Libres(p[2], reprise.pris)
      OBVIOUS
  <2> HIDE DEF libres, n
  <2> QED BY <2>1, <2>3, <2>4, <2>5, <2>6, <2>7, <2>8, <1>0, RowFollows
<1>10. CASE UNCHANGED slugsVars
    BY <1>10, <1>0 DEF slugsVars
<1> QED BY <1>1, <1>2, <1>3, <1>4, <1>5, <1>6, <1>7, <1>8, <1>9, <1>10 DEF SlugsNext

\* A numbering gives the older of two rows of one title the smaller number.
LEMMA SlugsInvSays == SlugsInv => OldestKeepsPlainAddress
<1> SUFFICES ASSUME SlugsInv, Tranquille, NEW i \in Anciennes, NEW j \in Anciennes,
                    i < j, titre[i] = titre[j], slug[i] # 0, slug[j] # 0
             PROVE  slug[i] < slug[j]
    BY DEF OldestKeepsPlainAddress, Tranquille
<1>1. titre \in [Lignes -> Titres]
    BY DEF SlugsInv, SlugsTypes
<1>2. PICK D \in SUBSET Anciennes : \E N \in [D -> Nat] :
        Servies(N, D, titre) /\ SelonEux(N, D, slug)
    BY DEF SlugsInv, Suivie
<1>3. PICK N \in [D -> Nat] : Servies(N, D, titre) /\ SelonEux(N, D, slug)
    BY <1>2
<1>4. i \in D /\ j \in D /\ slug[i] = N[i] /\ slug[j] = N[j]
    BY <1>3 DEF SelonEux
<1> QED BY <1>1, <1>2, <1>3, <1>4, OlderIsSmaller

\* The older of two old mixes of one title has the smaller number, for any
\* titles, any rows and any cuts of the script (backfill-slugs.ts).
THEOREM OldestKeepsPlainAddressAlways == SlugsSpec => []OldestKeepsPlainAddress
<1> QED BY SlugsInvInit, SlugsInvNext, SlugsInvSays, PTL DEF SlugsSpec

-----------------------------------------------------------------------------
(* What a finished script leaves                                           *)

\* What the page of the mix m is owed: nothing, the page of its source, or the
\* silence or the ignorance of the site.
Rendue(m, x, u) ==
  \/ x.page = Normale[x.ref]
  \/ x.page = Nulle /\ (m \in u \/ Voie[x.ref] = "aucune")

\* The row is listed with the source it has, and no page.
EnListe(m, x, p) == <<m, x.ref>> \in p.liste /\ x.page = Nulle

\* The row a run is at.
LaTete(p) == CHOOSE l \in p.liste : \A k \in p.liste : l[1] <= k[1]

\* What the first script remembers: one line per mix, with a page to write only
\* for the first of them.
ListeOK(p) ==
  /\ p.liste \in SUBSET (Reprenables \X Refs)
  /\ \A k, l \in p.liste : k[1] = l[1] => k = l

UnePasse ==
  [etat : {"repos", "cherche", "ecrit", "fini", "mort"}, ecrit : BOOLEAN,
   liste : SUBSET (Reprenables \X Refs), page : {Nulle} \cup {Normale[r] : r \in Refs},
   vues : SUBSET Reprenables]

PasseOK(p) ==
  /\ p \in UnePasse /\ ListeOK(p)
  /\ p.etat = "ecrit" => p.liste # {} /\ p.page = Normale[LaTete(p)[2]]
  /\ p.etat = "fini" => p.liste = {}

\* A row a run has listed and no member has touched is still to do, or it has
\* been done.
PasOubliees(p, x, t, u) ==
  p.etat # "repos" /\ p.ecrit =>
    \A m \in p.vues \ t :
      \/ EnListe(m, x[m], p)
      \/ Rendue(m, x[m], u) /\ \A l \in p.liste : l[1] # m

UnMix == [ref : Refs \cup {Nulle}, page : {Nulle} \cup {Normale[r] : r \in Refs}]

PassesInv ==
  /\ PasseOK(passe) /\ mixs \in [Reprenables -> UnMix \cup {Nulle}]
  /\ PasOubliees(passe, mixs, touches, muets)

\* The second: an object that is neither ahead nor counted as left has both
\* headers, and an object that has the first has the second.
UneTournee ==
  [etat : {"repos", "lit", "pose", "fini"}, ecrit : BOOLEAN, liste : SUBSET Rangees,
   vus : Nat, type : {"image", Nulle}]
UnObjet == [cache : BOOLEAN, type : {"image", Nulle}]
Habille(o) == o # Nulle => o.cache /\ o.type # Nulle

TourneesInv ==
  /\ tournee \in UneTournee
  /\ bucket \in [Rangees -> UnObjet \cup {Nulle}]
  /\ \A o \in Rangees : bucket[o] # Nulle /\ bucket[o].cache => bucket[o].type # Nulle
  /\ tournee.etat = "pose" => tournee.liste # {} /\ tournee.type # Nulle
  /\ tournee.etat = "fini" => tournee.liste \subseteq restes
  /\ tournee.etat # "repos" /\ tournee.ecrit =>
       \A o \in Rangees \ (restes \cup tournee.liste) : Habille(bucket[o])

ReprisesInv == PassesInv /\ TourneesInv

-----------------------------------------------------------------------------
\* The row a run is at is one of its list.
LEMMA HeadIsListed ==
  ASSUME NEW p, ListeOK(p), p.liste # {}
  PROVE  LaTete(p) \in p.liste
<1> DEFINE S == {l[1] : l \in p.liste}
<1>1. \A l \in p.liste : l[1] \in Nat
    BY ReprisesAssumption DEF ListeOK
<1>2. S \subseteq Nat /\ S # {}
    BY <1>1
<1>3. PICK x \in S : \A y \in S : x <= y
    BY <1>2, HasLeast
<1>4. PICK l \in p.liste : x = l[1]
    OBVIOUS
<1>5. \A k \in p.liste : l[1] <= k[1]
    BY <1>3, <1>4
<1> QED BY <1>5 DEF LaTete

LEMMA HeadHere == LaTete(passe) = Courante
BY DEF LaTete, Courante

\* Going on to the next row leaves a state the script may be in.
LEMMA NextRow ==
  ASSUME NEW p, PasseOK(p), p.liste # {}, NEW q,
         q = [p EXCEPT !.liste = @ \ {LaTete(p)}, !.page = Nulle, !.etat = "cherche"]
  PROVE  /\ PasseOK(q) /\ q.liste = p.liste \ {LaTete(p)}
         /\ q.vues = p.vues /\ q.ecrit = p.ecrit /\ q.etat = "cherche"
<1>1. p \in UnePasse
    BY DEF PasseOK
<1>2. /\ q.liste = p.liste \ {LaTete(p)} /\ q.vues = p.vues /\ q.ecrit = p.ecrit
      /\ q.etat = "cherche" /\ q.page = Nulle
    BY <1>1 DEF UnePasse
<1>3. q \in UnePasse
    BY <1>1 DEF UnePasse
<1> QED BY <1>2, <1>3 DEF PasseOK, ListeOK

\* What is owed to the others does not change when the head goes.
LEMMA OthersKept ==
  ASSUME NEW p, PasseOK(p), p.liste # {}, NEW q, NEW x, NEW y, NEW t, NEW u, NEW v,
         PasOubliees(p, x, t, u), p.etat # "repos",
         q.liste = p.liste \ {LaTete(p)}, q.vues = p.vues, q.ecrit = p.ecrit,
         u \subseteq v, \A m \in Reprenables : m # LaTete(p)[1] => y[m] = x[m],
         q.ecrit /\ EnListe(LaTete(p)[1], x[LaTete(p)[1]], p)
           => Rendue(LaTete(p)[1], y[LaTete(p)[1]], v)
  PROVE  PasOubliees(q, y, t, v)
<1> DEFINE h == LaTete(p)[1]
<1> SUFFICES ASSUME q.ecrit, NEW m \in q.vues \ t
             PROVE  \/ EnListe(m, y[m], q)
                    \/ Rendue(m, y[m], v) /\ \A l \in q.liste : l[1] # m
    BY DEF PasOubliees
<1>1. EnListe(m, x[m], p) \/ (Rendue(m, x[m], u) /\ \A l \in p.liste : l[1] # m)
    BY DEF PasOubliees
<1>0. LaTete(p) \in p.liste /\ \A l \in q.liste : l[1] # h
    BY HeadIsListed DEF PasseOK, ListeOK
<1>2. CASE m = h
    BY <1>0, <1>1, <1>2
<1>3. CASE m # h
  <2>1. m \in Reprenables /\ y[m] = x[m]
      BY <1>3 DEF PasseOK, UnePasse
  <2>2. Rendue(m, x[m], u) => Rendue(m, y[m], v)
      BY <2>1 DEF Rendue
  <2>3. <<m, x[m].ref>> # LaTete(p)
      BY <1>3
  <2>4. EnListe(m, x[m], p) => EnListe(m, y[m], q)
      BY <2>1, <2>3 DEF EnListe
  <2> QED BY <1>1, <2>2, <2>4
<1> QED BY <1>2, <1>3

-----------------------------------------------------------------------------
\* Each step of the first script, and of members, keeps what it owes.
LEMMA ListerKeeps ==
  ASSUME PassesInv, NEW e \in BOOLEAN, Lister(e) PROVE PassesInv'
<1>1. /\ passe'.etat = "cherche" /\ passe'.ecrit = e /\ passe'.page = Nulle
      /\ passe'.liste = {<<m, mixs[m].ref>> : m \in AReprendre} /\ passe'.vues = AReprendre
      /\ passe' = [etat |-> "cherche", ecrit |-> e, liste |-> passe'.liste, page |-> Nulle,
                   vues |-> AReprendre]
      /\ mixs' = mixs /\ muets' = {} /\ touches' = {}
    BY DEF Lister, PasseAuRepos
<1>2. \A m \in AReprendre : m \in Reprenables /\ mixs[m] \in UnMix /\ mixs[m].ref \in Refs
                            /\ mixs[m].page = Nulle
    BY DEF AReprendre, Present, PassesInv, UnMix
<1>3. passe'.liste \in SUBSET (Reprenables \X Refs) /\ AReprendre \in SUBSET Reprenables
    BY <1>1, <1>2
<1>4. passe' \in UnePasse
    BY <1>1, <1>3 DEF UnePasse
<1>5. ListeOK(passe')
    BY <1>1, <1>3 DEF ListeOK
<1>6. PasseOK(passe')
    BY <1>1, <1>4, <1>5 DEF PasseOK
<1>7. PasOubliees(passe', mixs, {}, {})
    BY <1>1, <1>2 DEF PasOubliees, EnListe
<1> QED BY <1>1, <1>6, <1>7 DEF PassesInv

LEMMA ChercherKeeps == PassesInv /\ ChercherPage => PassesInv'
<1> SUFFICES ASSUME PassesInv, ChercherPage PROVE PassesInv'
    OBVIOUS
<1> DEFINE h == LaTete(passe)
<1>1. /\ passe.etat = "cherche" /\ passe.liste # {} /\ mixs' = mixs /\ touches' = touches
      /\ Courante = h
    BY HeadHere DEF ChercherPage
<1>2. PasseOK(passe) /\ passe \in UnePasse /\ ListeOK(passe)
    BY DEF PassesInv, PasseOK
<1>3. h \in passe.liste /\ h[1] \in Reprenables /\ h[2] \in Refs
    BY <1>1, <1>2, HeadIsListed DEF ListeOK
<1>4. PICK repond \in BOOLEAN :
        /\ muets' = IF repond THEN muets ELSE muets \cup {h[1]}
        /\ passe' = IF repond /\ Voie[h[2]] # "aucune" /\ Trouvee(h[2]) # Nulle
                    THEN [passe EXCEPT !.page = Trouvee(h[2]), !.etat = "ecrit"] ELSE Suivre
    BY <1>1 DEF ChercherPage
<1>5. CASE passe' = [passe EXCEPT !.page = Normale[h[2]], !.etat = "ecrit"] /\ muets' = muets
  <2>1. /\ passe'.liste = passe.liste /\ passe'.vues = passe.vues /\ passe'.ecrit = passe.ecrit
        /\ passe'.etat = "ecrit" /\ passe'.page = Normale[h[2]]
      BY <1>5, <1>2 DEF UnePasse
  <2>2. passe' \in UnePasse
      BY <1>5, <1>2, <1>3 DEF UnePasse
  <2>3. LaTete(passe') = h
      BY <2>1 DEF LaTete
  <2>4. PasseOK(passe')
      BY <2>1, <2>2, <2>3, <1>1, <1>2 DEF PasseOK, ListeOK
  <2>5. PasOubliees(passe', mixs, touches, muets)
      BY <2>1, <1>1 DEF PassesInv, PasOubliees, EnListe
  <2> QED BY <2>4, <2>5, <1>1, <1>5 DEF PassesInv
<1>6. CASE /\ passe' = Suivre /\ muets \subseteq muets'
           /\ h[1] \in muets' \/ Voie[h[2]] = "aucune" \/ Normale[h[2]] = Nulle
  <2>1. /\ PasseOK(passe') /\ passe'.liste = passe.liste \ {h}
        /\ passe'.vues = passe.vues /\ passe'.ecrit = passe.ecrit /\ passe'.etat = "cherche"
      BY <1>1, <1>2, <1>6, NextRow DEF Suivre
  <2>2. EnListe(h[1], mixs[h[1]], passe) => Rendue(h[1], mixs[h[1]], muets')
    <3> SUFFICES ASSUME EnListe(h[1], mixs[h[1]], passe) PROVE Rendue(h[1], mixs[h[1]], muets')
        OBVIOUS
    <3>1. mixs[h[1]].ref = h[2]
      <4>1. h = <<h[1], mixs[h[1]].ref>>
          BY <1>2, <1>3 DEF EnListe, ListeOK
      <4> QED BY <4>1
    <3> QED BY <3>1, <1>6 DEF EnListe, Rendue
  <2>4. PasOubliees(passe, mixs, touches, muets)
      BY DEF PassesInv
  <2> HIDE DEF h
  <2>5. PasOubliees(passe', mixs, touches, muets')
      BY <2>1, <2>2, <2>4, <1>1, <1>2, <1>6, OthersKept DEF h
  <2> QED BY <2>1, <2>5, <1>1 DEF PassesInv
<1> QED BY <1>4, <1>5, <1>6 DEF Trouvee

LEMMA PoserKeeps == PassesInv /\ PoserPage => PassesInv'
<1> SUFFICES ASSUME PassesInv, PoserPage PROVE PassesInv'
    OBVIOUS
<1> DEFINE h == LaTete(passe)
<1>1. passe.etat = "ecrit" /\ muets' = muets /\ touches' = touches /\ Courante = h
    BY HeadHere DEF PoserPage
<1>2. /\ PasseOK(passe) /\ passe \in UnePasse /\ ListeOK(passe) /\ passe.liste # {}
      /\ passe.page = Normale[h[2]] /\ mixs \in [Reprenables -> UnMix \cup {Nulle}]
      /\ PasOubliees(passe, mixs, touches, muets)
    BY <1>1 DEF PassesInv, PasseOK
<1>3. h \in passe.liste /\ h[1] \in Reprenables /\ h[2] \in Refs
    BY <1>2, HeadIsListed DEF ListeOK
<1>4. CASE passe' = [passe EXCEPT !.etat = "mort"] /\ mixs' = mixs
  <2>1. /\ passe'.liste = passe.liste /\ passe'.vues = passe.vues /\ passe'.ecrit = passe.ecrit
        /\ passe'.etat = "mort" /\ passe' \in UnePasse
      BY <1>4, <1>2 DEF UnePasse
  <2>2. PasseOK(passe')
      BY <2>1, <1>2 DEF PasseOK, ListeOK
  <2>3. PasOubliees(passe', mixs, touches, muets)
      BY <2>1, <1>1, <1>2 DEF PasOubliees, EnListe
  <2> QED BY <2>2, <2>3, <1>1, <1>2, <1>4 DEF PassesInv
<1>5. CASE /\ passe' = Suivre
           /\ mixs' = IF passe.ecrit THEN [mixs EXCEPT ![h[1]].page = passe.page] ELSE mixs
           /\ passe.ecrit => Present(h[1])
  <2>1. /\ PasseOK(passe') /\ passe'.liste = passe.liste \ {h}
        /\ passe'.vues = passe.vues /\ passe'.ecrit = passe.ecrit /\ passe'.etat = "cherche"
      BY <1>1, <1>2, <1>5, NextRow DEF Suivre
  <2>2. passe.ecrit => /\ mixs'[h[1]] = [mixs[h[1]] EXCEPT !.page = passe.page]
                       /\ mixs[h[1]] \in UnMix
      BY <1>2, <1>3, <1>5 DEF Present
  <2>3. passe.ecrit => /\ mixs'[h[1]] \in UnMix /\ mixs'[h[1]].page = Normale[h[2]]
                       /\ mixs'[h[1]].ref = mixs[h[1]].ref
      BY <2>2, <1>2, <1>3 DEF UnMix
  <2>4. \A m \in Reprenables : m # h[1] => mixs'[m] = mixs[m]
      BY <1>2, <1>5
  <2>5. mixs' \in [Reprenables -> UnMix \cup {Nulle}]
    <3>1. DOMAIN mixs' = Reprenables /\ \A m \in Reprenables : mixs'[m] \in UnMix \cup {Nulle}
        BY <2>3, <2>4, <1>2, <1>5
    <3> QED BY <3>1, <1>5, <1>2
  <2>6. passe.ecrit /\ EnListe(h[1], mixs[h[1]], passe) => Rendue(h[1], mixs'[h[1]], muets)
    <3> SUFFICES ASSUME passe.ecrit, EnListe(h[1], mixs[h[1]], passe)
                 PROVE  Rendue(h[1], mixs'[h[1]], muets)
        OBVIOUS
    <3>1. mixs[h[1]].ref = h[2]
      <4>1. h = <<h[1], mixs[h[1]].ref>>
          BY <1>2, <1>3 DEF EnListe, ListeOK
      <4> QED BY <4>1
    <3> QED BY <3>1, <2>3 DEF Rendue
  <2> HIDE DEF h
  <2>7. PasOubliees(passe', mixs', touches, muets)
      BY <2>1, <2>4, <2>6, <1>1, <1>2, OthersKept DEF h
  <2> QED BY <2>1, <2>5, <2>7, <1>1 DEF PassesInv
<1> QED BY <1>1, <1>4, <1>5, HeadHere DEF PoserPage

LEMMA MembersKeep ==
  ASSUME PassesInv, NEW m \in Reprenables, ChangerMix(m) PROVE PassesInv'
<1>1. /\ passe' = passe /\ muets' = muets /\ touches' = touches \cup {m}
      /\ \E x \in UnMix \cup {Nulle} : mixs' = [mixs EXCEPT ![m] = x]
  <2>1. \A r \in Refs : \A p \in {Nulle, Normale[r]} : [ref |-> r, page |-> p] \in UnMix
      BY DEF UnMix
  <2>2. [ref |-> Nulle, page |-> Nulle] \in UnMix
      BY DEF UnMix
  <2> QED BY <2>1, <2>2 DEF ChangerMix
<1>2. mixs' \in [Reprenables -> UnMix \cup {Nulle}] /\ \A k \in Reprenables : k # m => mixs'[k] = mixs[k]
    BY <1>1 DEF PassesInv
<1>3. \A k \in passe.vues \ touches' : k \in passe.vues \ touches /\ mixs'[k] = mixs[k]
    BY <1>1, <1>2 DEF PassesInv, PasseOK, UnePasse
<1>4. PasOubliees(passe, mixs', touches', muets)
    BY <1>3 DEF PassesInv, PasOubliees
<1> QED BY <1>1, <1>2, <1>4 DEF PassesInv

LEMMA PassesInvNext == PassesInv /\ [ReprisesNext]_reprisesVars => PassesInv'
<1> SUFFICES ASSUME PassesInv, [ReprisesNext]_reprisesVars PROVE PassesInv'
    OBVIOUS
<1>0. passe \in UnePasse /\ PasseOK(passe) /\ PasOubliees(passe, mixs, touches, muets)
    BY DEF PassesInv, PasseOK
<1>1. ASSUME NEW q, q \in {"fini", "mort"}, q = "fini" => passe.liste = {},
             passe.etat # "repos", passe' = [passe EXCEPT !.etat = q],
             mixs' = mixs, touches' = touches, muets' = muets
      PROVE  PassesInv'
  <2>1. /\ passe'.liste = passe.liste /\ passe'.vues = passe.vues /\ passe'.ecrit = passe.ecrit
        /\ passe'.etat = q /\ passe' \in UnePasse
      BY <1>1, <1>0 DEF UnePasse
  <2>2. PasseOK(passe')
      BY <1>1, <2>1, <1>0 DEF PasseOK, ListeOK
  <2>3. PasOubliees(passe', mixs, touches, muets)
      BY <1>1, <2>1, <1>0 DEF PasOubliees, EnListe
  <2> QED BY <1>1, <2>2, <2>3 DEF PassesInv
<1>2. CASE UNCHANGED <<mixs, passe, muets, touches>>
    BY <1>2 DEF PassesInv
<1>3. CASE FinirPasse
    BY <1>3, <1>1 DEF FinirPasse
<1>4. CASE ArreterReprises
  <2>1. mixs' = mixs /\ touches' = touches /\ muets' = muets
      BY <1>4 DEF ArreterReprises
  <2>2. CASE passe.etat \in {"cherche", "ecrit"}
      BY <2>1, <2>2, <1>4, <1>1 DEF ArreterReprises
  <2>3. CASE passe.etat \notin {"cherche", "ecrit"}
    <3>1. passe' = passe
        BY <2>3, <1>4, <1>0 DEF ArreterReprises, UnePasse
    <3> QED BY <3>1, <2>1, <1>2
  <2> QED BY <2>2, <2>3
<1>5. CASE PagesReprisesNext
    BY <1>5, <1>3, ListerKeeps, ChercherKeeps, PoserKeeps, MembersKeep DEF PagesReprisesNext
<1>6. CASE CacheNext
  <2>1. UNCHANGED <<mixs, passe, muets, touches>>
      BY <1>6 DEF CacheNext, PartirEnTournee, LireEnTetes, PoserEnTete, FinirTournee, SupprimerObjet
  <2> QED BY <2>1, <1>2
<1> QED BY <1>2, <1>4, <1>5, <1>6 DEF ReprisesNext, reprisesVars

-----------------------------------------------------------------------------
\* The key the second script is at is one of its list.
LEMMA KeyIsListed ==
  ASSUME tournee \in UneTournee, tournee.liste # {} PROVE Cle \in tournee.liste
<1>1. tournee.liste \subseteq Nat
    BY ReprisesAssumption DEF UneTournee
<1>2. \E x \in tournee.liste : \A y \in tournee.liste : x <= y
    BY <1>1, HasLeast
<1> QED BY <1>2 DEF Cle, Min

\* The list goes down, what was there is dressed or counted.
LEMMA NextKey ==
  ASSUME TourneesInv, tournee.liste # {}, tournee.etat \in {"lit", "pose"},
         tournee' \in UneTournee,
         tournee'.etat = "lit", tournee'.ecrit = tournee.ecrit,
         tournee'.liste = tournee.liste \ {Cle},
         bucket' \in [Rangees -> UnObjet \cup {Nulle}],
         \A o \in Rangees : o # Cle => bucket'[o] = bucket[o],
         bucket'[Cle] # Nulle /\ bucket'[Cle].cache => bucket'[Cle].type # Nulle,
         restes \subseteq restes',
         tournee.ecrit => Cle \in restes' \/ Habille(bucket'[Cle])
  PROVE  TourneesInv'
<1>1. \A o \in Rangees : bucket'[o] # Nulle /\ bucket'[o].cache => bucket'[o].type # Nulle
    BY DEF TourneesInv
<1>2. ASSUME tournee'.ecrit, NEW o \in Rangees \ (restes' \cup tournee'.liste)
      PROVE  Habille(bucket'[o])
  <2>1. CASE o = Cle
      BY <1>2, <2>1
  <2>2. CASE o # Cle
      BY <1>2, <2>2 DEF TourneesInv
  <2> QED BY <2>1, <2>2
<1> QED BY <1>1, <1>2 DEF TourneesInv

LEMMA PartirKeeps ==
  ASSUME TourneesInv, NEW e \in BOOLEAN, PartirEnTournee(e) PROVE TourneesInv'
<1>1. /\ tournee' = [etat |-> "lit", ecrit |-> e, liste |-> {o \in Rangees : bucket[o] # Nulle},
                     vus |-> 0, type |-> Nulle]
      /\ bucket' = bucket /\ restes' = {}
    BY DEF PartirEnTournee, TourneeAuRepos
<1>2. tournee' \in UneTournee
    BY <1>1 DEF UneTournee
<1>3. tournee'.liste = {o \in Rangees : bucket[o] # Nulle} /\ tournee'.etat = "lit"
    BY <1>1
<1> QED BY <1>1, <1>2, <1>3 DEF TourneesInv, Habille

LEMMA LireKeeps == TourneesInv /\ LireEnTetes => TourneesInv'
<1> SUFFICES ASSUME TourneesInv, LireEnTetes PROVE TourneesInv'
    OBVIOUS
<1>1. /\ tournee.etat = "lit" /\ tournee.liste # {} /\ bucket' = bucket
      /\ tournee \in UneTournee /\ bucket \in [Rangees -> UnObjet \cup {Nulle}]
      /\ tournee.vus \in Nat
    BY DEF LireEnTetes, TourneesInv, UneTournee
<1>2. Cle \in tournee.liste /\ Cle \in Rangees
    BY <1>1, KeyIsListed DEF UneTournee
<1>3. ASSUME tournee' = [SuivreCle EXCEPT !.vus = tournee.vus + 1], restes \subseteq restes',
             Cle \in restes' \/ Habille(bucket[Cle])
      PROVE  TourneesInv'
  <2>1. /\ tournee' = [tournee EXCEPT !.liste = tournee.liste \ {Cle}, !.etat = "lit",
                                      !.type = Nulle, !.vus = tournee.vus + 1]
      BY <1>1, <1>3 DEF SuivreCle, UneTournee
  <2>2. /\ tournee'.etat = "lit" /\ tournee'.ecrit = tournee.ecrit
        /\ tournee'.liste = tournee.liste \ {Cle}
      BY <2>1, <1>1 DEF UneTournee
  <2>3. tournee' \in UneTournee
    <3>1. \A n \in Nat : [tournee EXCEPT !.liste = tournee.liste \ {Cle}, !.etat = "lit",
                                          !.type = Nulle, !.vus = n] \in UneTournee
        BY <1>1 DEF UneTournee
    <3>2. tournee.vus + 1 \in Nat
        BY <1>1
    <3> QED BY <3>1, <3>2, <2>1
  <2> QED BY <2>2, <2>3, <1>1, <1>2, <1>3, NextKey DEF TourneesInv
<1>4. CASE /\ bucket[Cle] # Nulle /\ ~bucket[Cle].cache /\ bucket[Cle].type # Nulle /\ restes' = restes
           /\ tournee' = [tournee EXCEPT !.etat = "pose", !.type = bucket[Cle].type,
                                         !.vus = tournee.vus + 1]
  <2>1. /\ tournee'.etat = "pose" /\ tournee'.ecrit = tournee.ecrit
        /\ tournee'.liste = tournee.liste /\ tournee'.type # Nulle
      BY <1>1, <1>4 DEF UneTournee
  <2>0. bucket[Cle].type \in {"image", Nulle}
      BY <1>1, <1>2, <1>4 DEF UnObjet
  <2>2. tournee' \in UneTournee
    <3>1. \A n \in Nat, t \in {"image", Nulle} :
            [tournee EXCEPT !.etat = "pose", !.type = t, !.vus = n] \in UneTournee
        BY <1>1 DEF UneTournee
    <3>2. tournee.vus + 1 \in Nat
        BY <1>1
    <3> QED BY <3>1, <3>2, <2>0, <1>4
  <2> QED BY <2>1, <2>2, <1>1, <1>4 DEF TourneesInv
<1>5. bucket[Cle] # Nulle /\ bucket[Cle].cache => Habille(bucket[Cle])
    BY <1>2 DEF TourneesInv, Habille
<1> QED BY <1>1, <1>3, <1>4, <1>5 DEF LireEnTetes, SuivreCle, UneTournee

LEMMA PoserEnTeteKeeps == TourneesInv /\ PoserEnTete => TourneesInv'
<1> SUFFICES ASSUME TourneesInv, PoserEnTete PROVE TourneesInv'
    OBVIOUS
<1>1. /\ tournee.etat = "pose" /\ tournee.liste # {} /\ tournee.type # Nulle
      /\ tournee \in UneTournee /\ bucket \in [Rangees -> UnObjet \cup {Nulle}]
      /\ tournee' = [tournee EXCEPT !.liste = tournee.liste \ {Cle}, !.etat = "lit", !.type = Nulle]
    BY DEF PoserEnTete, TourneesInv, SuivreCle, UneTournee
<1>2. Cle \in tournee.liste /\ Cle \in Rangees /\ tournee.type \in {"image", Nulle}
    BY <1>1, KeyIsListed DEF UneTournee
<1>3. /\ tournee'.etat = "lit" /\ tournee'.ecrit = tournee.ecrit
      /\ tournee'.liste = tournee.liste \ {Cle}
    BY <1>1 DEF UneTournee
<1>4. tournee' \in UneTournee
    BY <1>1 DEF UneTournee
<1>5. ASSUME bucket' = bucket, restes \subseteq restes', tournee.ecrit => Cle \in restes'
      PROVE  TourneesInv'
    BY <1>1, <1>2, <1>3, <1>4, <1>5, NextKey DEF TourneesInv
<1>6. ASSUME bucket' = [bucket EXCEPT ![Cle] = AvecCache(bucket[Cle])], restes' = restes
      PROVE  TourneesInv'
  <2>1. AvecCache(bucket[Cle]) \in UnObjet /\ AvecCache(bucket[Cle]).type # Nulle
        /\ AvecCache(bucket[Cle]).cache
      BY <1>1, <1>2 DEF AvecCache, UnObjet
  <2> HIDE DEF AvecCache
  <2>2. bucket'[Cle] = AvecCache(bucket[Cle]) /\ \A o \in Rangees : o # Cle => bucket'[o] = bucket[o]
      BY <1>1, <1>2, <1>6
  <2>3. bucket' \in [Rangees -> UnObjet \cup {Nulle}]
      BY <1>1, <1>2, <1>6, <2>1
  <2>4. Habille(bucket'[Cle]) /\ bucket'[Cle].type # Nulle
      BY <2>1, <2>2 DEF Habille
  <2> QED BY <2>2, <2>3, <2>4, <1>1, <1>3, <1>4, <1>6, NextKey DEF TourneesInv
<1> QED BY <1>1, <1>5, <1>6 DEF PoserEnTete

LEMMA TourneesInvNext == TourneesInv /\ [ReprisesNext]_reprisesVars => TourneesInv'
<1> SUFFICES ASSUME TourneesInv, [ReprisesNext]_reprisesVars PROVE TourneesInv'
    OBVIOUS
<1>0. tournee \in UneTournee
    BY DEF TourneesInv
<1>1. CASE UNCHANGED <<tournee, bucket, restes>>
    BY <1>1 DEF TourneesInv
<1>2. CASE PagesReprisesNext
  <2>1. UNCHANGED <<tournee, bucket, restes>>
      BY <1>2 DEF PagesReprisesNext, Lister, ChercherPage, PoserPage, FinirPasse, ChangerMix
  <2> QED BY <2>1, <1>1
<1>3. CASE FinirTournee
  <2>1. tournee' = [tournee EXCEPT !.etat = "fini"] /\ restes' = restes \cup tournee.liste
        /\ bucket' = bucket /\ tournee.etat = "lit"
      BY <1>3 DEF FinirTournee
  <2>2. /\ tournee'.etat = "fini" /\ tournee'.ecrit = tournee.ecrit
        /\ tournee'.liste = tournee.liste /\ tournee' \in UneTournee
      BY <2>1, <1>0 DEF UneTournee
  <2> QED BY <2>1, <2>2 DEF TourneesInv
<1>4. ASSUME NEW o \in Rangees, SupprimerObjet(o) PROVE TourneesInv'
  <2>1. bucket' = [bucket EXCEPT ![o] = Nulle] /\ tournee' = tournee /\ restes' = restes
      BY <1>4 DEF SupprimerObjet
  <2>2. /\ bucket' \in [Rangees -> UnObjet \cup {Nulle}] /\ bucket'[o] = Nulle
        /\ \A k \in Rangees : k # o => bucket'[k] = bucket[k]
      BY <2>1 DEF TourneesInv
  <2>3. \A k \in Rangees : Habille(bucket[k]) => Habille(bucket'[k])
      BY <2>2 DEF Habille
  <2>4. \A k \in Rangees : bucket'[k] # Nulle /\ bucket'[k].cache => bucket'[k].type # Nulle
      BY <2>2 DEF TourneesInv
  <2> QED BY <2>1, <2>2, <2>3, <2>4 DEF TourneesInv
<1>5. CASE CacheNext
    BY <1>5, <1>3, <1>4, PartirKeeps, LireKeeps, PoserEnTeteKeeps DEF CacheNext
<1>6. CASE ArreterReprises
  <2>1. restes' = restes /\ bucket' = bucket
      BY <1>6 DEF ArreterReprises
  <2>2. CASE tournee.etat \in {"lit", "pose"}
    <3>1. tournee' = [tournee EXCEPT !.etat = "repos"]
        BY <2>2, <1>6 DEF ArreterReprises
    <3>2. tournee'.etat = "repos" /\ tournee' \in UneTournee
        BY <3>1, <1>0 DEF UneTournee
    <3> QED BY <3>2, <2>1 DEF TourneesInv
  <2>3. CASE tournee.etat \notin {"lit", "pose"}
    <3>1. tournee' = tournee
        BY <2>3, <1>6, <1>0 DEF ArreterReprises, UneTournee
    <3> QED BY <3>1, <2>1, <1>1
  <2> QED BY <2>2, <2>3
<1> QED BY <1>1, <1>2, <1>5, <1>6 DEF ReprisesNext, reprisesVars

-----------------------------------------------------------------------------
\* Nothing has been run.
LEMMA ReprisesInvInit == ReprisesInit => ReprisesInv
<1> SUFFICES ASSUME ReprisesInit PROVE ReprisesInv
    OBVIOUS
<1>1. passe.etat = "repos" /\ PasseOK(passe)
    BY DEF ReprisesInit, PasseAuRepos, PasseOK, UnePasse, ListeOK
<1>2. mixs \in [Reprenables -> UnMix \cup {Nulle}]
    BY DEF ReprisesInit, UnMix
<1>3. PassesInv
    BY <1>1, <1>2 DEF PassesInv, PasOubliees
<1>4. tournee.etat = "repos" /\ tournee \in UneTournee
    BY DEF ReprisesInit, TourneeAuRepos, UneTournee
<1>5. [cache |-> TRUE, type |-> "image"] \in UnObjet /\ [cache : {FALSE}, type : {"image", Nulle}] \subseteq UnObjet
    BY DEF UnObjet
<1>6. \A o \in Rangees : bucket[o] \in UnObjet /\ (bucket[o].cache => bucket[o].type # Nulle)
  <2> TAKE o \in Rangees
  <2>1. \/ bucket[o] \in [cache : {FALSE}, type : {"image", Nulle}]
        \/ bucket[o] = [cache |-> TRUE, type |-> "image"]
      BY DEF ReprisesInit
  <2>2. CASE bucket[o] \in [cache : {FALSE}, type : {"image", Nulle}]
    <3>1. ~bucket[o].cache
        BY <2>2
    <3> QED BY <3>1, <2>2, <1>5
  <2>3. CASE bucket[o] = [cache |-> TRUE, type |-> "image"]
    <3>1. bucket[o].type = "image"
        BY <2>3
    <3> QED BY <3>1, <2>3, <1>5, ReprisesAssumption
  <2> QED BY <2>1, <2>2, <2>3
<1>7. bucket \in [Rangees -> UnObjet \cup {Nulle}]
    BY <1>5 DEF ReprisesInit
<1> QED BY <1>3, <1>4, <1>6, <1>7 DEF ReprisesInv, TourneesInv

\* At the end nothing is left in the lists.
LEMMA ReprisesInvSays == ReprisesInv => RunLeavesThemDone
<1> SUFFICES ASSUME ReprisesInv PROVE RunLeavesThemDone
    OBVIOUS
<1>1. ASSUME passe.etat = "fini", passe.ecrit, NEW m \in passe.vues \ touches
      PROVE  Rendue(m, mixs[m], muets)
    BY <1>1 DEF ReprisesInv, PassesInv, PasseOK, PasOubliees, EnListe
<1>2. ASSUME tournee.etat = "fini", tournee.ecrit, NEW o \in Rangees \ restes
      PROVE  Habille(bucket[o])
    BY <1>2 DEF ReprisesInv, TourneesInv
<1> QED BY <1>1, <1>2 DEF RunLeavesThemDone, Rendue, Habille

\* What the two scripts leave undone when they reach their end is what a member
\* changed, what they counted and what no site knows, for any rows, any objects
\* and any cuts (backfill-source-page-urls.ts, backfill-cache-control.ts).
THEOREM RunLeavesThemDoneAlways == ReprisesSpec => []RunLeavesThemDone
<1>1. ReprisesInv /\ [ReprisesNext]_reprisesVars => ReprisesInv'
    BY PassesInvNext, TourneesInvNext DEF ReprisesInv
<1> QED BY <1>1, ReprisesInvInit, ReprisesInvSays, PTL DEF ReprisesSpec
=============================================================================
