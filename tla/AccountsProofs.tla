----------------------------- MODULE AccountsProofs -----------------------------
(***************************************************************************)
(* Proofs about Accounts, for any number of people, spellings, identities, *)
(* accounts and handlers.                                                  *)
(***************************************************************************)
EXTENDS Accounts, TLAPS

-----------------------------------------------------------------------------
(* Types                                                                   *)

\* A handler that will insert a row knows the address of it, and one that
\* deals with an identity knows which.
Filled(q) ==
  /\ q.etape \in {"nom", "inscrire", "adresse", "creer"} => q.adresse # None
  /\ q.etape \in {"adresse", "creer", "lier"} => q.emetteur # None /\ q.sujet # None

HandlersFilled == \A r \in Requetes : Filled(requete[r])

TypeInv == TypeOK /\ HandlersFilled

\* A handler whose step is one of the working ones is in flight.
LEMMA HandlerInFlight ==
  ASSUME NEW q \in {Libre} \cup EnVol, q.etape \in Etapes
  PROVE  q \in EnVol
BY DEF Etapes, Libre

\* What each handler starts with is a record of a handler in flight.
LEMMA HandlerStarts ==
  ASSUME NEW p \in Personnes, NEW u \in Comptes, NEW a \in Adresses,
         NEW n \in Pseudonymes, NEW s \in Secrets, NEW e \in Emetteurs,
         NEW j \in Sujets, NEW b \in BOOLEAN, NEW V \in SUBSET Comptes
  PROVE  /\ [Libre EXCEPT !.etape = "nom", !.qui = p, !.adresse = a,
               !.nom = n, !.secret = s, !.vus = V] \in EnVol
         /\ [Libre EXCEPT !.etape = "adresse", !.qui = p, !.adresse = a,
               !.emetteur = e, !.sujet = j, !.verifie = b] \in EnVol
         /\ [Libre EXCEPT !.etape = "lier", !.qui = p, !.compte = u,
               !.emetteur = e, !.sujet = j] \in EnVol
         /\ [Libre EXCEPT !.etape = "choisir", !.qui = p, !.compte = u,
               !.nom = n] \in EnVol
         /\ [Libre EXCEPT !.etape = "secret", !.qui = p, !.compte = u,
               !.secret = s] \in EnVol
BY DEF EnVol, Libre, Etapes

\* Going on after a lookup keeps the type of the record.
LEMMA HandlerMoves ==
  ASSUME NEW q \in EnVol, NEW e \in Etapes, NEW V \in SUBSET Comptes
  PROVE  /\ [q EXCEPT !.etape = e, !.vus = V] \in EnVol
         /\ [q EXCEPT !.etape = e, !.vusNommes = V] \in EnVol
BY DEF EnVol

\* The rows the three kinds of handlers write are rows.
LEMMA RowsBuilt ==
  ASSUME NEW a \in Adresses, NEW n \in Pseudonymes \cup {None},
         NEW s \in Secrets \cup {None}, NEW j \in Sujets \cup {None}, NEW e
  PROVE  /\ [Absent EXCEPT !.adresse = a, !.nom = n, !.secret = s] \in Row
         /\ [Absent EXCEPT !.adresse = a, !.sujet[e] = j] \in Row
BY DEF Row, Absent

\* Writing one column of a row keeps its type.
LEMMA RowUpdates ==
  ASSUME NEW l \in Row, NEW n \in Pseudonymes \cup {None},
         NEW s \in Secrets \cup {None}, NEW j \in Sujets \cup {None}, NEW e
  PROVE  /\ [l EXCEPT !.nom = n] \in Row
         /\ [l EXCEPT !.secret = s] \in Row
         /\ [l EXCEPT !.sujet[e] = j] \in Row
BY DEF Row

\* A row of the table is a Row, and the absence of a row is none.
LEMMA RowsArePresent ==
  /\ Absent \notin Row
  /\ TypeOK => \A u \in Comptes : (u \in Vivants <=> compte[u] \in Row)
BY NoneAssumption DEF TypeOK, Vivants, Row, Absent, Adresses

\* A handler that goes on changes nothing but its record.
LEMMA ContinuerTypes ==
  ASSUME TypeInv, NEW r \in Requetes, NEW q \in {Libre} \cup EnVol,
         Filled(q), Continuer(r, q)
  PROVE  TypeInv'
<1>1. TypeOK'
  BY DEF TypeInv, TypeOK, Continuer, histoire
<1>2. HandlersFilled'
  BY DEF TypeInv, TypeOK, HandlersFilled, Continuer
<1> QED
  BY <1>1, <1>2 DEF TypeInv

\* So does a handler that ends, and whatever leaves the table alone.
LEMMA LibreIsNoStep == Libre.etape \notin Etapes /\ Filled(Libre)
BY DEF Libre, Etapes, Filled

\* An insertion keeps the types of the table and of the history.
LEMMA CreerTypes ==
  ASSUME TypeInv, NEW r \in Requetes, requete[r] \in EnVol, NEW ligne \in Row,
         Creer(r, ligne)
  PROVE  TypeInv'
<1>1. /\ requete[r].qui \in Personnes
      /\ requete[r].vus \in SUBSET Comptes /\ requete[r].vusNommes \in SUBSET Comptes
  BY DEF EnVol
<1>2. \A e \in Emetteurs : ligne.sujet[e] \in Sujets \cup {None}
  BY DEF Row
<1>3. requete' = [requete EXCEPT ![r] = Libre]
  BY DEF Creer
<1>4. TypeOK'
  BY <1>1, <1>2, <1>3 DEF Creer, TypeInv, TypeOK
<1>5. HandlersFilled'
  BY <1>3, LibreIsNoStep DEF TypeInv, TypeOK, HandlersFilled, Etapes
<1> QED
  BY <1>4, <1>5 DEF TypeInv

\* So is the end of a handler, or a step that concerns none.
LEMMA HandlerEnds ==
  ASSUME TypeInv, NEW r \in Requetes,
         requete' = requete \/ requete' = [requete EXCEPT ![r] = Libre]
  PROVE  /\ HandlersFilled'
         /\ requete' \in [Requetes -> {Libre} \cup EnVol]
BY LibreIsNoStep DEF TypeInv, TypeOK, HandlersFilled, Etapes

\* Writing one column of a row of the table keeps the type of the table.
LEMMA ColumnTypes ==
  ASSUME TypeInv, NEW u \in Vivants, NEW n \in Pseudonymes \cup {None},
         NEW s \in Secrets \cup {None}, NEW j \in Sujets \cup {None}, NEW e
  PROVE  /\ [compte EXCEPT ![u].nom = n] \in [Comptes -> {Absent} \cup Row]
         /\ [compte EXCEPT ![u].secret = s] \in [Comptes -> {Absent} \cup Row]
         /\ [compte EXCEPT ![u].sujet[e] = j] \in [Comptes -> {Absent} \cup Row]
<1>1. u \in Comptes /\ compte[u] \in Row
  BY RowsArePresent DEF TypeInv, Vivants
<1>2. compte \in [Comptes -> {Absent} \cup Row]
  BY DEF TypeInv, TypeOK
<1>3. [compte[u] EXCEPT !.nom = n] \in Row
  BY <1>1, RowUpdates
<1>4. [compte[u] EXCEPT !.secret = s] \in Row
  BY <1>1, RowUpdates
<1>5. [compte[u] EXCEPT !.sujet[e] = j] \in Row
  BY <1>1, RowUpdates
<1>6. \A l \in Row : [compte EXCEPT ![u] = l] \in [Comptes -> {Absent} \cup Row]
  BY <1>1, <1>2
<1>7. [compte EXCEPT ![u].nom = n] \in [Comptes -> {Absent} \cup Row]
  BY <1>3, <1>6
<1>8. [compte EXCEPT ![u].secret = s] \in [Comptes -> {Absent} \cup Row]
  BY <1>4, <1>6
<1>9. [compte EXCEPT ![u].sujet[e] = j] \in [Comptes -> {Absent} \cup Row]
  BY <1>5, <1>6
<1> QED
  BY <1>7, <1>8, <1>9

\* What a handler in flight remembers after a lookup.
LEMMA HandlerLooked ==
  ASSUME TypeInv, NEW r \in Requetes, requete[r] \in EnVol, NEW e \in Etapes,
         NEW q \in {Libre, [requete[r] EXCEPT !.etape = e, !.vus = Vivants],
                    [requete[r] EXCEPT !.etape = e, !.vusNommes = Nommes]},
         e = "inscrire" => requete[r].etape = "nom",
         e = "creer" => requete[r].etape = "adresse",
         e \in {"inscrire", "creer", "nommer"},
         Continuer(r, q)
  PROVE  TypeInv'
<1>1. Vivants \in SUBSET Comptes /\ Nommes \in SUBSET Comptes
  BY DEF Vivants, Nommes
<1>2. q \in {Libre} \cup EnVol
  <2>1. /\ [requete[r] EXCEPT !.etape = e, !.vus = Vivants] \in EnVol
        /\ [requete[r] EXCEPT !.etape = e, !.vusNommes = Nommes] \in EnVol
    BY <1>1, HandlerMoves
  <2> QED
    BY <2>1
<1>3. Filled(requete[r])
  BY DEF TypeInv, HandlersFilled
<1>4. Filled(q)
  <2>1. CASE q = Libre
    BY <2>1, LibreIsNoStep
  <2>2. CASE q # Libre
    <3>1. /\ q.etape = e /\ q.adresse = requete[r].adresse
          /\ q.emetteur = requete[r].emetteur /\ q.sujet = requete[r].sujet
      BY <2>2 DEF EnVol
    <3> QED
      BY <1>3, <3>1 DEF Filled
  <2> QED
    BY <2>1, <2>2
<1> QED
  BY <1>2, <1>4, ContinuerTypes

\* A handler of the account service has, at each of its steps, the columns that
\* step reads: the types alone are not inductive without it.
THEOREM AccountsTypeInv == Spec => []TypeInv
<1>1. Init => TypeInv
  <2>1. Init => TypeOK
    BY DEF Init, TypeOK
  <2>2. Init => HandlersFilled
    BY LibreIsNoStep DEF Init, HandlersFilled, Etapes
  <2> QED
    BY <2>1, <2>2 DEF TypeInv
<1>2. ASSUME TypeInv, [Next]_vars PROVE TypeInv'
  <2>1. TypeOK /\ HandlersFilled
    BY <1>2 DEF TypeInv
  <2>2. ASSUME NEW r \in Requetes, NEW p \in Personnes, NEW a \in Adresses,
               NEW n \in Pseudonymes, NEW i \in Numeros, Register(r, p, a, n, i)
        PROVE  TypeInv'
    <3> DEFINE q == [Libre EXCEPT !.etape = "nom", !.qui = p, !.adresse = a,
                       !.nom = n, !.secret = <<p, i>>, !.vus = Vivants]
    <3>1. <<p, i>> \in Secrets /\ Vivants \in SUBSET Comptes
      BY DEF Secrets, Vivants
    <3>2. q \in EnVol
      BY <3>1 DEF EnVol, Libre, Etapes
    <3>3. Filled(q)
      BY NoneAssumption DEF Libre, Adresses, Filled
    <3> HIDE DEF q
    <3> QED
      BY <1>2, <2>2, <3>2, <3>3, ContinuerTypes DEF Register, q
  <2>3. ASSUME NEW r \in Requetes, NEW e \in Emetteurs, NEW s \in Sujets,
               NEW a \in Adresses, NEW b \in BOOLEAN, LoginWith(r, e, s, a, b)
        PROVE  TypeInv'
    <3>1. s[1] \in Personnes
      BY DEF Sujets
    <3>2. CASE requete' # requete
      <4> DEFINE q == [Libre EXCEPT !.etape = "adresse", !.qui = s[1],
                         !.adresse = a, !.emetteur = e, !.sujet = s, !.verifie = b]
      <4>1. Continuer(r, q)
        BY <2>3, <3>2 DEF LoginWith
      <4>2. q \in EnVol
        BY <3>1 DEF EnVol, Libre, Etapes
      <4>3. Filled(q)
        BY NoneAssumption DEF Libre, Adresses, Sujets, Filled
      <4> HIDE DEF q
      <4> QED
        BY <1>2, <4>1, <4>2, <4>3, ContinuerTypes
    <3>3. CASE requete' = requete
      <4>1. HandlersFilled'
        BY <2>1, <3>3 DEF HandlersFilled
      <4>2. TypeOK'
        BY <2>1, <2>3, <3>1, <3>3 DEF TypeOK, LoginWith, Continuer, histoire, Vivants
      <4> QED
        BY <4>1, <4>2 DEF TypeInv
    <3> QED
      BY <3>2, <3>3
  <2>4. ASSUME NEW r \in Requetes, NEW p \in Personnes, NEW u \in Comptes,
               NEW e \in Emetteurs, NEW s \in Sujets, NEW b \in BOOLEAN,
               Link(r, p, u, e, s, b)
        PROVE  TypeInv'
    <3> DEFINE q == [Libre EXCEPT !.etape = "lier", !.qui = p, !.compte = u,
                                  !.emetteur = e, !.sujet = s]
    <3>1. q \in EnVol
      BY DEF EnVol, Libre, Etapes
    <3>2. Filled(q)
      BY NoneAssumption DEF Libre, Sujets, Filled
    <3> HIDE DEF q
    <3> QED
      BY <1>2, <2>4, <3>1, <3>2, ContinuerTypes DEF Link, q
  <2>5. ASSUME NEW r \in Requetes, NEW p \in Personnes, NEW u \in Comptes,
               NEW n \in Pseudonymes, SetUsername(r, p, u, n)
        PROVE  TypeInv'
    <3> DEFINE q == [Libre EXCEPT !.etape = "choisir", !.qui = p, !.compte = u,
                                  !.nom = n]
    <3>1. q \in EnVol /\ Filled(q)
      BY DEF EnVol, Libre, Etapes, Filled
    <3> HIDE DEF q
    <3> QED
      BY <1>2, <2>5, <3>1, ContinuerTypes DEF SetUsername, q
  <2>6. ASSUME NEW r \in Requetes, NEW p \in Personnes, NEW u \in Comptes,
               NEW i \in Numeros, SetPassword(r, p, u, i)
        PROVE  TypeInv'
    <3> DEFINE q == [Libre EXCEPT !.etape = "secret", !.qui = p, !.compte = u,
                                  !.secret = <<p, i>>]
    <3>1. <<p, i>> \in Secrets
      BY DEF Secrets
    <3>2. q \in EnVol /\ Filled(q)
      BY <3>1 DEF EnVol, Libre, Etapes, Filled
    <3> HIDE DEF q
    <3> QED
      BY <1>2, <2>6, <3>2, ContinuerTypes DEF SetPassword, q
  <2>7. ASSUME NEW r \in Requetes, requete[r].etape \in Etapes
        PROVE  requete[r] \in EnVol
    BY <2>1, <2>7, HandlerInFlight DEF TypeOK
  <2>8. ASSUME NEW r \in Requetes, ControlerNom(r) PROVE TypeInv'
    <3>1. requete[r] \in EnVol
      BY <2>7, <2>8 DEF ControlerNom, Etapes
    <3> QED
      BY <1>2, <2>8, <3>1, HandlerLooked DEF ControlerNom, Etapes
  <2>9. ASSUME NEW r \in Requetes, ControlerAdresse(r) PROVE TypeInv'
    <3>1. requete[r] \in EnVol
      BY <2>7, <2>9 DEF ControlerAdresse, Etapes
    <3> QED
      BY <1>2, <2>9, <3>1, HandlerLooked DEF ControlerAdresse, Etapes
  <2>10. ASSUME NEW r \in Requetes, ControlerChoix(r) PROVE TypeInv'
    <3>1. requete[r] \in EnVol
      BY <2>7, <2>10 DEF ControlerChoix, Etapes
    <3> QED
      BY <1>2, <2>10, <3>1, HandlerLooked DEF ControlerChoix, Etapes
  <2>11. ASSUME NEW r \in Requetes, Inscrire(r) PROVE TypeInv'
    <3>1. requete[r] \in EnVol /\ requete[r].adresse # None
      BY <2>1, <2>7, <2>11 DEF Inscrire, Etapes, HandlersFilled, Filled
    <3>2. PICK l \in Row : Creer(r, l)
      <4>1. /\ requete[r].adresse \in Adresses
            /\ requete[r].nom \in Pseudonymes \cup {None}
            /\ requete[r].secret \in Secrets \cup {None}
        BY <3>1 DEF EnVol
      <4> QED
        BY <2>11, <4>1, RowsBuilt DEF Inscrire
    <3> QED
      BY <1>2, <3>1, <3>2, CreerTypes
  <2>12. ASSUME NEW r \in Requetes, CreerLie(r) PROVE TypeInv'
    <3>1. requete[r] \in EnVol /\ requete[r].adresse # None
      BY <2>1, <2>7, <2>12 DEF CreerLie, Etapes, HandlersFilled, Filled
    <3>2. PICK l \in Row : Creer(r, l)
      <4>1. /\ requete[r].adresse \in Adresses
            /\ requete[r].sujet \in Sujets \cup {None}
        BY <3>1 DEF EnVol
      <4> QED
        BY <2>12, <4>1, RowsBuilt DEF CreerLie
    <3> QED
      BY <1>2, <3>1, <3>2, CreerTypes
  <2>13. ASSUME NEW r \in Requetes, EcrireLien(r) PROVE TypeInv'
    <3>1. requete[r] \in EnVol
      BY <2>7, <2>13 DEF EcrireLien, Etapes
    <3>2. /\ requete[r].sujet \in Sujets
          /\ requete[r].emetteur \in Emetteurs
          /\ requete[r].compte \in Comptes \cup {None}
      BY <2>1, <2>13, <3>1 DEF EcrireLien, EnVol, HandlersFilled, Filled
    <3>3. compte' \in [Comptes -> {Absent} \cup Row]
      <4>1. CASE compte' = compte
        BY <2>1, <4>1 DEF TypeOK
      <4>2. CASE compte' # compte
        <5>1. /\ requete[r].compte \in Vivants
              /\ compte' = [compte EXCEPT
                    ![requete[r].compte].sujet[requete[r].emetteur] = requete[r].sujet]
          BY <2>13, <4>2 DEF EcrireLien
        <5> QED
          BY <1>2, <3>2, <5>1, ColumnTypes
      <4> QED
        BY <4>1, <4>2
    <3>4. ouverts' \in SUBSET (Emetteurs \X Sujets \X Comptes)
      BY <2>1, <2>13, <3>2 DEF EcrireLien, TypeOK, Vivants
    <3> QED
      BY <1>2, <2>1, <2>13, <3>3, <3>4, HandlerEnds DEF EcrireLien, TypeInv, TypeOK
  <2>14. ASSUME NEW r \in Requetes, EcrireNom(r) PROVE TypeInv'
    <3>1. requete[r] \in EnVol
      BY <2>7, <2>14 DEF EcrireNom, Etapes
    <3>2. /\ requete[r].nom \in Pseudonymes \cup {None}
          /\ requete[r].compte \in Comptes \cup {None}
          /\ requete[r].vusNommes \in SUBSET Comptes
      BY <3>1 DEF EnVol
    <3>3. compte' \in [Comptes -> {Absent} \cup Row]
      <4>1. CASE compte' = compte
        BY <2>1, <4>1 DEF TypeOK
      <4>2. CASE compte' # compte
        <5>1. /\ requete[r].compte \in Vivants
              /\ compte' = [compte EXCEPT
                    ![requete[r].compte].nom = requete[r].nom]
          BY <2>14, <4>2 DEF EcrireNom
        <5> QED
          BY <1>2, <3>2, <5>1, ColumnTypes
      <4> QED
        BY <4>1, <4>2
    <3>4. nommes' \in [Comptes -> SUBSET Comptes]
      BY <2>1, <2>14, <3>2 DEF EcrireNom, TypeOK
    <3> QED
      BY <1>2, <2>1, <2>14, <3>3, <3>4, HandlerEnds DEF EcrireNom, TypeInv, TypeOK
  <2>15. ASSUME NEW r \in Requetes, EcrireSecret(r) PROVE TypeInv'
    <3>1. requete[r] \in EnVol
      BY <2>7, <2>15 DEF EcrireSecret, Etapes
    <3>2. requete[r].secret \in Secrets \cup {None}
      BY <3>1 DEF EnVol
    <3>3. compte' \in [Comptes -> {Absent} \cup Row]
      <4>1. CASE compte' = compte
        BY <2>1, <4>1 DEF TypeOK
      <4>2. CASE compte' # compte
        <5>1. /\ requete[r].compte \in Vivants
              /\ compte' = [compte EXCEPT
                    ![requete[r].compte].secret = requete[r].secret]
          BY <2>15, <4>2 DEF EcrireSecret
        <5> QED
          BY <1>2, <3>2, <5>1, ColumnTypes
      <4> QED
        BY <4>1, <4>2
    <3> QED
      BY <1>2, <2>1, <2>15, <3>3, HandlerEnds
      DEF EcrireSecret, TypeInv, TypeOK, histoire
  <2>16. ASSUME NEW p \in Personnes, NEW u \in Comptes, Login(p, u)
        PROVE  TypeInv'
    BY <2>1, <2>16 DEF Login, TypeInv, TypeOK, HandlersFilled, histoire
  <2>17. ASSUME NEW u \in Comptes, NEW i \in Numeros, Reset(u, i) PROVE TypeInv'
    <3>1. compte[u].adresse[1] \in Personnes
      BY <2>1, <2>17, RowsArePresent DEF Reset, Row, Adresses
    <3>2. <<compte[u].adresse[1], i>> \in Secrets
      BY <3>1 DEF Secrets
    <3>3. compte' \in [Comptes -> {Absent} \cup Row]
      BY <1>2, <2>17, <3>2, ColumnTypes DEF Reset
    <3> QED
      BY <2>1, <2>17, <3>1, <3>3 DEF Reset, TypeInv, TypeOK, HandlersFilled
  <2>18. ASSUME NEW p \in Personnes, NEW u \in Comptes, DeleteAccount(p, u)
        PROVE  TypeInv'
    BY <2>1, <2>18 DEF DeleteAccount, TypeInv, TypeOK, HandlersFilled, histoire
  <2>19. ASSUME Redemarrer PROVE TypeInv'
    BY <2>1, <2>19, LibreIsNoStep
    DEF Redemarrer, TypeInv, TypeOK, HandlersFilled, histoire, Etapes
  <2>20. ASSUME UNCHANGED vars PROVE TypeInv'
    BY <2>1, <2>20 DEF vars, TypeInv, TypeOK, HandlersFilled, histoire
  <2> QED
    BY <1>2, <2>2, <2>3, <2>4, <2>5, <2>6, <2>8, <2>9, <2>10, <2>11, <2>12,
       <2>13, <2>14, <2>15, <2>16, <2>17, <2>18, <2>19, <2>20
    DEF Next, Arrivee, Suite
<1> QED
  BY <1>1, <1>2, PTL DEF Spec

\* The variables keep their types, whatever handlers are in flight.
THEOREM AccountsTypeOK == Spec => []TypeOK
<1>1. TypeInv => TypeOK
  BY DEF TypeInv
<1> QED
  BY <1>1, AccountsTypeInv, PTL

-----------------------------------------------------------------------------
(* What a step may change                                                  *)

\* The row l is inserted under the fresh key u by handler r.
Insertion(r, u, l) ==
  /\ createur[u] = None /\ Insertable(u, l)
  /\ \/ /\ requete[r].etape = "inscrire"
        /\ l = [Absent EXCEPT !.adresse = requete[r].adresse,
                              !.nom = requete[r].nom, !.secret = requete[r].secret]
     \/ /\ requete[r].etape = "creer"
        /\ l = [Absent EXCEPT !.adresse = requete[r].adresse,
                              !.sujet[requete[r].emetteur] = requete[r].sujet]
  /\ compte' = [compte EXCEPT ![u] = l]
  /\ sessions' = sessions \cup {<<requete[r].qui, u>>}
  /\ createur' = [createur EXCEPT ![u] = requete[r].qui]
  /\ connus' = [connus EXCEPT ![u] = requete[r].vus]
  /\ nommes' = [nommes EXCEPT ![u] = requete[r].vusNommes]
  /\ ouverts' = ouverts \cup
        {<<e, l.sujet[e], u>> : e \in {f \in Emetteurs : l.sujet[f] # None}}
  /\ UNCHANGED repris

\* An inserted row is a Row, whichever handler inserts it.
LEMMA InsertionIsRow ==
  ASSUME TypeInv, NEW r \in Requetes, NEW u \in Comptes, NEW l, Insertion(r, u, l)
  PROVE  l \in Row /\ requete[r] \in EnVol
<1>1. requete[r] \in EnVol
  BY HandlerInFlight DEF Insertion, TypeInv, TypeOK, Etapes
<1>2. requete[r].adresse # None
  BY DEF Insertion, TypeInv, HandlersFilled, Filled
<1>3. /\ requete[r].adresse \in Adresses
      /\ requete[r].nom \in Pseudonymes \cup {None}
      /\ requete[r].secret \in Secrets \cup {None}
      /\ requete[r].sujet \in Sujets \cup {None}
  BY <1>1, <1>2 DEF EnVol
<1>4. /\ [Absent EXCEPT !.adresse = requete[r].adresse, !.nom = requete[r].nom,
                        !.secret = requete[r].secret] \in Row
      /\ [Absent EXCEPT !.adresse = requete[r].adresse,
                        !.sujet[requete[r].emetteur] = requete[r].sujet] \in Row
  BY <1>3, RowsBuilt
<1> QED
  <2> HIDE DEF Absent
  <2> QED
    BY <1>1, <1>4 DEF Insertion

\* The columns of an inserted row are the handler's.
LEMMA InsertedColumns ==
  ASSUME TypeInv, NEW r \in Requetes, NEW u \in Comptes, NEW l, Insertion(r, u, l)
  PROVE  /\ l.adresse = requete[r].adresse
         /\ requete[r].etape = "inscrire" =>
              /\ l.nom = requete[r].nom /\ l.secret = requete[r].secret
              /\ \A e \in Emetteurs : l.sujet[e] = None
         /\ requete[r].etape = "creer" =>
              /\ l.nom = None /\ l.secret = None
              /\ \A e \in Emetteurs : l.sujet[e] # None => l.sujet[e] = requete[r].sujet
<1>1. CASE requete[r].etape = "inscrire"
  <2>1. l = [Absent EXCEPT !.adresse = requete[r].adresse,
                           !.nom = requete[r].nom, !.secret = requete[r].secret]
    BY <1>1 DEF Insertion
  <2> QED
    BY <1>1, <2>1 DEF Absent
<1>2. CASE requete[r].etape = "creer"
  <2>1. l = [Absent EXCEPT !.adresse = requete[r].adresse,
                           !.sujet[requete[r].emetteur] = requete[r].sujet]
    BY <1>2 DEF Insertion
  <2>2. l.sujet = [[e \in Emetteurs |-> None] EXCEPT
                      ![requete[r].emetteur] = requete[r].sujet]
    BY <2>1 DEF Absent
  <2> QED
    BY <1>2, <2>1, <2>2 DEF Absent
<1> QED
  BY <1>1, <1>2 DEF Insertion

\* The arrival of a request is one of the five that start a handler.
LEMMA Arrivals ==
  ASSUME NEW r \in Requetes, Arrivee(r)
  PROVE  \/ \E p \in Personnes, a \in Adresses, n \in Pseudonymes, i \in Numeros :
              Register(r, p, a, n, i)
         \/ \E e \in Emetteurs, s \in Sujets, a \in Adresses, b \in BOOLEAN :
              LoginWith(r, e, s, a, b)
         \/ \E p \in Personnes, u \in Comptes, e \in Emetteurs, s \in Sujets,
               b \in BOOLEAN : Link(r, p, u, e, s, b)
         \/ \E p \in Personnes, u \in Comptes, n \in Pseudonymes :
              SetUsername(r, p, u, n)
         \/ \E p \in Personnes, u \in Comptes, i \in Numeros :
              SetPassword(r, p, u, i)
BY DEF Arrivee

\* It changes the record of that handler only, and no row.
LEMMA ArrivalsEffect ==
  ASSUME TypeInv, NEW r \in Requetes, Arrivee(r)
  PROVE  /\ sessions \subseteq sessions'
         /\ UNCHANGED <<compte, createur, repris, connus, nommes>>
         /\ \A k \in Requetes \ {r} : requete'[k] = requete[k]
<1>1. requete \in [Requetes -> {Libre} \cup EnVol]
  BY DEF TypeInv, TypeOK
<1>2. ASSUME NEW q, Continuer(r, q)
      PROVE  /\ UNCHANGED <<compte, createur, repris, connus, nommes, sessions>>
             /\ \A k \in Requetes \ {r} : requete'[k] = requete[k]
  BY <1>1, <1>2 DEF Continuer, histoire
<1>3. ASSUME NEW e \in Emetteurs, NEW s \in Sujets, NEW a \in Adresses,
             NEW b \in BOOLEAN, LoginWith(r, e, s, a, b)
      PROVE  /\ sessions \subseteq sessions'
             /\ UNCHANGED <<compte, createur, repris, connus, nommes>>
             /\ \A k \in Requetes \ {r} : requete'[k] = requete[k]
  <2>1. CASE \E q : Continuer(r, q)
    BY <1>2, <2>1
  <2>2. CASE ~\E q : Continuer(r, q)
    BY <1>3, <2>2 DEF LoginWith
  <2> QED
    BY <2>1, <2>2
<1>4. \A p \in Personnes, a \in Adresses, n \in Pseudonymes, i \in Numeros :
        Register(r, p, a, n, i) => \E q : Continuer(r, q)
  BY DEF Register
<1>5. \A p \in Personnes, u \in Comptes, e \in Emetteurs, s \in Sujets,
         b \in BOOLEAN : Link(r, p, u, e, s, b) => \E q : Continuer(r, q)
  BY DEF Link
<1>6. \A p \in Personnes, u \in Comptes :
        /\ \A n \in Pseudonymes :
             SetUsername(r, p, u, n) => \E q : Continuer(r, q)
        /\ \A i \in Numeros : SetPassword(r, p, u, i) => \E q : Continuer(r, q)
  BY DEF SetUsername, SetPassword
<1> QED
  BY <1>2, <1>3, <1>4, <1>5, <1>6, Arrivals

\* Nothing that concerns a row has changed.
TableUntouched == UNCHANGED <<compte, createur, repris, connus, nommes>>

\* The two handlers that insert a row do so, or end without touching anything.
LEMMA Insertions ==
  ASSUME NEW r \in Requetes, Inscrire(r) \/ CreerLie(r)
  PROVE  \/ TableUntouched /\ UNCHANGED <<sessions, ouverts>>
         \/ \E u \in Comptes : \E l : Insertion(r, u, l)
<1>1. ASSUME NEW l, Creer(r, l),
             \/ /\ requete[r].etape = "inscrire"
                /\ l = [Absent EXCEPT !.adresse = requete[r].adresse,
                           !.nom = requete[r].nom, !.secret = requete[r].secret]
             \/ /\ requete[r].etape = "creer"
                /\ l = [Absent EXCEPT !.adresse = requete[r].adresse,
                           !.sujet[requete[r].emetteur] = requete[r].sujet]
      PROVE  \/ TableUntouched /\ UNCHANGED <<sessions, ouverts>>
             \/ \E u \in Comptes : Insertion(r, u, l)
  <2> HIDE DEF Absent
  <2> QED
    BY <1>1 DEF Creer, Insertion, TableUntouched
<1>2. CASE Inscrire(r)
  BY <1>1, <1>2 DEF Inscrire
<1>3. CASE CreerLie(r)
  BY <1>1, <1>3 DEF CreerLie
<1> QED
  BY <1>2, <1>3

\* The steps that change the table.
LEMMA TableSteps ==
  ASSUME TypeInv, [Next]_vars
  PROVE  \/ TableUntouched
         \/ \E r \in Requetes, u \in Comptes : \E l : Insertion(r, u, l)
         \/ \E r \in Requetes : EcrireLien(r) \/ EcrireNom(r) \/ EcrireSecret(r)
         \/ \E u \in Comptes, i \in Numeros : Reset(u, i)
         \/ \E p \in Personnes, u \in Comptes : DeleteAccount(p, u)
<1>1. ASSUME NEW r \in Requetes, Arrivee(r) PROVE TableUntouched
  BY <1>1, ArrivalsEffect DEF TableUntouched
<1>2. ASSUME NEW r \in Requetes, Suite(r)
      PROVE  \/ TableUntouched
             \/ \E u \in Comptes : \E l : Insertion(r, u, l)
             \/ EcrireLien(r) \/ EcrireNom(r) \/ EcrireSecret(r)
  <2>1. ASSUME ControlerNom(r) \/ ControlerAdresse(r) \/ ControlerChoix(r)
        PROVE  TableUntouched
    BY <2>1 DEF ControlerNom, ControlerAdresse, ControlerChoix, Continuer,
       histoire, TableUntouched
  <2>2. CASE Inscrire(r) \/ CreerLie(r)
    BY <2>2, Insertions
  <2> QED
    BY <1>2, <2>1, <2>2 DEF Suite
<1>3. ASSUME NEW p \in Personnes, NEW u \in Comptes, Login(p, u)
      PROVE  TableUntouched
  BY <1>3 DEF Login, histoire, TableUntouched
<1>4. ASSUME Redemarrer \/ UNCHANGED vars PROVE TableUntouched
  BY <1>4 DEF Redemarrer, vars, histoire, TableUntouched
<1>5. ASSUME NEW r \in Requetes, Suite(r)
      PROVE  \/ TableUntouched
             \/ \E k \in Requetes, u \in Comptes : \E l : Insertion(k, u, l)
             \/ \E k \in Requetes : EcrireLien(k) \/ EcrireNom(k) \/ EcrireSecret(k)
  <2>1. CASE \E u \in Comptes : \E l : Insertion(r, u, l)
    BY <2>1
  <2>2. CASE EcrireLien(r) \/ EcrireNom(r) \/ EcrireSecret(r)
    BY <2>2
  <2> QED
    BY <1>2, <1>5, <2>1, <2>2
<1> QED
  <2> HIDE DEF Insertion, TableUntouched
  <2> QED
    BY <1>1, <1>3, <1>4, <1>5 DEF Next

\* What a lookup leaves in the record of its handler.
Looked(o, q) ==
  /\ q \in EnVol
  /\ q.qui = o.qui /\ q.compte = o.compte /\ q.adresse = o.adresse /\ q.nom = o.nom
  /\ q.secret = o.secret /\ q.emetteur = o.emetteur /\ q.sujet = o.sujet
  /\ \/ /\ o.etape = "nom" /\ q.etape = "inscrire" /\ ~NomPris(o.nom)
        /\ q.vus = o.vus /\ q.vusNommes = Nommes
     \/ /\ o.etape = "adresse" /\ q.etape = "creer" /\ ~AdressePrise(o.adresse)
        /\ q.vus = Vivants /\ q.vusNommes = o.vusNommes
     \/ /\ o.etape = "choisir" /\ q.etape = "nommer" /\ ~NomPris(o.nom)
        /\ q.vus = o.vus /\ q.vusNommes = Nommes

\* The lookups that follow the start of a handler end it or let it go on.
LEMMA Lookups ==
  ASSUME TypeInv, NEW r \in Requetes,
         ControlerNom(r) \/ ControlerAdresse(r) \/ ControlerChoix(r)
  PROVE  \E q : Continuer(r, q) /\ (q = Libre \/ Looked(requete[r], q))
<1>1. requete[r] \in EnVol
  BY HandlerInFlight
  DEF ControlerNom, ControlerAdresse, ControlerChoix, Etapes, TypeInv, TypeOK
<1>2. Vivants \in SUBSET Comptes /\ Nommes \in SUBSET Comptes
  BY DEF Vivants, Nommes
<1> DEFINE n == [requete[r] EXCEPT !.etape = "inscrire", !.vusNommes = Nommes]
           c == [requete[r] EXCEPT !.etape = "creer", !.vus = Vivants]
           m == [requete[r] EXCEPT !.etape = "nommer", !.vusNommes = Nommes]
<1>3. CASE ControlerNom(r)
  <2>1. /\ n \in EnVol /\ n.etape = "inscrire"
        /\ n.qui = requete[r].qui /\ n.compte = requete[r].compte
        /\ n.adresse = requete[r].adresse /\ n.nom = requete[r].nom
        /\ n.secret = requete[r].secret /\ n.emetteur = requete[r].emetteur
        /\ n.sujet = requete[r].sujet
        /\ n.vus = requete[r].vus /\ n.vusNommes = Nommes
    BY <1>1, <1>2 DEF EnVol, Etapes
  <2>2. Continuer(r, Libre) \/ (~NomPris(requete[r].nom) /\ Continuer(r, n))
    BY <1>3 DEF ControlerNom
  <2>3. requete[r].etape = "nom"
    BY <1>3 DEF ControlerNom
  <2> HIDE DEF n
  <2> QED
    BY <2>1, <2>2, <2>3 DEF Looked
<1>4. CASE ControlerAdresse(r)
  <2>1. /\ c \in EnVol /\ c.etape = "creer"
        /\ c.qui = requete[r].qui /\ c.compte = requete[r].compte
        /\ c.adresse = requete[r].adresse /\ c.nom = requete[r].nom
        /\ c.secret = requete[r].secret /\ c.emetteur = requete[r].emetteur
        /\ c.sujet = requete[r].sujet
        /\ c.vus = Vivants /\ c.vusNommes = requete[r].vusNommes
    BY <1>1, <1>2 DEF EnVol, Etapes
  <2>2. \/ Continuer(r, Libre)
        \/ ~AdressePrise(requete[r].adresse) /\ Continuer(r, c)
    BY <1>4 DEF ControlerAdresse
  <2>3. requete[r].etape = "adresse"
    BY <1>4 DEF ControlerAdresse
  <2> HIDE DEF c
  <2> QED
    BY <2>1, <2>2, <2>3 DEF Looked
<1>5. CASE ControlerChoix(r)
  <2>1. /\ m \in EnVol /\ m.etape = "nommer"
        /\ m.qui = requete[r].qui /\ m.compte = requete[r].compte
        /\ m.adresse = requete[r].adresse /\ m.nom = requete[r].nom
        /\ m.secret = requete[r].secret /\ m.emetteur = requete[r].emetteur
        /\ m.sujet = requete[r].sujet
        /\ m.vus = requete[r].vus /\ m.vusNommes = Nommes
    BY <1>1, <1>2 DEF EnVol, Etapes
  <2>2. Continuer(r, Libre) \/ (~NomPris(requete[r].nom) /\ Continuer(r, m))
    BY <1>5 DEF ControlerChoix
  <2>3. requete[r].etape = "choisir"
    BY <1>5 DEF ControlerChoix
  <2> HIDE DEF m
  <2> QED
    BY <2>1, <2>2, <2>3 DEF Looked
<1> QED
  BY <1>3, <1>4, <1>5

\* The steps that issue a session, or open an account to an identity.
LEMMA SessionSteps ==
  ASSUME TypeInv, [Next]_vars
  PROVE  \/ UNCHANGED <<sessions, ouverts>>
         \/ \E r \in Requetes : EcrireLien(r)
         \/ \E r \in Requetes, u \in Comptes : \E l : Insertion(r, u, l)
         \/ \E p \in Personnes, u \in Comptes : Login(p, u)
         \/ \E r \in Requetes, e \in Emetteurs, s \in Sujets, a \in Adresses,
               b \in BOOLEAN : LoginWith(r, e, s, a, b)
<1>1. ASSUME NEW r \in Requetes, NEW q, Continuer(r, q)
      PROVE  UNCHANGED <<sessions, ouverts>>
  BY <1>1 DEF Continuer, histoire
<1>2. ASSUME NEW r \in Requetes, Arrivee(r)
      PROVE  \/ UNCHANGED <<sessions, ouverts>>
             \/ \E e \in Emetteurs, s \in Sujets, a \in Adresses, b \in BOOLEAN :
                  LoginWith(r, e, s, a, b)
  <2>1. \A p \in Personnes, a \in Adresses, n \in Pseudonymes, i \in Numeros :
          Register(r, p, a, n, i) => UNCHANGED <<sessions, ouverts>>
    BY <1>1 DEF Register
  <2>2. \A p \in Personnes, u \in Comptes, e \in Emetteurs, s \in Sujets,
           b \in BOOLEAN : Link(r, p, u, e, s, b) => UNCHANGED <<sessions, ouverts>>
    BY <1>1 DEF Link
  <2>3. \A p \in Personnes, u \in Comptes :
          /\ \A n \in Pseudonymes : SetUsername(r, p, u, n) => UNCHANGED <<sessions, ouverts>>
          /\ \A i \in Numeros : SetPassword(r, p, u, i) => UNCHANGED <<sessions, ouverts>>
    BY <1>1 DEF SetUsername, SetPassword
  <2> QED
    BY <1>2, <2>1, <2>2, <2>3, Arrivals
<1>3. ASSUME NEW r \in Requetes, Suite(r)
      PROVE  \/ UNCHANGED <<sessions, ouverts>>
             \/ EcrireLien(r)
             \/ \E u \in Comptes : \E l : Insertion(r, u, l)
  <2>1. CASE ControlerNom(r) \/ ControlerAdresse(r) \/ ControlerChoix(r)
    BY <1>1, <2>1, Lookups
  <2>2. CASE EcrireNom(r) \/ EcrireSecret(r)
    BY <2>2 DEF EcrireNom, EcrireSecret, histoire
  <2>3. CASE Inscrire(r) \/ CreerLie(r)
    BY <2>3, Insertions
  <2> QED
    BY <1>3, <2>1, <2>2, <2>3 DEF Suite
<1>4. CASE \E r \in Requetes : Arrivee(r) \/ Suite(r)
  BY <1>2, <1>3, <1>4
<1>5. CASE \E u \in Comptes : \E i \in Numeros : Reset(u, i)
  BY <1>5 DEF Reset
<1>6. CASE \E u \in Comptes, p \in Personnes : DeleteAccount(p, u)
  BY <1>6 DEF DeleteAccount, histoire
<1>7. CASE Redemarrer \/ UNCHANGED vars
  BY <1>7 DEF Redemarrer, vars, histoire
<1> QED
  <2> HIDE DEF Insertion
  <2> QED
    BY <1>4, <1>5, <1>6, <1>7 DEF Next

\* The steps that give a handler a new record.
LEMMA HandlerSteps ==
  ASSUME TypeInv, [Next]_vars, NEW r \in Requetes
  PROVE  \/ requete'[r] = requete[r] \/ requete'[r] = Libre
         \/ Arrivee(r)
         \/ ControlerNom(r) \/ ControlerAdresse(r) \/ ControlerChoix(r)
<1>0. requete \in [Requetes -> {Libre} \cup EnVol]
  BY DEF TypeInv, TypeOK
<1>1. ASSUME NEW k \in Requetes, k # r, Arrivee(k) PROVE requete'[r] = requete[r]
  BY <1>1, ArrivalsEffect
<1>2. ASSUME NEW k \in Requetes, k # r, Suite(k) PROVE requete'[r] = requete[r]
  BY <1>0, <1>2 DEF Suite, ControlerNom, ControlerAdresse, ControlerChoix, Inscrire,
     CreerLie, Creer, EcrireLien, EcrireNom, EcrireSecret, Continuer
<1>3. ASSUME Inscrire(r) \/ CreerLie(r) \/ EcrireLien(r) \/ EcrireNom(r)
               \/ EcrireSecret(r)
      PROVE  requete'[r] = Libre
  BY <1>0, <1>3 DEF Inscrire, CreerLie, Creer, EcrireLien, EcrireNom, EcrireSecret
<1>5. ASSUME UNCHANGED vars PROVE requete' = requete
  BY <1>5 DEF vars
<1>6. ASSUME NEW u \in Comptes, NEW i \in Numeros, Reset(u, i)
      PROVE  requete' = requete
  BY <1>6 DEF Reset
<1>7. ASSUME NEW u \in Comptes, NEW p \in Personnes,
             Login(p, u) \/ DeleteAccount(p, u)
      PROVE  requete' = requete
  BY <1>7 DEF Login, DeleteAccount
<1>8. ASSUME Redemarrer PROVE requete'[r] = Libre
  BY <1>8 DEF Redemarrer
<1> QED
  BY <1>1, <1>2, <1>3, <1>5, <1>6, <1>7, <1>8 DEF Next, Suite

\* Sessions, creators and resets are never taken back.
LEMMA HistoryGrows ==
  ASSUME TypeInv, [Next]_vars
  PROVE  /\ sessions \subseteq sessions' /\ repris \subseteq repris'
         /\ \A u \in Comptes : createur[u] # None => createur'[u] = createur[u]
<1>0. createur \in [Comptes -> Personnes \cup {None}]
  BY DEF TypeInv, TypeOK
<1>1. /\ repris \subseteq repris'
      /\ \A u \in Comptes : createur[u] # None => createur'[u] = createur[u]
  <2>1. CASE TableUntouched
    BY <2>1 DEF TableUntouched
  <2>2. ASSUME NEW r \in Requetes, NEW u \in Comptes, NEW l, Insertion(r, u, l)
        PROVE  <1>1!1 /\ <1>1!2
    BY <1>0, <2>2 DEF Insertion
  <2>3. ASSUME NEW r \in Requetes, EcrireLien(r) \/ EcrireNom(r) \/ EcrireSecret(r)
        PROVE  UNCHANGED <<repris, createur>>
    BY <2>3 DEF EcrireLien, EcrireNom, EcrireSecret, histoire
  <2>4. ASSUME NEW u \in Comptes, NEW i \in Numeros, Reset(u, i)
        PROVE  repris \subseteq repris' /\ UNCHANGED createur
    BY <2>4 DEF Reset
  <2>5. ASSUME NEW p \in Personnes, NEW u \in Comptes, DeleteAccount(p, u)
        PROVE  UNCHANGED <<repris, createur>>
    BY <2>5 DEF DeleteAccount, histoire
  <2> QED
    BY <2>1, <2>2, <2>3, <2>4, <2>5, TableSteps
<1>2. sessions \subseteq sessions'
  <2>1. ASSUME NEW r \in Requetes, Arrivee(r) PROVE sessions \subseteq sessions'
    BY <2>1, ArrivalsEffect
  <2>2. ASSUME NEW r \in Requetes, Suite(r) PROVE sessions \subseteq sessions'
    BY <2>2 DEF Suite, ControlerNom, ControlerAdresse, ControlerChoix, Inscrire,
       CreerLie, Creer, EcrireLien, EcrireNom, EcrireSecret, Continuer
  <2> QED
    BY <2>1, <2>2 DEF Next, Reset, Login, DeleteAccount, Redemarrer, vars
<1> QED
  BY <1>1, <1>2

-----------------------------------------------------------------------------
(* Nobody shares an account by accident                                    *)

\* The two ways p may have come to an account.
Legitime(p, u) == createur[u] = p \/ <<p, u>> \in repris

\* Who knows the password of an account, or holds an identity it carries, may
\* open it.
RowOwned(u) ==
  /\ createur[u] # None
  /\ compte[u].secret # None => Legitime(compte[u].secret[1], u)
  /\ \A e \in Emetteurs :
       compte[u].sujet[e] # None => Legitime(compte[u].sujet[e][1], u)

RowsOwned == \A u \in Vivants : RowOwned(u)

\* A handler writes secrets and identities of the person it serves, to an
\* account that person has a session on.
Served(q) ==
  /\ q.etape \in {"nom", "inscrire", "secret"} => q.secret # None /\ q.secret[1] = q.qui
  /\ q.etape \in {"adresse", "creer", "lier"} => q.sujet[1] = q.qui
  /\ q.etape \in {"lier", "secret"} => <<q.qui, q.compte>> \in sessions

HandlersServed == \A r \in Requetes : Served(requete[r])

OwnInv == RowsOwned /\ HandlersServed /\ SessionsOwned

\* What entitles a person to an account is never lost.
LEMMA LegitimacyLasts ==
  ASSUME TypeInv, [Next]_vars, NEW p \in Personnes, NEW u \in Comptes,
         Legitime(p, u)
  PROVE  Legitime(p, u)'
BY HistoryGrows, NoneAssumption DEF Legitime

\* A session entitles its holder.
LEMMA SessionIsLegitimate ==
  ASSUME TypeInv, SessionsOwned, NEW p, NEW u, <<p, u>> \in sessions
  PROVE  p \in Personnes /\ u \in Comptes /\ Legitime(p, u)
<1>1. sessions \in SUBSET (Personnes \X Comptes)
  BY DEF TypeInv, TypeOK
<1>2. p \in Personnes /\ u \in Comptes
  BY <1>1
<1>3. createur[<<p, u>>[2]] = <<p, u>>[1] \/ <<p, u>> \in repris
  BY DEF SessionsOwned
<1> QED
  BY <1>2, <1>3 DEF Legitime

\* The holder of a password or of an identity is a person.
LEMMA Holders ==
  ASSUME TypeInv, NEW u \in Vivants
  PROVE  /\ u \in Comptes /\ compte[u] \in Row
         /\ compte[u].adresse[1] \in Personnes
         /\ compte[u].secret # None => compte[u].secret[1] \in Personnes
         /\ \A e \in Emetteurs :
              compte[u].sujet[e] # None => compte[u].sujet[e][1] \in Personnes
<1>1. u \in Comptes /\ compte[u] \in Row
  BY RowsArePresent DEF TypeInv, Vivants
<1> QED
  BY <1>1 DEF Row, Adresses, Secrets, Sujets

\* Handlers keep to the person they serve.
LEMMA ServedStays ==
  ASSUME TypeInv, OwnInv, [Next]_vars
  PROVE  HandlersServed'
<1> SUFFICES ASSUME NEW r \in Requetes PROVE Served(requete[r])'
  BY DEF HandlersServed
<1>1. Served(requete[r]) /\ sessions \subseteq sessions'
  BY HistoryGrows DEF OwnInv, HandlersServed
<1>2. requete \in [Requetes -> {Libre} \cup EnVol]
  BY DEF TypeInv, TypeOK
<1>3. CASE requete'[r] = requete[r]
  BY <1>1, <1>3 DEF Served
<1>4. CASE requete'[r] = Libre
  BY <1>4, LibreIsNoStep DEF Served, Etapes
<1>5. ASSUME NEW q, Continuer(r, q) PROVE requete'[r] = q
  BY <1>2, <1>5 DEF Continuer
<1>6. ASSUME NEW p \in Personnes, NEW a \in Adresses, NEW n \in Pseudonymes,
             NEW i \in Numeros, Register(r, p, a, n, i)
      PROVE  Served(requete[r])'
  <2>1. /\ requete'[r].etape = "nom" /\ requete'[r].qui = p
        /\ requete'[r].secret = <<p, i>>
    BY <1>5, <1>6 DEF Register, Libre
  <2> QED
    BY <2>1, NoneAssumption DEF Served
<1>7. ASSUME NEW e \in Emetteurs, NEW s \in Sujets, NEW a \in Adresses,
             NEW b \in BOOLEAN, LoginWith(r, e, s, a, b)
      PROVE  Served(requete[r])'
  <2>1. CASE UNCHANGED requete
    BY <1>3, <2>1
  <2>2. CASE ~UNCHANGED requete
    <3>1. Continuer(r, [Libre EXCEPT !.etape = "adresse", !.qui = s[1],
             !.adresse = a, !.emetteur = e, !.sujet = s, !.verifie = b])
      BY <1>7, <2>2 DEF LoginWith
    <3>2. /\ requete'[r].etape = "adresse" /\ requete'[r].qui = s[1]
          /\ requete'[r].sujet = s
      BY <1>5, <3>1 DEF Libre
    <3> QED
      BY <3>2 DEF Served
  <2> QED
    BY <2>1, <2>2
<1>8. ASSUME NEW p \in Personnes, NEW u \in Comptes, NEW e \in Emetteurs,
             NEW s \in Sujets, NEW b \in BOOLEAN, Link(r, p, u, e, s, b)
      PROVE  Served(requete[r])'
  <2>1. /\ requete'[r].etape = "lier" /\ requete'[r].qui = p
        /\ requete'[r].sujet = s /\ requete'[r].compte = u
    BY <1>5, <1>8 DEF Link, Libre
  <2> QED
    BY <1>1, <1>8, <2>1 DEF Served, Link
<1>9. ASSUME NEW p \in Personnes, NEW u \in Comptes, NEW n \in Pseudonymes,
             SetUsername(r, p, u, n)
      PROVE  Served(requete[r])'
  <2>1. requete'[r].etape = "choisir"
    BY <1>5, <1>9 DEF SetUsername, Libre
  <2> QED
    BY <2>1 DEF Served
<1>10. ASSUME NEW p \in Personnes, NEW u \in Comptes, NEW i \in Numeros,
              SetPassword(r, p, u, i)
       PROVE  Served(requete[r])'
  <2>1. /\ requete'[r].etape = "secret" /\ requete'[r].qui = p
        /\ requete'[r].secret = <<p, i>> /\ requete'[r].compte = u
    BY <1>5, <1>10 DEF SetPassword, Libre
  <2> QED
    BY <1>1, <1>10, <2>1, NoneAssumption DEF Served, SetPassword
<1>11. CASE ControlerNom(r) \/ ControlerAdresse(r) \/ ControlerChoix(r)
  <2>1. PICK q : Continuer(r, q) /\ (q = Libre \/ Looked(requete[r], q))
    BY <1>11, Lookups
  <2>2. requete'[r] = q
    BY <1>5, <2>1
  <2>3. CASE q = Libre
    BY <1>4, <2>2, <2>3
  <2>4. CASE Looked(requete[r], q)
    BY <1>1, <2>2, <2>4 DEF Served, Looked
  <2> QED
    BY <2>1, <2>3, <2>4
<1>12. CASE Arrivee(r)
  BY <1>6, <1>7, <1>8, <1>9, <1>10, <1>12, Arrivals
<1> QED
  BY <1>3, <1>4, <1>11, <1>12, HandlerSteps

\* A row stays owned if what is written in it belongs to somebody entitled.
LEMMA RowOwnedStays ==
  ASSUME TypeInv, [Next]_vars, NEW u \in Vivants, RowOwned(u),
         \/ compte'[u].secret = compte[u].secret
         \/ Legitime(compte[u].secret[1], u)',
         \A e \in Emetteurs :
            \/ compte'[u].sujet[e] = compte[u].sujet[e]
            \/ Legitime(compte[u].sujet[e][1], u)'
  PROVE  RowOwned(u)'
<1>1. /\ u \in Comptes
      /\ compte[u].secret # None => compte[u].secret[1] \in Personnes
      /\ \A e \in Emetteurs :
           compte[u].sujet[e] # None => compte[u].sujet[e][1] \in Personnes
  BY Holders
<1>2. createur'[u] # None
  BY <1>1, HistoryGrows DEF RowOwned
<1>3. ASSUME compte'[u].secret # None PROVE Legitime(compte[u].secret[1], u)'
  <2>1. CASE compte'[u].secret = compte[u].secret
    <3>1. PICK p \in Personnes : p = compte[u].secret[1]
      BY <1>1, <1>3, <2>1
    <3>2. Legitime(p, u)
      BY <1>3, <2>1, <3>1 DEF RowOwned
    <3>3. Legitime(p, u)'
      BY <1>1, <3>2, LegitimacyLasts
    <3> QED
      BY <2>1, <3>1, <3>3 DEF Legitime
  <2>2. CASE Legitime(compte[u].secret[1], u)'
    BY <2>2
  <2> QED
    BY <2>1, <2>2
<1>4. ASSUME NEW e \in Emetteurs, compte'[u].sujet[e] # None
      PROVE  Legitime(compte[u].sujet[e][1], u)'
  <2>1. CASE compte'[u].sujet[e] = compte[u].sujet[e]
    <3>1. PICK p \in Personnes : p = compte[u].sujet[e][1]
      BY <1>1, <1>4, <2>1
    <3>2. Legitime(p, u)
      BY <1>4, <2>1, <3>1 DEF RowOwned
    <3>3. Legitime(p, u)'
      BY <1>1, <3>2, LegitimacyLasts
    <3> QED
      BY <2>1, <3>1, <3>3 DEF Legitime
  <2>2. CASE Legitime(compte[u].sujet[e][1], u)'
    BY <2>2
  <2> QED
    BY <2>1, <2>2
<1> QED
  BY <1>2, <1>3, <1>4 DEF RowOwned

\* A handler that writes for p writes to an account p is entitled to.
LEMMA WriterIsLegitimate ==
  ASSUME TypeInv, OwnInv, [Next]_vars, NEW r \in Requetes,
         requete[r].etape \in {"lier", "secret"},
         NEW p, p = requete[r].qui, NEW u, u = requete[r].compte
  PROVE  Legitime(p, u)'
<1>1. <<requete[r].qui, requete[r].compte>> \in sessions
  BY DEF OwnInv, HandlersServed, Served
<1> QED
  BY <1>1, SessionIsLegitimate, LegitimacyLasts DEF OwnInv

\* The step on the rows of the table.
LEMMA RowsOwnedStays ==
  ASSUME TypeInv, OwnInv, [Next]_vars
  PROVE  RowsOwned'
<1> SUFFICES ASSUME NEW u \in Comptes, compte'[u] # Absent PROVE RowOwned(u)'
  BY DEF RowsOwned, Vivants
<1>0. compte \in [Comptes -> {Absent} \cup Row]
  BY DEF TypeInv, TypeOK
<1>1. u \in Vivants => RowOwned(u)
  BY DEF OwnInv, RowsOwned
<1>2. CASE compte'[u] = compte[u]
  <2>1. u \in Vivants
    BY <1>2 DEF Vivants
  <2> QED
    BY <1>1, <1>2, <2>1, RowOwnedStays
<1>3. ASSUME NEW r \in Requetes, NEW k \in Comptes, NEW l, Insertion(r, k, l)
      PROVE  RowOwned(u)'
  <2>1. CASE u # k
    BY <1>0, <1>2, <1>3, <2>1 DEF Insertion
  <2>2. CASE u = k
    <3>1. l \in Row /\ requete[r] \in EnVol /\ Served(requete[r])
      BY <1>3, InsertionIsRow DEF OwnInv, HandlersServed
    <3>2. compte'[u] = l /\ createur'[u] = requete[r].qui
      BY <1>0, <1>3, <2>2 DEF Insertion, TypeInv, TypeOK
    <3>3. requete[r].qui \in Personnes
      BY <3>1 DEF EnVol
    <3>4. \/ requete[r].etape = "inscrire" /\ requete[r].secret[1] = requete[r].qui
          \/ requete[r].etape = "creer" /\ requete[r].sujet[1] = requete[r].qui
      BY <1>3, <3>1 DEF Insertion, Served
    <3>5. l.secret # None => l.secret[1] = requete[r].qui
      BY <1>3, <3>4, InsertedColumns
    <3>6. \A e \in Emetteurs : l.sujet[e] # None => l.sujet[e][1] = requete[r].qui
      BY <1>3, <3>4, InsertedColumns
    <3> QED
      BY <3>2, <3>3, <3>5, <3>6, NoneAssumption DEF RowOwned, Legitime
  <2> QED
    BY <2>1, <2>2
<1>4. ASSUME NEW r \in Requetes, EcrireLien(r) PROVE RowOwned(u)'
  <2>1. CASE compte'[u] # compte[u]
    <3>1. /\ u = requete[r].compte /\ u \in Vivants
          /\ compte' = [compte EXCEPT
                ![u].sujet[requete[r].emetteur] = requete[r].sujet]
      BY <1>0, <1>4, <2>1 DEF EcrireLien
    <3>2. /\ compte[u] \in Row
          /\ requete[r].sujet[1] = requete[r].qui
      BY <1>4, <3>1, RowsArePresent
      DEF EcrireLien, OwnInv, HandlersServed, Served, TypeInv
    <3>3. /\ compte'[u].secret = compte[u].secret
          /\ \A e \in Emetteurs :
               \/ compte'[u].sujet[e] = compte[u].sujet[e]
               \/ compte'[u].sujet[e] = requete[r].sujet
      BY <1>0, <3>1, <3>2 DEF Row
    <3>4. \A p : p = requete[r].qui => Legitime(p, u)'
      BY <1>4, <3>1, WriterIsLegitimate DEF EcrireLien
    <3>5. \A e \in Emetteurs :
             \/ compte'[u].sujet[e] = compte[u].sujet[e]
             \/ Legitime(compte[u].sujet[e][1], u)'
      BY <3>2, <3>3, <3>4 DEF Legitime
    <3> QED
      BY <1>1, <3>1, <3>3, <3>5, RowOwnedStays
  <2> QED
    BY <1>2, <2>1
<1>5. ASSUME NEW r \in Requetes, EcrireNom(r) PROVE RowOwned(u)'
  <2>1. CASE compte'[u] # compte[u]
    <3>1. /\ u = requete[r].compte /\ u \in Vivants
          /\ compte' = [compte EXCEPT ![u].nom = requete[r].nom]
      BY <1>0, <1>5, <2>1 DEF EcrireNom
    <3>2. compte[u] \in Row
      BY <3>1, RowsArePresent DEF TypeInv
    <3>3. compte'[u].secret = compte[u].secret /\ compte'[u].sujet = compte[u].sujet
      BY <1>0, <3>1, <3>2 DEF Row
    <3> QED
      BY <1>1, <3>1, <3>3, RowOwnedStays
  <2> QED
    BY <1>2, <2>1
<1>6. ASSUME NEW r \in Requetes, EcrireSecret(r) PROVE RowOwned(u)'
  <2>1. CASE compte'[u] # compte[u]
    <3>1. /\ u = requete[r].compte /\ u \in Vivants
          /\ compte' = [compte EXCEPT ![u].secret = requete[r].secret]
      BY <1>0, <1>6, <2>1 DEF EcrireSecret
    <3>2. compte[u] \in Row /\ requete[r].secret[1] = requete[r].qui
      BY <1>6, <3>1, RowsArePresent
      DEF EcrireSecret, OwnInv, HandlersServed, Served, TypeInv
    <3>3. /\ compte'[u].secret = requete[r].secret
          /\ compte'[u].sujet = compte[u].sujet
      BY <1>0, <3>1, <3>2 DEF Row
    <3>4. \A p : p = requete[r].qui => Legitime(p, u)'
      BY <1>6, <3>1, WriterIsLegitimate DEF EcrireSecret
    <3>5. Legitime(compte[u].secret[1], u)'
      BY <3>2, <3>3, <3>4 DEF Legitime
    <3> QED
      BY <1>1, <3>1, <3>3, <3>5, RowOwnedStays
  <2> QED
    BY <1>2, <2>1
<1>7. ASSUME NEW k \in Comptes, NEW i \in Numeros, Reset(k, i)
      PROVE  RowOwned(u)'
  <2>1. CASE compte'[u] # compte[u]
    <3>1. /\ u = k /\ u \in Vivants
          /\ compte' = [compte EXCEPT ![u].secret = <<compte[u].adresse[1], i>>]
          /\ <<compte[u].adresse[1], u>> \in repris'
      BY <1>0, <1>7, <2>1 DEF Reset
    <3>2. compte[u] \in Row
      BY <3>1, RowsArePresent DEF TypeInv
    <3>3. /\ compte'[u].secret = <<compte[u].adresse[1], i>>
          /\ compte'[u].sujet = compte[u].sujet
      BY <1>0, <3>1, <3>2 DEF Row
    <3>4. Legitime(compte[u].secret[1], u)'
      BY <3>1, <3>3 DEF Legitime
    <3> QED
      BY <1>1, <3>1, <3>3, <3>4, RowOwnedStays
  <2> QED
    BY <1>2, <2>1
<1>8. ASSUME NEW p \in Personnes, NEW k \in Comptes, DeleteAccount(p, k)
      PROVE  compte'[u] = compte[u]
  BY <1>0, <1>8 DEF DeleteAccount
<1>9. ASSUME TableUntouched PROVE compte'[u] = compte[u]
  BY <1>9 DEF TableUntouched
<1> QED
  BY <1>2, <1>3, <1>4, <1>5, <1>6, <1>7, <1>8, <1>9, TableSteps

\* The step on the sessions.
LEMMA SessionsStayOwned ==
  ASSUME TypeInv, OwnInv, [Next]_vars
  PROVE  SessionsOwned'
<1> SUFFICES ASSUME NEW x \in sessions'
             PROVE  createur'[x[2]] = x[1] \/ x \in repris'
  BY DEF SessionsOwned
<1>0. /\ sessions \in SUBSET (Personnes \X Comptes)
      /\ createur \in [Comptes -> Personnes \cup {None}]
      /\ RowsOwned
  BY DEF TypeInv, TypeOK, OwnInv
<1>1. ASSUME NEW p \in Personnes, NEW u \in Comptes, Legitime(p, u), x = <<p, u>>
      PROVE  createur'[x[2]] = x[1] \/ x \in repris'
  BY <1>1, LegitimacyLasts DEF Legitime
<1>2. CASE x \in sessions
  <2>1. PICK p \in Personnes, u \in Comptes : x = <<p, u>>
    BY <1>0, <1>2
  <2> QED
    BY <1>1, <1>2, <2>1, SessionIsLegitimate DEF OwnInv
<1>3. ASSUME NEW r \in Requetes, NEW u \in Comptes, NEW l, Insertion(r, u, l)
      PROVE  createur'[x[2]] = x[1] \/ x \in repris'
  BY <1>0, <1>2, <1>3 DEF Insertion
<1>4. ASSUME NEW p \in Personnes, NEW u \in Comptes, Login(p, u)
      PROVE  createur'[x[2]] = x[1] \/ x \in repris'
  <2>1. u \in Vivants /\ compte[u].secret # None /\ compte[u].secret[1] = p
    BY <1>4, Holders, NoneAssumption DEF Login
  <2>2. Legitime(p, u)
    BY <1>0, <2>1 DEF RowsOwned, RowOwned
  <2> QED
    BY <1>1, <1>2, <1>4, <2>2 DEF Login
<1>5. ASSUME NEW r \in Requetes, NEW e \in Emetteurs, NEW s \in Sujets,
             NEW a \in Adresses, NEW b \in BOOLEAN, LoginWith(r, e, s, a, b)
      PROVE  createur'[x[2]] = x[1] \/ x \in repris'
  <2>1. CASE x \notin sessions
    <3>1. PICK u \in Vivants : compte[u].sujet[e] = s /\ x = <<s[1], u>>
      BY <1>5, <2>1 DEF LoginWith, Continuer
    <3>2. s # None /\ s[1] \in Personnes /\ u \in Comptes
      BY NoneAssumption DEF Sujets, Vivants
    <3>3. Legitime(s[1], u)
      BY <1>0, <3>1, <3>2 DEF RowsOwned, RowOwned
    <3> QED
      BY <1>1, <3>1, <3>2, <3>3
  <2> QED
    BY <1>2, <2>1
<1>6. CASE UNCHANGED sessions
  BY <1>2, <1>6
<1>7. ASSUME NEW r \in Requetes, EcrireLien(r) PROVE UNCHANGED sessions
  BY <1>7 DEF EcrireLien
<1>8. \/ UNCHANGED sessions
      \/ \E r \in Requetes, u \in Comptes : \E l : Insertion(r, u, l)
      \/ \E p \in Personnes, u \in Comptes : Login(p, u)
      \/ \E r \in Requetes, e \in Emetteurs, s \in Sujets, a \in Adresses,
            b \in BOOLEAN : LoginWith(r, e, s, a, b)
  BY <1>7, SessionSteps
<1> QED
  BY <1>3, <1>4, <1>5, <1>6, <1>8

\* Rows and handlers stay with the people they belong to.
THEOREM AccountsOwned == Spec => []OwnInv
<1>1. Init => OwnInv
  BY LibreIsNoStep
  DEF Init, OwnInv, RowsOwned, Vivants, HandlersServed, Served, SessionsOwned, Etapes
<1>2. TypeInv /\ OwnInv /\ [Next]_vars => OwnInv'
  BY RowsOwnedStays, ServedStays, SessionsStayOwned DEF OwnInv
<1> QED
  BY <1>1, <1>2, AccountsTypeInv, PTL DEF Spec

\* Sign-ins, links, choices and resets, in any order and number, never give a
\* person a session on an account that is not theirs.
THEOREM AccountsSessionsOwned == Spec => []SessionsOwned
<1>1. OwnInv => SessionsOwned
  BY DEF OwnInv
<1> QED
  BY <1>1, AccountsOwned, PTL

-----------------------------------------------------------------------------
(* What is chosen stays                                                    *)

\* A row that survives a step keeps its address, and what it has been given,
\* but for a reset of its password.
LEMMA RowsKept ==
  ASSUME TypeInv, RowsOwned, [Next]_vars, NEW u \in Vivants, compte'[u] # Absent
  PROVE  /\ compte'[u].adresse = compte[u].adresse
         /\ compte[u].nom # None => compte'[u].nom = compte[u].nom
         /\ \A e \in Emetteurs : compte[u].sujet[e] # None =>
              compte'[u].sujet[e] = compte[u].sujet[e]
         /\ compte[u].secret # None /\ compte'[u].secret # compte[u].secret =>
              \E i \in Numeros : Reset(u, i)
<1> DEFINE Kept ==
      /\ compte'[u].adresse = compte[u].adresse
      /\ compte[u].nom # None => compte'[u].nom = compte[u].nom
      /\ \A e \in Emetteurs : compte[u].sujet[e] # None =>
           compte'[u].sujet[e] = compte[u].sujet[e]
      /\ compte[u].secret # None /\ compte'[u].secret # compte[u].secret =>
           \E i \in Numeros : Reset(u, i)
<1>0. compte \in [Comptes -> {Absent} \cup Row]
  BY DEF TypeInv, TypeOK
<1>1. u \in Comptes /\ compte[u] \in Row /\ createur[u] # None
  BY Holders DEF RowsOwned, RowOwned
<1>2. CASE compte'[u] = compte[u]
  BY <1>2
<1>3. ASSUME NEW r \in Requetes, NEW k \in Comptes, NEW l, Insertion(r, k, l)
      PROVE  compte'[u] = compte[u]
  BY <1>0, <1>1, <1>3 DEF Insertion
<1>4. ASSUME NEW r \in Requetes, EcrireLien(r) PROVE Kept
  <2>1. CASE compte'[u] # compte[u]
    <3>1. /\ compte[u].sujet[requete[r].emetteur] = None
          /\ compte' = [compte EXCEPT
                ![u].sujet[requete[r].emetteur] = requete[r].sujet]
      BY <1>0, <1>1, <1>4, <2>1 DEF EcrireLien
    <3> QED
      BY <1>0, <1>1, <3>1 DEF Row
  <2> QED
    BY <1>2, <2>1
<1>5. ASSUME NEW r \in Requetes, EcrireNom(r) PROVE Kept
  <2>1. CASE compte'[u] # compte[u]
    <3>1. /\ compte[u].nom = None
          /\ compte' = [compte EXCEPT ![u].nom = requete[r].nom]
      BY <1>0, <1>1, <1>5, <2>1 DEF EcrireNom
    <3> QED
      BY <1>0, <1>1, <3>1 DEF Row
  <2> QED
    BY <1>2, <2>1
<1>6. ASSUME NEW r \in Requetes, EcrireSecret(r) PROVE Kept
  <2>1. CASE compte'[u] # compte[u]
    <3>1. /\ compte[u].secret = None
          /\ compte' = [compte EXCEPT ![u].secret = requete[r].secret]
      BY <1>0, <1>1, <1>6, <2>1 DEF EcrireSecret
    <3> QED
      BY <1>0, <1>1, <3>1 DEF Row
  <2> QED
    BY <1>2, <2>1
<1>7. ASSUME NEW k \in Comptes, NEW i \in Numeros, Reset(k, i) PROVE Kept
  <2>1. CASE compte'[u] # compte[u]
    <3>1. /\ k = u
          /\ compte' = [compte EXCEPT ![u].secret = <<compte[u].adresse[1], i>>]
      BY <1>0, <1>1, <1>7, <2>1 DEF Reset
    <3>2. /\ compte'[u].adresse = compte[u].adresse
          /\ compte'[u].nom = compte[u].nom /\ compte'[u].sujet = compte[u].sujet
      BY <1>0, <1>1, <3>1 DEF Row
    <3>3. \E j \in Numeros : Reset(u, j)
      BY <1>7, <3>1
    <3> QED
      BY <3>2, <3>3
  <2> QED
    BY <1>2, <2>1
<1>8. ASSUME NEW p \in Personnes, NEW k \in Comptes, DeleteAccount(p, k)
      PROVE  compte'[u] = compte[u]
  BY <1>0, <1>1, <1>8 DEF DeleteAccount
<1>9. CASE TableUntouched
  BY <1>2, <1>9 DEF TableUntouched
<1> QED
  <2> HIDE DEF Kept
  <2>1. compte'[u] = compte[u] => Kept
    BY <1>2 DEF Kept
  <2>2. Kept
    BY <1>3, <1>4, <1>5, <1>6, <1>7, <1>8, <1>9, <2>1, TableSteps DEF TableUntouched
  <2> QED
    BY <2>2 DEF Kept

\* A key that has been used never bears a new row.
LEMMA NoRevival ==
  ASSUME TypeInv, [Next]_vars, NEW u \in Comptes, createur[u] # None,
         compte'[u] # Absent
  PROVE  u \in Vivants
<1>0. compte \in [Comptes -> {Absent} \cup Row]
  BY DEF TypeInv, TypeOK
<1> SUFFICES ASSUME compte[u] = Absent PROVE compte'[u] = Absent
  BY DEF Vivants
<1>1. ASSUME NEW r \in Requetes, NEW k \in Comptes, NEW l, Insertion(r, k, l)
      PROVE  compte'[u] = compte[u]
  BY <1>0, <1>1 DEF Insertion
<1>2. ASSUME NEW r \in Requetes, EcrireLien(r) \/ EcrireNom(r) \/ EcrireSecret(r)
      PROVE  compte'[u] = compte[u]
  BY <1>0, <1>2 DEF EcrireLien, EcrireNom, EcrireSecret, Vivants
<1>3. ASSUME NEW k \in Comptes, NEW i \in Numeros, Reset(k, i)
      PROVE  compte'[u] = compte[u]
  BY <1>0, <1>3 DEF Reset, Vivants
<1>4. ASSUME NEW p \in Personnes, NEW k \in Comptes, DeleteAccount(p, k)
      PROVE  compte'[u] = compte[u] \/ compte'[u] = Absent
  BY <1>0, <1>4 DEF DeleteAccount
<1> QED
  BY <1>1, <1>2, <1>3, <1>4, TableSteps DEF TableUntouched

\* Choices are never replaced, however many handlers choose at once.
THEOREM AccountsChosenOnce == Spec => ChosenOnce
<1>1. ASSUME TypeInv, OwnInv, [Next]_vars
      PROVE  [\A u \in Vivants : compte'[u] # Absent =>
                /\ compte'[u].adresse = compte[u].adresse
                /\ compte[u].nom # None => compte'[u].nom = compte[u].nom
                /\ \A e \in Emetteurs : compte[u].sujet[e] # None =>
                     compte'[u].sujet[e] = compte[u].sujet[e]
                /\ compte[u].secret # None /\ compte'[u].secret # compte[u].secret =>
                     \E i \in Numeros : Reset(u, i)]_vars
  BY <1>1, RowsKept DEF OwnInv
<1> QED
  BY <1>1, AccountsTypeInv, AccountsOwned, PTL DEF Spec, ChosenOnce

-----------------------------------------------------------------------------
(* An identity opens one account                                           *)

\* Whatever an identity has opened still carries it, if it lives.
OpenedCarry ==
  \A x \in ouverts :
     /\ createur[x[3]] # None
     /\ x[3] \in Vivants => compte[x[3]].sujet[x[1]] = x[2]

\* No two rows carry one identity: the unique indexes.
SubjectsUnique ==
  \A u, v \in Vivants : \A e \in Emetteurs :
     compte[u].sujet[e] # None /\ compte[u].sujet[e] = compte[v].sujet[e] => u = v

StickInv == OpenedCarry /\ SubjectsUnique

\* The step on what identities have opened.
LEMMA OpenedStays ==
  ASSUME TypeInv, RowsOwned, StickInv, [Next]_vars
  PROVE  OpenedCarry'
<1> SUFFICES ASSUME NEW x \in ouverts'
             PROVE  /\ createur'[x[3]] # None
                    /\ compte'[x[3]] # Absent => compte'[x[3]].sujet[x[1]] = x[2]
  BY DEF OpenedCarry, Vivants
<1> DEFINE Porte == /\ createur'[x[3]] # None
                    /\ compte'[x[3]] # Absent => compte'[x[3]].sujet[x[1]] = x[2]
<1>0. /\ ouverts \in SUBSET (Emetteurs \X Sujets \X Comptes)
      /\ compte \in [Comptes -> {Absent} \cup Row]
      /\ createur \in [Comptes -> Personnes \cup {None}]
  BY DEF TypeInv, TypeOK
<1>1. CASE x \in ouverts
  <2>1. x[1] \in Emetteurs /\ x[2] \in Sujets /\ x[3] \in Comptes
    BY <1>0, <1>1
  <2>2. x[2] # None
    BY <2>1, NoneAssumption DEF Sujets
  <2>3. createur[x[3]] # None /\ createur'[x[3]] # None
    BY <1>1, <2>1, HistoryGrows DEF StickInv, OpenedCarry
  <2>4. ASSUME compte'[x[3]] # Absent PROVE compte'[x[3]].sujet[x[1]] = x[2]
    <3>1. x[3] \in Vivants
      BY <2>1, <2>3, <2>4, NoRevival
    <3>2. compte[x[3]].sujet[x[1]] = x[2]
      BY <1>1, <3>1 DEF StickInv, OpenedCarry
    <3> QED
      BY <2>1, <2>2, <2>4, <3>1, <3>2, RowsKept
  <2> QED
    BY <2>3, <2>4
<1>2. ASSUME NEW r \in Requetes, NEW u \in Comptes, NEW l, Insertion(r, u, l)
      PROVE  Porte
  <2>1. CASE x \notin ouverts
    <3>1. PICK e \in Emetteurs : x = <<e, l.sujet[e], u>>
      BY <1>2, <2>1 DEF Insertion
    <3>2. compte'[u] = l /\ createur'[u] = requete[r].qui
      BY <1>0, <1>2 DEF Insertion
    <3>3. requete[r].qui \in Personnes
      BY <1>2, InsertionIsRow DEF EnVol
    <3> QED
      BY <3>1, <3>2, <3>3, NoneAssumption
  <2> QED
    BY <1>1, <2>1
<1>3. ASSUME NEW r \in Requetes, EcrireLien(r) PROVE Porte
  <2>1. CASE x \notin ouverts
    <3>1. /\ x = <<requete[r].emetteur, requete[r].sujet, requete[r].compte>>
          /\ requete[r].compte \in Vivants
          /\ compte' = [compte EXCEPT
                ![requete[r].compte].sujet[requete[r].emetteur] = requete[r].sujet]
      BY <1>3, <2>1 DEF EcrireLien
    <3>2. requete[r].emetteur \in Emetteurs
      <4>1. requete[r] \in EnVol
        BY <1>3, HandlerInFlight DEF EcrireLien, Etapes, TypeInv, TypeOK
      <4> QED
        BY <1>3, <4>1 DEF EcrireLien, EnVol, TypeInv, HandlersFilled, Filled
    <3>3. /\ requete[r].compte \in Comptes /\ compte[requete[r].compte] \in Row
          /\ createur[requete[r].compte] # None
      BY <3>1, Holders DEF RowsOwned, RowOwned
    <3>4. compte'[requete[r].compte].sujet[requete[r].emetteur] = requete[r].sujet
      BY <1>0, <3>1, <3>2, <3>3 DEF Row
    <3>5. createur'[requete[r].compte] # None
      BY <3>3, HistoryGrows
    <3> QED
      BY <3>1, <3>4, <3>5
  <2> QED
    BY <1>1, <2>1
<1>4. ASSUME NEW r \in Requetes, NEW e \in Emetteurs, NEW s \in Sujets,
             NEW a \in Adresses, NEW b \in BOOLEAN, LoginWith(r, e, s, a, b)
      PROVE  Porte
  <2>1. CASE x \notin ouverts
    <3>1. PICK u \in Vivants : compte[u].sujet[e] = s /\ x = <<e, s, u>>
      BY <1>4, <2>1 DEF LoginWith, Continuer, histoire
    <3>2. UNCHANGED <<compte, createur>>
      BY <1>4 DEF LoginWith, Continuer, histoire
    <3>3. createur[u] # None
      BY <3>1 DEF RowsOwned, RowOwned
    <3> QED
      BY <3>1, <3>2, <3>3
  <2> QED
    BY <1>1, <2>1
<1>5. ASSUME NEW p \in Personnes, NEW u \in Comptes, Login(p, u)
      PROVE  ouverts' = ouverts
  BY <1>5 DEF Login, histoire
<1> QED
  <2> HIDE DEF Porte
  <2>1. x \in ouverts => Porte
    BY <1>1 DEF Porte
  <2>2. Porte
    BY <1>2, <1>3, <1>4, <1>5, <2>1, SessionSteps
  <2> QED
    BY <2>2 DEF Porte

\* The step on the unique indexes of the identities.
LEMMA SubjectsStayUnique ==
  ASSUME TypeInv, RowsOwned, SubjectsUnique, [Next]_vars
  PROVE  SubjectsUnique'
<1> SUFFICES ASSUME NEW u \in Comptes, NEW v \in Comptes, NEW e \in Emetteurs,
                    compte'[u] # Absent, compte'[v] # Absent,
                    compte'[u].sujet[e] # None,
                    compte'[u].sujet[e] = compte'[v].sujet[e], u # v
             PROVE  FALSE
  BY DEF SubjectsUnique, Vivants
<1>0. compte \in [Comptes -> {Absent} \cup Row]
  BY DEF TypeInv, TypeOK
<1>2. ASSUME \A w \in {u, v} : w \in Vivants /\ compte'[w].sujet[e] = compte[w].sujet[e]
      PROVE  FALSE
  BY <1>2 DEF SubjectsUnique
<1>3. ASSUME NEW r \in Requetes, NEW k \in Comptes, NEW l, Insertion(r, k, l)
      PROVE  FALSE
  <2>1. \A w \in Comptes : compte'[w] = IF w = k THEN l ELSE compte[w]
    BY <1>0, <1>3 DEF Insertion
  <2>2. \A w \in Vivants \ {k} : l.sujet[e] # None => compte[w].sujet[e] # l.sujet[e]
    BY <1>3 DEF Insertion, Insertable, SujetPris
  <2>3. \A w \in {u, v} : w # k => w \in Vivants
    BY <2>1 DEF Vivants
  <2> QED
    BY <1>2, <2>1, <2>2, <2>3
<1>4. ASSUME NEW r \in Requetes, EcrireLien(r) PROVE FALSE
  <2>1. CASE compte' = compte
    BY <1>2, <2>1 DEF Vivants
  <2>2. CASE compte' # compte
    <3>1. PICK k \in Vivants : k = requete[r].compte
      BY <1>4, <2>2 DEF EcrireLien
    <3>2. /\ compte' = [compte EXCEPT ![k].sujet[requete[r].emetteur] = requete[r].sujet]
          /\ ~SujetPris(k, requete[r].emetteur, requete[r].sujet)
      BY <1>4, <2>2, <3>1 DEF EcrireLien
    <3>3. k \in Comptes /\ compte[k] \in Row
      BY <3>1, Holders
    <3>4. /\ \A w \in Comptes \ {k} : compte'[w] = compte[w]
          /\ compte'[k].sujet[e] = IF e = requete[r].emetteur THEN requete[r].sujet
                                   ELSE compte[k].sujet[e]
      BY <1>0, <3>2, <3>3 DEF Row
    <3>5. u \in Vivants /\ v \in Vivants
      BY <3>1, <3>4 DEF Vivants
    <3>6. e = requete[r].emetteur =>
            \A w \in Vivants \ {k} : compte[w].sujet[e] # requete[r].sujet
      BY <3>2 DEF SujetPris
    <3> QED
      BY <1>2, <3>4, <3>5, <3>6
  <2> QED
    BY <2>1, <2>2
<1>5. ASSUME NEW r \in Requetes, EcrireNom(r) PROVE FALSE
  <2>1. \A w \in Comptes : compte'[w] # Absent =>
           w \in Vivants /\ compte'[w].sujet = compte[w].sujet
    <3>1. CASE compte' = compte
      BY <3>1 DEF Vivants
    <3>2. CASE compte' # compte
      <4>1. PICK k \in Vivants :
              compte' = [compte EXCEPT ![k].nom = requete[r].nom]
        BY <1>5, <3>2 DEF EcrireNom
      <4>2. k \in Comptes /\ compte[k] \in Row
        BY <4>1, Holders
      <4> QED
        BY <1>0, <4>1, <4>2 DEF Row, Vivants
    <3> QED
      BY <3>1, <3>2
  <2> QED
    BY <1>2, <2>1
<1>6. ASSUME NEW r \in Requetes, EcrireSecret(r) PROVE FALSE
  <2>1. \A w \in Comptes : compte'[w] # Absent =>
           w \in Vivants /\ compte'[w].sujet = compte[w].sujet
    <3>1. CASE compte' = compte
      BY <3>1 DEF Vivants
    <3>2. CASE compte' # compte
      <4>1. PICK k \in Vivants :
              compte' = [compte EXCEPT ![k].secret = requete[r].secret]
        BY <1>6, <3>2 DEF EcrireSecret
      <4>2. k \in Comptes /\ compte[k] \in Row
        BY <4>1, Holders
      <4> QED
        BY <1>0, <4>1, <4>2 DEF Row, Vivants
    <3> QED
      BY <3>1, <3>2
  <2> QED
    BY <1>2, <2>1
<1>7. ASSUME NEW k \in Comptes, NEW i \in Numeros, Reset(k, i) PROVE FALSE
  <2>1. /\ k \in Vivants /\ compte[k] \in Row
        /\ compte' = [compte EXCEPT ![k].secret = <<compte[k].adresse[1], i>>]
    BY <1>7, Holders DEF Reset
  <2>2. \A w \in Comptes : compte'[w] # Absent =>
           w \in Vivants /\ compte'[w].sujet = compte[w].sujet
    BY <1>0, <2>1 DEF Row, Vivants
  <2> QED
    BY <1>2, <2>2
<1>8. ASSUME NEW p \in Personnes, NEW k \in Comptes, DeleteAccount(p, k)
      PROVE  FALSE
  <2>1. \A w \in Comptes : compte'[w] # Absent => compte'[w] = compte[w]
    BY <1>0, <1>8 DEF DeleteAccount
  <2> QED
    BY <1>2, <2>1 DEF Vivants
<1>9. CASE TableUntouched
  BY <1>2, <1>9 DEF TableUntouched, Vivants
<1> QED
  BY <1>3, <1>4, <1>5, <1>6, <1>7, <1>8, <1>9, TableSteps

\* An identity opens one account and an account keeps its identity, for as
\* long as they live.
THEOREM AccountsSubjectSticks == Spec => []SubjectSticks
<1>1. Init => StickInv
  BY DEF Init, StickInv, OpenedCarry, SubjectsUnique, Vivants
<1>2. TypeInv /\ OwnInv /\ StickInv /\ [Next]_vars => StickInv'
  BY OpenedStays, SubjectsStayUnique DEF OwnInv, StickInv
<1>3. ASSUME TypeInv, StickInv PROVE SubjectSticks
  <2> SUFFICES ASSUME NEW x \in ouverts, NEW y \in ouverts, x[1] = y[1],
                      x[3] \in Vivants, y[3] \in Vivants
               PROVE  x[2] = y[2] <=> x[3] = y[3]
    BY DEF SubjectSticks
  <2>1. /\ x[1] \in Emetteurs /\ x[2] \in Sujets /\ y[2] \in Sujets
        /\ compte[x[3]].sujet[x[1]] = x[2] /\ compte[y[3]].sujet[x[1]] = y[2]
    BY <1>3 DEF StickInv, OpenedCarry, TypeInv, TypeOK
  <2>2. x[2] # None
    BY <2>1, NoneAssumption DEF Sujets
  <2>3. x[2] = y[2] => x[3] = y[3]
    BY <1>3, <2>1, <2>2 DEF StickInv, SubjectsUnique
  <2>4. x[3] = y[3] => x[2] = y[2]
    BY <2>1
  <2> QED
    BY <2>3, <2>4
<1> QED
  BY <1>1, <1>2, <1>3, AccountsTypeInv, AccountsOwned, PTL DEF Spec

-----------------------------------------------------------------------------
(* Twins come from handlers that overlapped                                *)

\* The accounts a lookup has seen exist or existed, and none of those that
\* still live has the address or the name that was looked up.
Seen(q) ==
  /\ \A x \in q.vus \cup q.vusNommes : createur[x] # None
  /\ q.etape \in {"nom", "inscrire", "creer"} =>
       \A x \in q.vus \cap Vivants : compte[x].adresse[1] # q.adresse[1]
  /\ \A x \in q.vusNommes \cap Vivants : compte[x].nom # None
  /\ q.etape \in {"inscrire", "nommer"} =>
       \A x \in q.vusNommes \cap Vivants : compte[x].nom[1] # q.nom[1]

HandlersSeen == \A r \in Requetes : Seen(requete[r])

\* So do those the history keeps, and the named ones are still named.
HistorySeen ==
  \A u \in Comptes :
     /\ \A x \in connus[u] \cup nommes[u] : createur[x] # None
     /\ \A x \in nommes[u] \cap Vivants : compte[x].nom # None

TwinInv == HandlersSeen /\ HistorySeen /\ TwinsOverlapped

\* What was seen stays seen: no key is used twice, addresses do not change,
\* names are not replaced.
LEMMA SightingsLast ==
  ASSUME TypeInv, RowsOwned, [Next]_vars, NEW x \in Comptes, createur[x] # None
  PROVE  /\ createur'[x] # None
         /\ x \in Vivants' =>
              /\ x \in Vivants /\ compte'[x].adresse = compte[x].adresse
              /\ compte[x].nom # None => compte'[x].nom = compte[x].nom
<1>1. createur'[x] # None
  BY HistoryGrows
<1>2. ASSUME x \in Vivants'
      PROVE  /\ x \in Vivants /\ compte'[x].adresse = compte[x].adresse
             /\ compte[x].nom # None => compte'[x].nom = compte[x].nom
  <2>1. compte'[x] # Absent
    BY <1>2 DEF Vivants
  <2> QED
    BY <2>1, NoRevival, RowsKept
<1> QED
  BY <1>1, <1>2

\* The sets of keys the handlers and the history hold.
LEMMA SeenTypes ==
  ASSUME TypeInv
  PROVE  /\ \A r \in Requetes : /\ requete[r].vus \in SUBSET Comptes
                                /\ requete[r].vusNommes \in SUBSET Comptes
         /\ \A u \in Comptes : /\ connus[u] \in SUBSET Comptes
                               /\ nommes[u] \in SUBSET Comptes
<1>1. ASSUME NEW r \in Requetes
      PROVE  /\ requete[r].vus \in SUBSET Comptes
             /\ requete[r].vusNommes \in SUBSET Comptes
  <2>1. requete[r] \in {Libre} \cup EnVol
    BY DEF TypeInv, TypeOK
  <2>2. CASE requete[r] = Libre
    BY <2>2 DEF Libre
  <2>3. CASE requete[r] \in EnVol
    BY <2>3 DEF EnVol
  <2> QED
    BY <2>1, <2>2, <2>3
<1> QED
  BY <1>1 DEF TypeInv, TypeOK

\* A record that has seen what an earlier one had still has.
LEMMA SeenLasts ==
  ASSUME TypeInv, RowsOwned, [Next]_vars, NEW q,
         q.vus \in SUBSET Comptes, q.vusNommes \in SUBSET Comptes, Seen(q)
  PROVE  \A o : o = q => Seen(o)'
<1>1. \A x \in q.vus \cup q.vusNommes : createur'[x] # None
  BY SightingsLast DEF Seen
<1>2. q.etape \in {"nom", "inscrire", "creer"} =>
        \A x \in q.vus \cap Vivants' : compte'[x].adresse[1] # q.adresse[1]
  BY SightingsLast DEF Seen
<1>3. \A x \in q.vusNommes \cap Vivants' : compte'[x].nom # None
  BY SightingsLast DEF Seen
<1>4. q.etape \in {"inscrire", "nommer"} =>
        \A x \in q.vusNommes \cap Vivants' : compte'[x].nom[1] # q.nom[1]
  BY SightingsLast DEF Seen
<1> QED
  BY <1>1, <1>2, <1>3, <1>4 DEF Seen

\* The step on what the handlers have seen.
LEMMA HandlersStaySeen ==
  ASSUME TypeInv, OwnInv, TwinInv, [Next]_vars
  PROVE  HandlersSeen'
<1> SUFFICES ASSUME NEW r \in Requetes PROVE Seen(requete[r])'
  BY DEF HandlersSeen
<1>1. /\ Seen(requete[r]) /\ RowsOwned
      /\ requete[r].vus \in SUBSET Comptes /\ requete[r].vusNommes \in SUBSET Comptes
      /\ Vivants \in SUBSET Comptes /\ Nommes \in SUBSET Comptes
      /\ Nommes \subseteq Vivants
      /\ \A x \in Vivants : createur[x] # None
  BY SeenTypes DEF TwinInv, HandlersSeen, OwnInv, RowsOwned, RowOwned, Vivants, Nommes
<1>2. ASSUME NEW q, requete'[r] = q, Seen(q),
             q.vus \in SUBSET Comptes, q.vusNommes \in SUBSET Comptes
      PROVE  Seen(requete[r])'
  <2>1. \A o : o = q => Seen(o)'
    BY <1>1, <1>2, SeenLasts
  <2> QED
    BY <1>2, <2>1 DEF Seen
<1>3. CASE requete'[r] = requete[r]
  BY <1>1, <1>2, <1>3
<1>4. CASE requete'[r] = Libre
  <2>1. Seen(Libre) /\ Libre.vus = {} /\ Libre.vusNommes = {}
    BY DEF Seen, Libre
  <2> QED
    BY <1>2, <1>4, <2>1
<1>5. requete \in [Requetes -> {Libre} \cup EnVol]
  BY DEF TypeInv, TypeOK
<1>6. ASSUME NEW q, Continuer(r, q) PROVE requete'[r] = q
  BY <1>5, <1>6 DEF Continuer
<1>7. ASSUME NEW q, Continuer(r, q), q.vus = {}, q.vusNommes = {}
      PROVE  Seen(requete[r])'
  <2>1. Seen(q)
    BY <1>7 DEF Seen
  <2> QED
    BY <1>2, <1>6, <1>7, <2>1
<1>8. ASSUME NEW p \in Personnes, NEW a \in Adresses, NEW n \in Pseudonymes,
             NEW i \in Numeros, Register(r, p, a, n, i)
      PROVE  Seen(requete[r])'
  <2>0. PICK q : /\ Continuer(r, q)
                 /\ q = [Libre EXCEPT !.etape = "nom", !.qui = p, !.adresse = a,
                           !.nom = n, !.secret = <<p, i>>, !.vus = Vivants]
    BY <1>8 DEF Register
  <2>1. /\ Continuer(r, q) /\ q.etape = "nom" /\ q.adresse = a
        /\ q.vus = Vivants /\ q.vusNommes = {}
    BY <2>0 DEF Libre
  <2>2. \A x \in Vivants : compte[x].adresse[1] # a[1]
    BY <1>8 DEF Register, AdressePrise
  <2>3. Seen(q)
    BY <1>1, <2>1, <2>2 DEF Seen
  <2> QED
    BY <1>1, <1>2, <1>6, <2>1, <2>3
<1>9. ASSUME NEW e \in Emetteurs, NEW s \in Sujets, NEW a \in Adresses,
             NEW b \in BOOLEAN, LoginWith(r, e, s, a, b)
      PROVE  Seen(requete[r])'
  <2>1. CASE UNCHANGED requete
    BY <1>3, <2>1
  <2>2. CASE ~UNCHANGED requete
    <3>0. PICK q : Continuer(r, q) /\ q = [Libre EXCEPT !.etape = "adresse", !.qui = s[1],
             !.adresse = a, !.emetteur = e, !.sujet = s, !.verifie = b]
      BY <1>9, <2>2 DEF LoginWith
    <3>1. Continuer(r, q) /\ q.vus = {} /\ q.vusNommes = {}
      BY <3>0 DEF Libre
    <3> QED
      BY <1>7, <3>1
  <2> QED
    BY <2>1, <2>2
<1>10. ASSUME NEW p \in Personnes, NEW u \in Comptes, NEW e \in Emetteurs,
              NEW s \in Sujets, NEW b \in BOOLEAN, Link(r, p, u, e, s, b)
       PROVE  Seen(requete[r])'
  <2>0. PICK q : Continuer(r, q) /\ q = [Libre EXCEPT !.etape = "lier", !.qui = p, !.compte = u,
             !.emetteur = e, !.sujet = s]
    BY <1>10 DEF Link
  <2>1. Continuer(r, q) /\ q.vus = {} /\ q.vusNommes = {}
    BY <2>0 DEF Libre
  <2> QED
    BY <1>7, <2>1
<1>11. ASSUME NEW p \in Personnes, NEW u \in Comptes, NEW n \in Pseudonymes,
              SetUsername(r, p, u, n)
       PROVE  Seen(requete[r])'
  <2>0. PICK q : Continuer(r, q) /\ q = [Libre EXCEPT !.etape = "choisir", !.qui = p, !.compte = u,
             !.nom = n]
    BY <1>11 DEF SetUsername
  <2>1. Continuer(r, q) /\ q.vus = {} /\ q.vusNommes = {}
    BY <2>0 DEF Libre
  <2> QED
    BY <1>7, <2>1
<1>12. ASSUME NEW p \in Personnes, NEW u \in Comptes, NEW i \in Numeros,
              SetPassword(r, p, u, i)
       PROVE  Seen(requete[r])'
  <2>0. PICK q : Continuer(r, q) /\ q = [Libre EXCEPT !.etape = "secret", !.qui = p, !.compte = u,
             !.secret = <<p, i>>]
    BY <1>12 DEF SetPassword
  <2>1. Continuer(r, q) /\ q.vus = {} /\ q.vusNommes = {}
    BY <2>0 DEF Libre
  <2> QED
    BY <1>7, <2>1
<1>13. CASE ControlerNom(r) \/ ControlerAdresse(r) \/ ControlerChoix(r)
  <2>1. PICK q : Continuer(r, q) /\ (q = Libre \/ Looked(requete[r], q))
    BY <1>13, Lookups
  <2>2. CASE q = Libre
    BY <1>4, <1>6, <2>1, <2>2
  <2>3. CASE Looked(requete[r], q)
    <3>1. q.vus \in SUBSET Comptes /\ q.vusNommes \in SUBSET Comptes
      BY <1>1, <2>3 DEF Looked
    <3>2. ~NomPris(requete[r].nom) =>
             \A x \in Nommes : compte[x].nom[1] # requete[r].nom[1]
      BY DEF NomPris
    <3>3. ~AdressePrise(requete[r].adresse) =>
             \A x \in Vivants : compte[x].adresse[1] # requete[r].adresse[1]
      BY DEF AdressePrise
    <3>4. \A x \in Nommes : compte[x].nom # None
      BY DEF Nommes
    <3>5. Seen(q)
      BY <1>1, <2>3, <3>2, <3>3, <3>4 DEF Seen, Looked
    <3> QED
      BY <1>2, <1>6, <2>1, <3>1, <3>5
  <2> QED
    BY <2>1, <2>2, <2>3
<1>14. CASE Arrivee(r)
  BY <1>8, <1>9, <1>10, <1>11, <1>12, <1>14, Arrivals
<1> QED
  BY <1>3, <1>4, <1>13, <1>14, HandlerSteps

\* The steps that write the history of the lookups.
LEMMA HistorySteps ==
  ASSUME TypeInv, [Next]_vars, NEW u \in Comptes
  PROVE  \/ connus'[u] = connus[u] /\ nommes'[u] = nommes[u]
         \/ \E r \in Requetes : \E l :
              /\ Insertion(r, u, l)
              /\ connus'[u] = requete[r].vus /\ nommes'[u] = requete[r].vusNommes
         \/ \E r \in Requetes :
              /\ EcrireNom(r) /\ u = requete[r].compte /\ u \in Vivants
              /\ compte[u].nom = None /\ compte'[u].nom = requete[r].nom
              /\ \A v \in Vivants : compte[v].nom # requete[r].nom
              /\ connus'[u] = connus[u] /\ nommes'[u] = requete[r].vusNommes
<1>0. /\ connus \in [Comptes -> SUBSET Comptes]
      /\ nommes \in [Comptes -> SUBSET Comptes]
      /\ compte \in [Comptes -> {Absent} \cup Row]
  BY DEF TypeInv, TypeOK
<1>1. ASSUME NEW r \in Requetes, NEW k \in Comptes, NEW l, Insertion(r, k, l)
      PROVE  \/ connus'[u] = connus[u] /\ nommes'[u] = nommes[u]
             \/ /\ Insertion(r, u, l)
                /\ connus'[u] = requete[r].vus /\ nommes'[u] = requete[r].vusNommes
  <2>1. CASE k # u
    BY <1>0, <1>1, <2>1 DEF Insertion
  <2>2. CASE k = u
    <3>1. connus'[u] = requete[r].vus /\ nommes'[u] = requete[r].vusNommes
      BY <1>0, <1>1, <2>2 DEF Insertion
    <3> QED
      BY <1>1, <2>2, <3>1
  <2> QED
    BY <2>1, <2>2
<1>2. ASSUME NEW r \in Requetes, EcrireNom(r)
      PROVE  \/ connus'[u] = connus[u] /\ nommes'[u] = nommes[u]
             \/ /\ EcrireNom(r) /\ u = requete[r].compte /\ u \in Vivants
                /\ compte[u].nom = None /\ compte'[u].nom = requete[r].nom
                /\ \A v \in Vivants : compte[v].nom # requete[r].nom
                /\ connus'[u] = connus[u] /\ nommes'[u] = requete[r].vusNommes
  <2>1. connus' = connus
    BY <1>2 DEF EcrireNom
  <2>2. CASE nommes'[u] # nommes[u]
    <3>1. /\ u = requete[r].compte /\ u \in Vivants /\ compte[u].nom = None
          /\ \A v \in Vivants : compte[v].nom # requete[r].nom
          /\ compte' = [compte EXCEPT ![u].nom = requete[r].nom]
          /\ nommes' = [nommes EXCEPT ![u] = requete[r].vusNommes]
      BY <1>0, <1>2, <2>2 DEF EcrireNom
    <3>2. compte[u] \in Row
      BY <3>1, Holders
    <3>3. compte'[u].nom = requete[r].nom /\ nommes'[u] = requete[r].vusNommes
      BY <1>0, <3>1, <3>2 DEF Row
    <3> QED
      BY <1>2, <2>1, <3>1, <3>3
  <2> QED
    BY <2>1, <2>2
<1>3. ASSUME NEW r \in Requetes, EcrireLien(r) \/ EcrireSecret(r)
      PROVE  connus' = connus /\ nommes' = nommes
  BY <1>3 DEF EcrireLien, EcrireSecret, histoire
<1>4. ASSUME NEW k \in Comptes, NEW i \in Numeros, Reset(k, i)
      PROVE  connus' = connus /\ nommes' = nommes
  BY <1>4 DEF Reset
<1>5. ASSUME NEW q \in Personnes, NEW k \in Comptes, DeleteAccount(q, k)
      PROVE  connus' = connus /\ nommes' = nommes
  BY <1>5 DEF DeleteAccount, histoire
<1>6. TableUntouched => connus' = connus /\ nommes' = nommes
  BY DEF TableUntouched
<1> QED
  <2> HIDE DEF Insertion, TableUntouched
  <2> QED
    BY <1>1, <1>2, <1>3, <1>4, <1>5, <1>6, TableSteps

\* The step on what the history keeps of the lookups.
LEMMA HistoryStaysSeen ==
  ASSUME TypeInv, OwnInv, TwinInv, [Next]_vars
  PROVE  HistorySeen'
<1> SUFFICES ASSUME NEW u \in Comptes
             PROVE  /\ \A x \in connus'[u] \cup nommes'[u] : createur'[x] # None
                    /\ \A x \in nommes'[u] \cap Vivants' : compte'[x].nom # None
  BY DEF HistorySeen
<1>1. RowsOwned /\ HistorySeen /\ HandlersSeen
  BY DEF OwnInv, TwinInv
<1>2. ASSUME NEW C \in SUBSET Comptes, \A x \in C : createur[x] # None
      PROVE  \A x \in C : createur'[x] # None
  BY <1>2, HistoryGrows
<1>3. ASSUME NEW N \in SUBSET Comptes, \A x \in N : createur[x] # None,
             \A x \in N \cap Vivants : compte[x].nom # None
      PROVE  \A x \in N \cap Vivants' : compte'[x].nom # None
  BY <1>1, <1>3, SightingsLast
<1>4. /\ connus[u] \in SUBSET Comptes /\ nommes[u] \in SUBSET Comptes
      /\ \A x \in connus[u] : createur[x] # None
      /\ \A x \in nommes[u] : createur[x] # None
      /\ \A x \in nommes[u] \cap Vivants : compte[x].nom # None
  BY <1>1, SeenTypes DEF HistorySeen
<1>5. ASSUME NEW r \in Requetes
      PROVE  /\ requete[r].vus \in SUBSET Comptes
             /\ requete[r].vusNommes \in SUBSET Comptes
             /\ \A x \in requete[r].vus : createur[x] # None
             /\ \A x \in requete[r].vusNommes : createur[x] # None
             /\ \A x \in requete[r].vusNommes \cap Vivants : compte[x].nom # None
  BY <1>1, SeenTypes DEF HandlersSeen, Seen
<1>6. /\ connus'[u] = connus[u] \/ \E r \in Requetes : connus'[u] = requete[r].vus
      /\ nommes'[u] = nommes[u] \/ \E r \in Requetes : nommes'[u] = requete[r].vusNommes
  BY HistorySteps
<1>7. \A x \in connus'[u] : createur'[x] # None
  BY <1>2, <1>4, <1>5, <1>6
<1>8. \A x \in nommes'[u] : createur'[x] # None
  BY <1>2, <1>4, <1>5, <1>6
<1>9. \A x \in nommes'[u] \cap Vivants' : compte'[x].nom # None
  BY <1>3, <1>4, <1>5, <1>6
<1> QED
  BY <1>7, <1>8, <1>9

\* A row that is there after a step was there before, or has just been inserted.
LEMMA LiveBefore ==
  ASSUME TypeInv, [Next]_vars, NEW u \in Comptes, u \in Vivants', u \notin Vivants
  PROVE  \E r \in Requetes : \E l : Insertion(r, u, l)
<1>0. compte \in [Comptes -> {Absent} \cup Row]
  BY DEF TypeInv, TypeOK
<1>1. compte[u] = Absent /\ compte'[u] # Absent
  BY DEF Vivants
<1>2. ASSUME NEW r \in Requetes, NEW k \in Comptes, NEW l, Insertion(r, k, l)
      PROVE  k = u
  BY <1>0, <1>1, <1>2 DEF Insertion
<1>3. ASSUME NEW r \in Requetes, EcrireLien(r) \/ EcrireNom(r) \/ EcrireSecret(r)
      PROVE  FALSE
  BY <1>0, <1>1, <1>3 DEF EcrireLien, EcrireNom, EcrireSecret, Vivants
<1>4. ASSUME NEW k \in Comptes, NEW i \in Numeros, Reset(k, i) PROVE FALSE
  BY <1>0, <1>1, <1>4 DEF Reset, Vivants
<1>5. ASSUME NEW p \in Personnes, NEW k \in Comptes, DeleteAccount(p, k) PROVE FALSE
  BY <1>0, <1>1, <1>5 DEF DeleteAccount
<1>6. ~TableUntouched
  BY <1>1 DEF TableUntouched
<1> QED
  <2> HIDE DEF Insertion, TableUntouched
  <2> QED
    BY <1>2, <1>3, <1>4, <1>5, <1>6, TableSteps

\* An insertion leaves every other row and its history alone.
LEMMA InsertedAlone ==
  ASSUME TypeInv, NEW r \in Requetes, NEW u \in Comptes, NEW l, Insertion(r, u, l)
  PROVE  /\ compte'[u] = l /\ connus'[u] = requete[r].vus
         /\ nommes'[u] = requete[r].vusNommes
         /\ \A w \in Comptes \ {u} : /\ compte'[w] = compte[w]
                                     /\ connus'[w] = connus[w]
                                     /\ nommes'[w] = nommes[w]
BY DEF Insertion, TypeInv, TypeOK

\* Two spellings of one address: the later handler had not seen the earlier row.
LEMMA AddressTwins ==
  ASSUME TypeInv, OwnInv, TwinInv, [Next]_vars,
         NEW u \in Comptes, NEW v \in Comptes, u # v,
         u \in Vivants', v \in Vivants',
         compte'[u].adresse[1] = compte'[v].adresse[1]
  PROVE  compte'[u].adresse # compte'[v].adresse /\ u \notin connus'[v]
<1>1. /\ RowsOwned /\ HistorySeen /\ HandlersSeen /\ TwinsOverlapped
      /\ \A w \in Vivants : createur[w] # None
  BY DEF OwnInv, TwinInv, RowsOwned, RowOwned
<1>2. \A w \in {u, v} : w \in Vivants => compte'[w].adresse = compte[w].adresse
  BY <1>1, RowsKept DEF Vivants
<1>3. CASE u \in Vivants /\ v \in Vivants
  <2>1. connus'[v] = connus[v]
    BY <1>1, <1>3, HistorySteps DEF Insertion
  <2>2. /\ compte'[u].adresse = compte[u].adresse
        /\ compte'[v].adresse = compte[v].adresse
    BY <1>2, <1>3
  <2>3. /\ compte[u].adresse[1] = compte[v].adresse[1]
           => compte[u].adresse # compte[v].adresse /\ u \notin connus[v]
    BY <1>1, <1>3 DEF TwinsOverlapped
  <2> QED
    BY <2>1, <2>2, <2>3
<1>4. CASE u \notin Vivants
  <2>1. PICK r \in Requetes : \E l : Insertion(r, u, l)
    BY <1>4, LiveBefore
  <2>2. PICK l : Insertion(r, u, l)
    BY <2>1
  <2>3. compte'[u] = l /\ compte'[v] = compte[v] /\ connus'[v] = connus[v]
    BY <2>2, InsertedAlone
  <2>0. createur[u] = None
    BY <2>2 DEF Insertion
  <2>4. v \in Vivants
    BY <2>3 DEF Vivants
  <2>5. compte[v].adresse # l.adresse
    BY <2>2, <2>4 DEF Insertion, Insertable
  <2>6. u \notin connus[v]
    BY <1>1, <2>0 DEF HistorySeen
  <2> QED
    BY <2>3, <2>5, <2>6
<1>5. CASE v \notin Vivants
  <2>1. PICK r \in Requetes : \E l : Insertion(r, v, l)
    BY <1>5, LiveBefore
  <2>2. PICK l : Insertion(r, v, l)
    BY <2>1
  <2>3. /\ compte'[v] = l /\ compte'[u] = compte[u] /\ connus'[v] = requete[r].vus
    BY <2>2, InsertedAlone
  <2>7. l.adresse = requete[r].adresse
    BY <2>2, InsertedColumns
  <2>8. requete[r].etape \in {"inscrire", "creer"}
    BY <2>2 DEF Insertion
  <2>4. u \in Vivants
    BY <2>3 DEF Vivants
  <2>5. compte[u].adresse # l.adresse
    BY <2>2, <2>4 DEF Insertion, Insertable
  <2>6. u \notin requete[r].vus
    BY <1>1, <2>3, <2>4, <2>7, <2>8 DEF HandlersSeen, Seen
  <2> QED
    BY <2>3, <2>5, <2>6
<1> QED
  BY <1>3, <1>4, <1>5

\* w gets its name from handler r, and no other row changes.
NameGiven(r, w) ==
  /\ requete[r].etape \in {"inscrire", "nommer"} /\ compte'[w].nom = requete[r].nom
  /\ \A x \in Nommes \ {w} : compte[x].nom # requete[r].nom
  /\ nommes'[w] = requete[r].vusNommes
  /\ \A x \in Comptes \ {w} : compte'[x] = compte[x] /\ nommes'[x] = nommes[x]
  /\ createur[w] = None \/ (w \in Vivants /\ compte[w].nom = None)

\* A row that has just been named was named by a handler.
LEMMA NewNames ==
  ASSUME TypeInv, RowsOwned, [Next]_vars, NEW w \in Comptes, w \in Nommes', w \notin Nommes
  PROVE  \E r \in Requetes : NameGiven(r, w)
<1>0. /\ compte \in [Comptes -> {Absent} \cup Row]
      /\ nommes \in [Comptes -> SUBSET Comptes]
  BY DEF TypeInv, TypeOK
<1>1. compte'[w] # Absent /\ compte'[w].nom # None
  BY DEF Nommes, Vivants
<1>2. compte'[w] # compte[w]
  BY <1>1 DEF Nommes, Vivants
<1>3. ASSUME NEW r \in Requetes, NEW k \in Comptes, NEW l, Insertion(r, k, l)
      PROVE  NameGiven(r, w)
  <2>1. k = w
    BY <1>2, <1>3, InsertedAlone
  <2>2. /\ compte'[w] = l /\ nommes'[w] = requete[r].vusNommes
        /\ \A x \in Comptes \ {w} : compte'[x] = compte[x] /\ nommes'[x] = nommes[x]
    BY <1>3, <2>1, InsertedAlone
  <2>5. requete[r].etape \in {"inscrire", "creer"} /\ createur[w] = None
    BY <1>3, <2>1 DEF Insertion
  <2>6. /\ requete[r].etape = "inscrire" => l.nom = requete[r].nom
        /\ requete[r].etape = "creer" => l.nom = None
    BY <1>3, InsertedColumns
  <2>3. requete[r].etape = "inscrire" /\ l.nom = requete[r].nom
    BY <1>1, <2>2, <2>5, <2>6
  <2>4. \A x \in Nommes : compte[x].nom # l.nom
    BY <1>1, <1>3, <2>2 DEF Insertion, Insertable, Nommes
  <2> QED
    BY <2>2, <2>3, <2>4, <2>5 DEF NameGiven
<1>4. ASSUME NEW r \in Requetes, EcrireNom(r) PROVE NameGiven(r, w)
  <2>1. /\ w = requete[r].compte /\ w \in Vivants /\ compte[w].nom = None
        /\ requete[r].etape = "nommer"
        /\ \A v \in Vivants : compte[v].nom # requete[r].nom
        /\ compte' = [compte EXCEPT ![w].nom = requete[r].nom]
        /\ nommes' = [nommes EXCEPT ![w] = requete[r].vusNommes]
    BY <1>0, <1>2, <1>4 DEF EcrireNom
  <2>2. compte[w] \in Row
    BY <2>1, Holders
  <2>3. compte'[w].nom = requete[r].nom
    BY <1>0, <2>1, <2>2 DEF Row
  <2>4. /\ nommes'[w] = requete[r].vusNommes
        /\ \A x \in Comptes \ {w} : compte'[x] = compte[x] /\ nommes'[x] = nommes[x]
    BY <1>0, <2>1
  <2> QED
    BY <2>1, <2>3, <2>4 DEF NameGiven, Nommes
<1>5. ASSUME NEW r \in Requetes, EcrireLien(r) PROVE FALSE
  <2>1. PICK k \in Vivants : compte' = [compte EXCEPT
           ![k].sujet[requete[r].emetteur] = requete[r].sujet]
    BY <1>2, <1>5 DEF EcrireLien
  <2>2. compte[k] \in Row
    BY Holders
  <2> QED
    BY <1>0, <1>1, <1>2, <2>1, <2>2 DEF Row, Nommes, Vivants
<1>6. ASSUME NEW r \in Requetes, EcrireSecret(r) PROVE FALSE
  <2>1. PICK k \in Vivants : compte' = [compte EXCEPT ![k].secret = requete[r].secret]
    BY <1>2, <1>6 DEF EcrireSecret
  <2>2. compte[k] \in Row
    BY Holders
  <2> QED
    BY <1>0, <1>1, <1>2, <2>1, <2>2 DEF Row, Nommes, Vivants
<1>7. ASSUME NEW k \in Comptes, NEW i \in Numeros, Reset(k, i) PROVE FALSE
  <2>1. /\ k \in Vivants
        /\ compte' = [compte EXCEPT ![k].secret = <<compte[k].adresse[1], i>>]
    BY <1>7 DEF Reset
  <2>2. compte[k] \in Row
    BY <2>1, Holders
  <2> QED
    BY <1>0, <1>1, <1>2, <2>1, <2>2 DEF Row, Nommes, Vivants
<1>8. ASSUME NEW p \in Personnes, NEW k \in Comptes, DeleteAccount(p, k) PROVE FALSE
  BY <1>0, <1>1, <1>2, <1>8 DEF DeleteAccount
<1>9. ~TableUntouched
  BY <1>2 DEF TableUntouched
<1> QED
  <2> HIDE DEF Insertion, TableUntouched, NameGiven
  <2> QED
    BY <1>3, <1>4, <1>5, <1>6, <1>7, <1>8, <1>9, TableSteps

\* Two spellings of one name: the later handler had not seen the earlier one.
LEMMA NameTwins ==
  ASSUME TypeInv, OwnInv, TwinInv, [Next]_vars,
         NEW u \in Comptes, NEW v \in Comptes, u # v,
         u \in Nommes', v \in Nommes',
         compte'[u].nom[1] = compte'[v].nom[1]
  PROVE  compte'[u].nom # compte'[v].nom /\ u \notin nommes'[v]
<1>1. /\ RowsOwned /\ HistorySeen /\ HandlersSeen /\ TwinsOverlapped
      /\ \A w \in Vivants : createur[w] # None
  BY DEF OwnInv, TwinInv, RowsOwned, RowOwned
<1>2. \A w \in {u, v} : w \in Nommes => compte'[w].nom = compte[w].nom
  BY <1>1, RowsKept DEF Nommes, Vivants
<1>3. CASE u \in Nommes /\ v \in Nommes
  <2>1. createur[v] # None /\ compte[v].nom # None
    BY <1>1, <1>3 DEF Nommes
  <2>2. nommes'[v] = nommes[v]
    BY <2>1, HistorySteps DEF Insertion
  <2>3. compte'[u].nom = compte[u].nom /\ compte'[v].nom = compte[v].nom
    BY <1>2, <1>3
  <2>4. compte[u].nom[1] = compte[v].nom[1] =>
           compte[u].nom # compte[v].nom /\ u \notin nommes[v]
    BY <1>1, <1>3 DEF TwinsOverlapped, Nommes
  <2> QED
    BY <2>2, <2>3, <2>4
<1>4. CASE u \notin Nommes
  <2>1. PICK r \in Requetes : NameGiven(r, u)
    BY <1>1, <1>4, NewNames
  <2>2. compte'[v] = compte[v] /\ nommes'[v] = nommes[v]
    BY <2>1 DEF NameGiven
  <2>3. v \in Nommes
    BY <2>2 DEF Nommes, Vivants
  <2>4. compte[v].nom # requete[r].nom /\ compte'[u].nom = requete[r].nom
    BY <2>1, <2>3 DEF NameGiven
  <2>5. u \notin nommes[v]
    BY <1>1, <2>1 DEF HistorySeen, NameGiven
  <2> QED
    BY <2>2, <2>4, <2>5
<1>5. CASE v \notin Nommes
  <2>1. PICK r \in Requetes : NameGiven(r, v)
    BY <1>1, <1>5, NewNames
  <2>2. compte'[u] = compte[u] /\ nommes'[v] = requete[r].vusNommes
    BY <2>1 DEF NameGiven
  <2>3. u \in Nommes
    BY <2>2 DEF Nommes, Vivants
  <2>4. compte[u].nom # requete[r].nom /\ compte'[v].nom = requete[r].nom
    BY <2>1, <2>3 DEF NameGiven
  <2>5. u \notin requete[r].vusNommes
    BY <1>1, <2>1, <2>2, <2>3, <2>4 DEF HandlersSeen, Seen, NameGiven, Nommes
  <2> QED
    BY <2>2, <2>4, <2>5
<1> QED
  BY <1>3, <1>4, <1>5

\* Two accounts for one mailbox, or two spellings of one name, only come from
\* two handlers that were past their lookups at the same time.
THEOREM AccountsTwinsOverlapped == Spec => []TwinsOverlapped
<1>1. Init => TwinInv
  <2> SUFFICES ASSUME Init PROVE TwinInv
    OBVIOUS
  <2>1. Vivants = {}
    BY DEF Init, Vivants
  <2>2. Seen(Libre)
    BY DEF Seen, Libre
  <2> QED
    BY <2>1, <2>2 DEF Init, TwinInv, HandlersSeen, HistorySeen, TwinsOverlapped
<1>2. ASSUME TypeInv, OwnInv, TwinInv, [Next]_vars PROVE TwinInv'
  <2>1. HandlersSeen' /\ HistorySeen'
    BY <1>2, HandlersStaySeen, HistoryStaysSeen
  <2>2. TwinsOverlapped'
    <3> SUFFICES ASSUME NEW u \in Vivants', NEW v \in Vivants', u # v
                 PROVE  /\ compte'[u].adresse[1] = compte'[v].adresse[1] =>
                             /\ compte'[u].adresse # compte'[v].adresse
                             /\ u \notin connus'[v]
                        /\ u \in Nommes' /\ v \in Nommes'
                             /\ compte'[u].nom[1] = compte'[v].nom[1] =>
                             compte'[u].nom # compte'[v].nom /\ u \notin nommes'[v]
      BY DEF TwinsOverlapped
    <3>1. u \in Comptes /\ v \in Comptes
      BY DEF Vivants
    <3> QED
      BY <1>2, <3>1, AddressTwins, NameTwins
  <2> QED
    BY <2>1, <2>2 DEF TwinInv
<1>3. TwinInv => TwinsOverlapped
  BY DEF TwinInv
<1> QED
  BY <1>1, <1>2, <1>3, AccountsTypeInv, AccountsOwned, PTL DEF Spec
=============================================================================
