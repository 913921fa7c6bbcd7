------------------------- MODULE IncongruesLinkProofs -------------------------
(***************************************************************************)
(* Proofs about IncongruesLink, for any number of accounts, pseudos,       *)
(* tokens and handlers and any clock.                                      *)
(***************************************************************************)
EXTENDS IncongruesLink, TLAPS

\* The records the handlers start from have the type of a row and of a request.
LEMMA InitialRecords == SansLien \in Row /\ Libre \in Requete
BY DEF SansLien, Row, Requete

\* Moving a request to another step, and dating its forum search, keep its type.
LEMMA RequestUpdate ==
  ASSUME NEW q \in EnVol, NEW e \in Etapes, NEW d \in Nat
  PROVE  /\ [q EXCEPT !.etape = e] \in Requete
         /\ [q EXCEPT !.etape = e, !.emisLe = None, !.debut = d] \in Requete
BY DEF Requete, EnVol

\* What a freshly started handler writes down is a request.
LEMMA RequestStart ==
  ASSUME NEW e \in Etapes, NEW u \in Users, NEW p \in Pseudos, NEW j \in Jetons,
         NEW d \in Nat \cup {None}
  PROVE  /\ [Libre EXCEPT !.etape = e, !.user = u, !.pseudo = p, !.jeton = j]
              \in Requete
         /\ [Libre EXCEPT !.etape = e, !.user = u, !.pseudo = p, !.jeton = j,
                          !.emisLe = d] \in Requete
BY DEF Requete, EnVol, Libre

\* A request that is not free is a handler in flight.
LEMMA RequestInFlight ==
  ASSUME NEW q \in Requete, q.etape \in Etapes
  PROVE  q \in EnVol
BY DEF Requete, Etapes, Libre

\* Freeing a claim and recording a proof keep the type of a user row.
LEMMA RowUpdate ==
  ASSUME NEW c \in Row
  PROVE  /\ [c EXCEPT !.pseudo = None, !.jeton = None, !.emisLe = None] \in Row
         /\ [c EXCEPT !.verifie = TRUE, !.jeton = None] \in Row
BY DEF Row

\* The variables keep their types through every handler step.
THEOREM LinkTypeOK == Spec => []TypeOK
<1>1. Init => TypeOK
  BY InitialRecords DEF Init, TypeOK
<1>2. ASSUME TypeOK, [Next]_vars PROVE TypeOK'
  <2> USE <1>2 DEF TypeOK, forum
  <2>1. ASSUME NEW u \in Users, NEW p \in Pseudos, NEW j \in Jetons,
               DemanderJeton(u, p, j)
        PROVE  TypeOK'
    <3>1. Revendication(u, p, j) \in Row
      BY DEF Row, Revendication
    <3>2. [Libre EXCEPT !.etape = "reprise", !.user = u, !.pseudo = p,
                        !.jeton = j] \in Requete
      BY RequestStart DEF Etapes
    <3> QED
      BY <2>1, <3>1, <3>2 DEF DemanderJeton, Poser
  <2>2. ASSUME NEW u \in Users, Verifier(u) PROVE TypeOK'
    <3>1. /\ compte[u].pseudo \in Pseudos /\ compte[u].jeton \in Jetons
          /\ compte[u].emisLe \in Nat \cup {None}
      BY <2>2 DEF Verifier, Row
    <3>2. [Libre EXCEPT !.etape = "lu", !.user = u,
                        !.pseudo = compte[u].pseudo,
                        !.jeton = compte[u].jeton,
                        !.emisLe = compte[u].emisLe] \in Requete
      BY <3>1, RequestStart DEF Etapes
    <3> QED
      BY <2>2, <3>2 DEF Verifier
  <2>3. ASSUME NEW u \in Users, Delier(u) PROVE TypeOK'
    BY <2>3, InitialRecords DEF Delier
  <2>4. ASSUME NEW r \in Requests, Reprise(r) PROVE TypeOK'
    <3>1. \A v \in Users : [compte[v] EXCEPT !.pseudo = None, !.jeton = None,
                                             !.emisLe = None] \in Row
      BY RowUpdate
    <3>2. requete[r] \in EnVol
      BY <2>4, RequestInFlight DEF Reprise, Etapes
    <3>3. [requete[r] EXCEPT !.etape = "reposer"] \in Requete
      BY <3>2, RequestUpdate DEF Etapes
    <3> QED
      BY <2>4, <3>1, <3>3, InitialRecords DEF Reprise
  <2>5. ASSUME NEW r \in Requests, Reposer(r) PROVE TypeOK'
    <3>1. requete[r] \in EnVol
      BY <2>5, RequestInFlight DEF Reposer, Etapes
    <3>2. /\ requete[r].user \in Users /\ requete[r].pseudo \in Pseudos
          /\ requete[r].jeton \in Jetons
      BY <3>1 DEF EnVol
    <3>3. Revendication(requete[r].user, requete[r].pseudo, requete[r].jeton)
            \in Row
      BY <3>2 DEF Row, Revendication
    <3> QED
      BY <2>5, <3>2, <3>3, InitialRecords DEF Reposer, Poser
  <2>6. ASSUME NEW r \in Requests, Autoriser(r) PROVE TypeOK'
    <3>1. requete[r] \in EnVol
      BY <2>6, RequestInFlight DEF Autoriser, Etapes
    <3>2. [requete[r] EXCEPT !.etape = "profil", !.emisLe = None,
                             !.debut = maintenant] \in Requete
      BY <3>1, RequestUpdate DEF Etapes
    <3> QED
      BY <2>6, <3>2, InitialRecords DEF Autoriser
  <2>7. ASSUME NEW r \in Requests, LireProfil(r) PROVE TypeOK'
    <3>1. requete[r] \in EnVol
      BY <2>7, RequestInFlight DEF LireProfil, Etapes
    <3>2. \A e \in {"ecrire", "messages"} :
            [requete[r] EXCEPT !.etape = e] \in Requete
      BY <3>1, RequestUpdate DEF Etapes
    <3> QED
      BY <2>7, <3>2 DEF LireProfil
  <2>8. ASSUME NEW r \in Requests, LireMessages(r) PROVE TypeOK'
    <3>1. requete[r] \in EnVol
      BY <2>8, RequestInFlight DEF LireMessages, Etapes
    <3>2. [requete[r] EXCEPT !.etape = "ecrire"] \in Requete
      BY <3>1, RequestUpdate DEF Etapes
    <3> QED
      BY <2>8, <3>2, InitialRecords DEF LireMessages
  <2>9. ASSUME NEW r \in Requests, EcrireVerification(r) PROVE TypeOK'
    <3>1. requete[r].user \in Users
      BY <2>9, RequestInFlight DEF EcrireVerification, Etapes, EnVol
    <3>2. [compte[requete[r].user] EXCEPT !.verifie = TRUE, !.jeton = None]
            \in Row
      BY <3>1, RowUpdate
    <3>3. compte' = [compte EXCEPT ![requete[r].user] =
                       [@ EXCEPT !.verifie = TRUE, !.jeton = None]]
      BY <2>9, <3>1 DEF EcrireVerification, Row
    <3>4. compte' \in [Users -> Row]
      BY <3>1, <3>2, <3>3
    <3> QED
      BY <2>9, <3>1, <3>4, InitialRecords DEF EcrireVerification
  <2>10. ASSUME Forum PROVE TypeOK'
    BY <2>10 DEF Forum, Publier, RemplirProfil, Supprimer, Message
  <2>11. ASSUME Tic PROVE TypeOK'
    BY <2>11 DEF Tic
  <2>12. ASSUME Redemarrer PROVE TypeOK'
    BY <2>12, InitialRecords DEF Redemarrer
  <2>13. CASE UNCHANGED vars
    BY <2>13 DEF vars
  <2> QED
    BY <2>1, <2>2, <2>3, <2>4, <2>5, <2>6, <2>7, <2>8, <2>9, <2>10, <2>11,
       <2>12, <2>13 DEF Next, Membre, Suite
<1>3. QED
  BY <1>1, <1>2, PTL DEF Spec

-----------------------------------------------------------------------------
\* What has been given or published stays so: a proof cannot be undone.
LEMMA ProofIsStable ==
  ASSUME NEW u, NEW p, emis \subseteq emis', publie \subseteq publie', Prouve(u, p)
  PROVE  Prouve(u, p)'
BY DEF Prouve

\* An account is verified for a pseudo it has proven, except when its row
\* changed pseudo between verifier's read and its write; a verified row waits
\* for nothing, and an unproven claim is dated.
THEOREM LinkSafe == Spec => [](ProofStands /\ NoPendingProof /\ UnprovenClaimLapses)
<1> USE NoneAssumption
<1>1. Init => LinkInv
  BY DEF Init, LinkInv, ProofStands, NoPendingProof, UnprovenClaimLapses,
         RowsIssued, ReadsIssued, FoundPublished, ForumPublished, SansLien, Libre
<1>2. ASSUME TypeOK, TypeOK', LinkInv, [Next]_vars PROVE LinkInv'
  <2> USE <1>2 DEF LinkInv, TypeOK, forum
  <2>1. ASSUME NEW u \in Users, NEW p \in Pseudos, NEW j \in Jetons,
               Poser(u, p, j), UNCHANGED <<forum, devance>>,
               \A r \in Requests : requete'[r] = requete[r] \/ requete'[r] = Libre
        PROVE  LinkInv'
    <3>1. compte'[u] = Revendication(u, p, j)
          /\ \A v \in Users \ {u} : compte'[v] = compte[v]
      BY <2>1 DEF Poser
    <3>2. emis \subseteq emis' /\ publie \subseteq publie' /\ <<u, p, j>> \in emis'
      BY <2>1 DEF Poser
    <3>3. ProofStands'
      BY <2>1, <3>1, <3>2, ProofIsStable DEF ProofStands, Revendication
    <3>4. NoPendingProof' /\ UnprovenClaimLapses' /\ RowsIssued'
      BY <3>1, <3>2 DEF NoPendingProof, UnprovenClaimLapses, RowsIssued,
                        Revendication
    <3>5. ReadsIssued' /\ FoundPublished' /\ ForumPublished'
      BY <2>1, <3>2 DEF ReadsIssued, FoundPublished, ForumPublished, Libre
    <3> QED
      BY <3>3, <3>4, <3>5
  <2>2. ASSUME UNCHANGED <<compte, emis, forum, devance>>,
               \A r \in Requests :
                  \/ requete'[r] = requete[r] \/ requete'[r] = Libre
                  \/ requete'[r].etape \in {"reprise", "reposer"}
                  \/ /\ requete'[r].etape \in {"lu", "profil", "messages", "ecrire"}
                     /\ <<requete'[r].user, requete'[r].pseudo, requete'[r].jeton>>
                          \in emis
                     /\ requete'[r].etape = "ecrire" =>
                          <<requete'[r].pseudo, requete'[r].jeton>> \in publie
        PROVE  LinkInv'
    <3> DEFINE Lit(q) == q.etape \in {"lu", "profil", "messages", "ecrire"}
    <3>1. ASSUME NEW r \in Requests, Lit(requete'[r])
          PROVE  /\ <<requete'[r].user, requete'[r].pseudo, requete'[r].jeton>>
                      \in emis
                 /\ requete'[r].etape = "ecrire" =>
                      <<requete'[r].pseudo, requete'[r].jeton>> \in publie
      <4>1. CASE requete'[r] = requete[r]
        BY <3>1, <4>1 DEF ReadsIssued, FoundPublished
      <4>2. requete'[r] # Libre
        BY <3>1 DEF Libre
      <4>3. requete'[r].etape \notin {"reprise", "reposer"}
        BY <3>1
      <4> QED
        BY <2>2, <4>1, <4>2, <4>3
    <3>2. ReadsIssued' /\ FoundPublished'
      BY <2>2, <3>1 DEF ReadsIssued, FoundPublished
    <3> QED
      BY <2>2, <3>2 DEF ProofStands, NoPendingProof, UnprovenClaimLapses,
                        RowsIssued, ForumPublished, Prouve
  <2>3. ASSUME NEW u \in Users, NEW p \in Pseudos, NEW j \in Jetons,
               DemanderJeton(u, p, j)
        PROVE  LinkInv'
    <3>1. CASE PseudoLibre(u, p)
      BY <2>1, <2>3, <3>1 DEF DemanderJeton
    <3>2. CASE ~PseudoLibre(u, p)
      <4>1. PICK r \in Requests :
               requete' = [requete EXCEPT ![r] =
                  [Libre EXCEPT !.etape = "reprise", !.user = u,
                                !.pseudo = p, !.jeton = j]]
        BY <2>3, <3>2 DEF DemanderJeton
      <4>2. requete'[r].etape = "reprise"
        BY <4>1 DEF Libre
      <4> QED
        BY <2>2, <2>3, <3>2, <4>1, <4>2 DEF DemanderJeton
    <3> QED
      BY <3>1, <3>2
  <2>4. ASSUME NEW u \in Users, Verifier(u) PROVE LinkInv'
    <3>1. <<u, compte[u].pseudo, compte[u].jeton>> \in emis
      BY <2>4 DEF Verifier, RowsIssued
    <3> QED
      BY <2>2, <2>4, <3>1 DEF Verifier, Libre
  <2>5. ASSUME NEW u \in Users, Delier(u) PROVE LinkInv'
    BY <2>5 DEF Delier, SansLien, ProofStands, NoPendingProof, UnprovenClaimLapses,
                RowsIssued, ReadsIssued, FoundPublished, ForumPublished, Prouve
  <2>6. ASSUME NEW r \in Requests, Reprise(r) PROVE LinkInv'
    <3>1. ASSUME NEW v \in Users
          PROVE  \/ compte'[v] = compte[v]
                 \/ /\ compte'[v].pseudo = None /\ compte'[v].jeton = None
                    /\ ~compte'[v].verifie
      <4>1. CASE Perimee(v, requete[r].pseudo)
        <5>1. compte'[v] = [compte[v] EXCEPT !.pseudo = None, !.jeton = None,
                                             !.emisLe = None]
          BY <2>6, <4>1 DEF Reprise
        <5> QED
          BY <4>1, <5>1 DEF Perimee, Row
      <4>2. CASE ~Perimee(v, requete[r].pseudo)
        BY <2>6, <4>2 DEF Reprise
      <4> QED
        BY <4>1, <4>2
    <3>2. requete[r] \in EnVol
      BY <2>6, RequestInFlight DEF Reprise, Etapes
    <3>3. requete'[r].etape \in {"libre", "reposer"}
          /\ \A s \in Requests \ {r} : requete'[s] = requete[s]
      BY <2>6, <3>2 DEF Reprise, Libre, EnVol
    <3>4. ReadsIssued' /\ FoundPublished'
      <4>1. UNCHANGED <<emis, publie>>
        BY <2>6 DEF Reprise
      <4> QED
        BY <3>3, <4>1 DEF ReadsIssued, FoundPublished
    <3>5. UNCHANGED <<forum, emis, devance>>
      BY <2>6 DEF Reprise
    <3>6. ProofStands'
      BY <3>1, <3>5 DEF ProofStands, Prouve
    <3>7. NoPendingProof' /\ UnprovenClaimLapses' /\ RowsIssued'
      BY <3>1, <3>5 DEF NoPendingProof, UnprovenClaimLapses, RowsIssued
    <3> QED
      BY <3>4, <3>5, <3>6, <3>7 DEF ForumPublished
  <2>7. ASSUME NEW r \in Requests, Reposer(r) PROVE LinkInv'
    <3>1. requete[r] \in EnVol
      BY <2>7, RequestInFlight DEF Reposer, Etapes
    <3>2. CASE PseudoLibre(requete[r].user, requete[r].pseudo)
      BY <2>1, <2>7, <3>1, <3>2 DEF Reposer, EnVol
    <3>3. CASE ~PseudoLibre(requete[r].user, requete[r].pseudo)
      BY <2>2, <2>7, <3>3 DEF Reposer
    <3> QED
      BY <3>2, <3>3
  <2>8. ASSUME NEW r \in Requests, Autoriser(r) PROVE LinkInv'
    <3>1. requete[r] \in EnVol
      BY <2>8, RequestInFlight DEF Autoriser, Etapes
    <3> QED
      BY <2>2, <2>8, <3>1 DEF Autoriser, ReadsIssued, EnVol
  <2>9. ASSUME NEW r \in Requests, LireProfil(r) PROVE LinkInv'
    <3>1. requete[r] \in EnVol
      BY <2>9, RequestInFlight DEF LireProfil, Etapes
    <3>2. profil[requete[r].pseudo] = requete[r].jeton =>
            <<requete[r].pseudo, requete[r].jeton>> \in publie
      BY <3>1 DEF ForumPublished, EnVol
    <3> QED
      BY <2>2, <2>9, <3>1, <3>2 DEF LireProfil, ReadsIssued, EnVol
  <2>10. ASSUME NEW r \in Requests, LireMessages(r) PROVE LinkInv'
    <3>1. requete[r] \in EnVol
      BY <2>10, RequestInFlight DEF LireMessages, Etapes
    <3>2. (\E m \in messages : Preuve(m, requete[r])) =>
            <<requete[r].pseudo, requete[r].jeton>> \in publie
      BY DEF ForumPublished, Preuve
    <3> QED
      BY <2>2, <2>10, <3>1, <3>2 DEF LireMessages, ReadsIssued, EnVol
  <2>11. ASSUME NEW r \in Requests, EcrireVerification(r) PROVE LinkInv'
    <3> DEFINE q == requete[r]
    <3>1. q \in EnVol
      BY <2>11, RequestInFlight DEF EcrireVerification, Etapes
    <3>2. Prouve(q.user, q.pseudo)
      BY <2>11, <3>1 DEF EcrireVerification, ReadsIssued, FoundPublished, EnVol,
                         Prouve
    <3>3. /\ compte'[q.user].pseudo = compte[q.user].pseudo
          /\ compte'[q.user].verifie /\ compte'[q.user].jeton = None
          /\ \A v \in Users \ {q.user} : compte'[v] = compte[v]
      BY <2>11, <3>1 DEF EcrireVerification, EnVol, Row
    <3>4. ProofStands'
      BY <2>11, <3>1, <3>2, <3>3
         DEF EcrireVerification, ProofStands, EnVol, Prouve
    <3>5. NoPendingProof' /\ UnprovenClaimLapses' /\ RowsIssued'
      BY <2>11, <3>1, <3>3 DEF EcrireVerification, NoPendingProof,
         UnprovenClaimLapses, RowsIssued, EnVol
    <3>6. ReadsIssued' /\ FoundPublished' /\ ForumPublished'
      BY <2>11 DEF EcrireVerification, ReadsIssued, FoundPublished,
                   ForumPublished, Libre
    <3> QED
      BY <3>4, <3>5, <3>6
  <2>12. ASSUME Forum PROVE LinkInv'
    <3>1. UNCHANGED <<compte, requete, emis, devance>> /\ publie \subseteq publie'
      BY <2>12 DEF Forum, Publier, RemplirProfil, Supprimer
    <3>2. ForumPublished'
      BY <2>12 DEF Forum, Publier, RemplirProfil, Supprimer, ForumPublished
    <3> QED
      BY <3>1, <3>2 DEF ProofStands, NoPendingProof, UnprovenClaimLapses,
                        RowsIssued, ReadsIssued, FoundPublished, Prouve
  <2>13. ASSUME Tic PROVE LinkInv'
    BY <2>2, <2>13 DEF Tic
  <2>14. ASSUME Redemarrer PROVE LinkInv'
    BY <2>2, <2>14 DEF Redemarrer
  <2>15. CASE UNCHANGED vars
    BY <2>2, <2>15 DEF vars
  <2> QED
    BY <2>3, <2>4, <2>5, <2>6, <2>7, <2>8, <2>9, <2>10, <2>11, <2>12, <2>13,
       <2>14, <2>15 DEF Next, Membre, Suite
<1>3. QED
  BY <1>1, <1>2, LinkTypeOK, PTL DEF Spec, LinkInv

-----------------------------------------------------------------------------
\* Any two forum searches under way for one account were allowed at least
\* the debounce apart: between the test of the map and its update nothing
\* else runs, and what the map remembers is never older than a search.
THEOREM LinkSearchesSpaced == Spec => []SearchesSpaced
<1> USE NoneAssumption, TimeAssumption
<1>1. Init => SearchInv
  BY DEF Init, SearchInv, SearchesSpaced, Libre
<1>2. ASSUME TypeOK, TypeOK', SearchInv, [Next]_vars PROVE SearchInv'
  <2> USE <1>2 DEF TypeOK
  <2>1. ASSUME UNCHANGED dernierEssai,
               \A r \in Requests : requete'[r].debut # None =>
                  /\ requete'[r].debut = requete[r].debut
                  /\ requete'[r].user = requete[r].user
                  /\ requete'[r].etape \in Etapes
        PROVE  SearchInv'
    BY <2>1 DEF SearchInv, SearchesSpaced
  <2>2. ASSUME NEW u \in Users, Membre(u) PROVE SearchInv'
    <3>1. \A r \in Requests : requete'[r] = requete[r] \/ requete'[r].debut = None
      <4>1. ASSUME NEW p \in Pseudos, NEW j \in Jetons, DemanderJeton(u, p, j)
            PROVE  \A r \in Requests :
                      requete'[r] = requete[r] \/ requete'[r].debut = None
        <5>1. PseudoLibre(u, p) => UNCHANGED requete
          BY <4>1 DEF DemanderJeton
        <5>2. ASSUME ~PseudoLibre(u, p)
              PROVE  \E r \in Requests : requete' = [requete EXCEPT ![r] =
                       [Libre EXCEPT !.etape = "reprise", !.user = u,
                                     !.pseudo = p, !.jeton = j]]
          BY <4>1, <5>2 DEF DemanderJeton
        <5>3. [Libre EXCEPT !.etape = "reprise", !.user = u, !.pseudo = p,
                            !.jeton = j].debut = None
          BY DEF Libre
        <5> QED
          BY <5>1, <5>2, <5>3
      <4>2. CASE Verifier(u)
        BY <4>2 DEF Verifier, Libre
      <4>3. CASE Delier(u)
        BY <4>3 DEF Delier
      <4> QED
        BY <2>2, <4>1, <4>2, <4>3 DEF Membre
    <3>2. UNCHANGED dernierEssai
      BY <2>2 DEF Membre, DemanderJeton, Verifier, Delier
    <3> QED
      BY <2>1, <3>1, <3>2 DEF SearchInv
  <2>3. ASSUME NEW r \in Requests, Autoriser(r) PROVE SearchInv'
    <3> DEFINE q == requete[r]
    <3>1. q \in EnVol
      BY <2>3, RequestInFlight DEF Autoriser, Etapes
    <3>2. CASE Expire(q) \/ TropTot(q.user)
      <4>1. requete' = [requete EXCEPT ![r] = Libre] /\ UNCHANGED dernierEssai
        BY <2>3, <3>2 DEF Autoriser
      <4> QED
        BY <2>1, <4>1 DEF SearchInv, Libre
    <3>3. CASE ~TropTot(q.user) /\ ~Expire(q)
      <4>1. /\ requete'[r].user = q.user
            /\ requete'[r].debut = maintenant /\ requete'[r].etape = "profil"
            /\ \A s \in Requests \ {r} : requete'[s] = requete[s]
            /\ dernierEssai' = [dernierEssai EXCEPT ![q.user] = maintenant]
        BY <2>3, <3>1, <3>3 DEF Autoriser, EnVol
      <4>2. q.user \in Users /\ maintenant \in Nat
        BY <3>1 DEF EnVol
      <4>3. ASSUME NEW s \in Requests \ {r}, requete[s].debut # None,
                   requete[s].user = q.user
            PROVE  /\ requete[s].debut \in Nat
                   /\ maintenant - requete[s].debut >= Debounce
                   /\ requete[s].debut <= maintenant
        <5>1. /\ requete[s].debut \in Nat
              /\ dernierEssai[q.user] \in Nat
              /\ requete[s].debut <= dernierEssai[q.user]
          BY <4>2, <4>3 DEF SearchInv, Requete, EnVol, Libre
        <5>2. maintenant - dernierEssai[q.user] >= Debounce
          BY <3>3, <4>2, <5>1 DEF TropTot
        <5> QED
          BY <4>2, <5>1, <5>2
      <4>4. SearchesSpaced'
        <5> SUFFICES ASSUME NEW s \in Requests, NEW t \in Requests, s # t,
                            requete'[s].debut # None, requete'[t].debut # None,
                            requete'[s].user = requete'[t].user
                     PROVE  \/ requete'[s].debut - requete'[t].debut >= Debounce
                            \/ requete'[t].debut - requete'[s].debut >= Debounce
          BY DEF SearchesSpaced
        <5>1. CASE s = r
          BY <4>1, <4>3, <5>1
        <5>2. CASE t = r
          BY <4>1, <4>3, <5>2
        <5>3. CASE s # r /\ t # r
          BY <4>1, <5>3 DEF SearchInv, SearchesSpaced
        <5> QED
          BY <5>1, <5>2, <5>3
      <4>5. ASSUME NEW s \in Requests, requete'[s].debut # None
            PROVE  /\ requete'[s].etape \in Etapes
                   /\ dernierEssai'[requete'[s].user] # None
                   /\ requete'[s].debut <= dernierEssai'[requete'[s].user]
        <5>1. CASE s = r
          BY <4>1, <4>2, <5>1 DEF Etapes
        <5>2. CASE s # r /\ requete[s].user = q.user
          BY <4>1, <4>2, <4>3, <4>5, <5>2 DEF SearchInv
        <5>3. CASE s # r /\ requete[s].user # q.user
          BY <4>1, <4>2, <4>5, <5>3 DEF SearchInv
        <5> QED
          BY <5>1, <5>2, <5>3
      <4> QED
        BY <4>4, <4>5 DEF SearchInv
    <3> QED
      BY <3>2, <3>3
  <2>4. ASSUME NEW r \in Requests,
               \/ Reprise(r) \/ Reposer(r) \/ LireProfil(r)
               \/ LireMessages(r) \/ EcrireVerification(r)
        PROVE  SearchInv'
    <3>1. requete[r] \in EnVol /\ UNCHANGED dernierEssai
      BY <2>4, RequestInFlight
         DEF Reprise, Reposer, LireProfil, LireMessages, EcrireVerification, Etapes
    <3>2. \/ requete' = [requete EXCEPT ![r] = Libre]
          \/ \E e \in Etapes : requete' = [requete EXCEPT ![r].etape = e]
      BY <2>4
         DEF Reprise, Reposer, LireProfil, LireMessages, EcrireVerification, Etapes
    <3> QED
      BY <2>1, <3>1, <3>2 DEF SearchInv, Libre, EnVol
  <2>5. ASSUME Forum \/ Tic PROVE SearchInv'
    BY <2>1, <2>5 DEF Forum, Publier, Supprimer, RemplirProfil, Tic, SearchInv
  <2>6. ASSUME Redemarrer PROVE SearchInv'
    BY <2>6 DEF Redemarrer, SearchInv, SearchesSpaced, Libre
  <2>7. CASE UNCHANGED vars
    BY <2>1, <2>7 DEF vars, SearchInv
  <2> QED
    BY <2>2, <2>3, <2>4, <2>5, <2>6, <2>7 DEF Next, Suite
<1>3. QED
  BY <1>1, <1>2, LinkTypeOK, PTL DEF Spec, SearchInv
=============================================================================
