---------------------------- MODULE FrontendProofs ----------------------------
(***************************************************************************)
(* The parts of the frontend, each for every value of its constants: the   *)
(* veil of navigations, the publishing form, the round trips of a member   *)
(* card, the toggles, the player, the page of a mix, search, the settings, *)
(* the page of a playlist and the comments under a mix.                    *)
(***************************************************************************)
EXTENDS Volet, Depot, Session, Bascules, Player, Pages, Recherche, Reglages, PagePlaylist, Fil,
        FiniteSetTheorems, SequenceTheorems, TLAPS

(***************************************************************************)
(* The veil.  VeilLifts says nothing of the timers, so it is not inductive *)
(* as it stands.  While the veil is down and not leaving, the longest      *)
(* delay still runs and tells its age, or it is over and the order to      *)
(* leave waits for the end of the rise, whose timer runs as well; once it  *)
(* leaves, the timer of its exit runs and ends in time.                    *)
(***************************************************************************)

VoletTypeOK ==
  /\ visible \in BOOLEAN /\ sortie \in BOOLEAN /\ montee \in BOOLEAN
  /\ leveeEnAttente \in BOOLEAN /\ age \in Nat
  /\ minuteries \in [Toutes -> Int]

\* The rise: its timer and the age of the veil make its length.
RiseRuns ==
  visible /\ ~sortie /\ montee =>
    minuteries["montee"] >= 0 /\ age + minuteries["montee"] = Montee

\* The longest delay runs, or the order it gave waits for the rise to end.
LongestRuns ==
  visible /\ ~sortie =>
    \/ minuteries["maximum"] >= 0 /\ age + minuteries["maximum"] = Attente
    \/ montee /\ leveeEnAttente

\* The exit runs, and ends within the bound.
ExitRuns ==
  visible /\ sortie =>
    minuteries["sortie"] >= 0 /\ age + minuteries["sortie"] <= Attente + Sortie

VoletInv == VoletTypeOK /\ RiseRuns /\ LongestRuns /\ ExitRuns

\* A veil that is down and not leaving is no older than the longest delay.
LEMMA YoungEnough ==
  ASSUME VoletInv, visible, ~sortie
  PROVE  age <= Attente
BY VoletAssumption DEF VoletInv, VoletTypeOK, RiseRuns, LongestRuns, Toutes

\* The property follows from the invariant.
LEMMA VoletInvImplies == VoletInv => VeilLifts
<1> SUFFICES ASSUME VoletInv, visible PROVE age <= Attente + Sortie
    BY DEF VeilLifts
<1>1. CASE sortie
    BY <1>1, VoletAssumption DEF VoletInv, VoletTypeOK, ExitRuns, Toutes
<1>2. CASE ~sortie
    BY <1>2, YoungEnough, VoletAssumption DEF VoletInv, VoletTypeOK
<1> QED BY <1>1, <1>2

LEMMA VoletInvInit == VoletInit => VoletInv
<1> SUFFICES ASSUME VoletInit PROVE VoletInv
    OBVIOUS
<1>1. minuteries \in [Toutes -> Int]
    BY DEF VoletInit, Eteinte
<1>2. VoletTypeOK
    BY <1>1 DEF VoletInit, VoletTypeOK
<1>3. RiseRuns /\ LongestRuns /\ ExitRuns
    BY DEF VoletInit, RiseRuns, LongestRuns, ExitRuns
<1> QED BY <1>2, <1>3 DEF VoletInv

\* Turning one timer off leaves the others as they are.
LEMMA TurnedOff ==
  ASSUME VoletTypeOK, NEW t \in Toutes
  PROVE  /\ Eteindre(t) \in [Toutes -> Int]
         /\ \A o \in Toutes : o # t => Eteindre(t)[o] = minuteries[o]
BY DEF VoletTypeOK, Eteindre, Eteinte

\* leverMaintenant, called when the veil is young enough and either has risen
\* or is up, from timers that agree with the current ones on the exit.
LEMMA Leaves ==
  ASSUME VoletInv, NEW m \in [Toutes -> Int], m["sortie"] = minuteries["sortie"],
         LeverMaintenant(m), UNCHANGED <<visible, age>>
  PROVE  /\ sortie' \in BOOLEAN /\ minuteries' \in [Toutes -> Int]
         /\ visible' => sortie'
         /\ ExitRuns'
<1>0. VoletTypeOK /\ ExitRuns
    BY DEF VoletInv
<1>1. CASE ~visible \/ sortie
    BY <1>0, <1>1 DEF LeverMaintenant, VoletTypeOK, ExitRuns
<1>2. CASE visible /\ ~sortie
  <2>1. sortie' = TRUE /\ minuteries' = [m EXCEPT !["sortie"] = Sortie]
      BY <1>2 DEF LeverMaintenant
  <2>2. minuteries' \in [Toutes -> Int] /\ minuteries'["sortie"] = Sortie
      BY <2>1, VoletAssumption DEF Toutes
  <2>3. age <= Attente
      BY <1>2, YoungEnough
  <2> QED BY <1>0, <1>2, <2>1, <2>2, <2>3, VoletAssumption DEF VoletTypeOK, ExitRuns
<1> QED BY <1>0, <1>1, <1>2 DEF VoletTypeOK

\* lever, from the same: the veil leaves, or keeps the order while it rises.
LEMMA Lifts ==
  ASSUME VoletInv, NEW m \in [Toutes -> Int], Lever(m), UNCHANGED <<visible, age, montee>>,
         \A o \in {"montee", "sortie"} : m[o] = minuteries[o]
  PROVE  VoletInv'
<1>0. VoletTypeOK /\ RiseRuns /\ ExitRuns
    BY DEF VoletInv
<1>1. CASE visible /\ ~sortie /\ montee
  <2>1. leveeEnAttente' = TRUE /\ minuteries' = m /\ UNCHANGED sortie
      BY <1>1 DEF Lever
  <2> QED BY <1>0, <1>1, <2>1
          DEF VoletInv, VoletTypeOK, RiseRuns, LongestRuns, ExitRuns, Toutes
<1>2. CASE ~(visible /\ ~sortie /\ montee)
  <2>1. LeverMaintenant(m) /\ UNCHANGED leveeEnAttente
      BY <1>2 DEF Lever
  <2>2. /\ sortie' \in BOOLEAN /\ minuteries' \in [Toutes -> Int]
        /\ visible' => sortie'
        /\ ExitRuns'
      BY <2>1, Leaves
  <2> QED BY <1>0, <2>1, <2>2 DEF VoletInv, VoletTypeOK, RiseRuns, LongestRuns
<1> QED BY <1>1, <1>2

\* Each navigation, timer, tick and cover keeps the invariant.
LEMMA VoletInvNext == VoletInv /\ [VoletNext]_voletVars => VoletInv'
<1> SUFFICES ASSUME VoletInv, [VoletNext]_voletVars PROVE VoletInv'
    OBVIOUS
<1>0. VoletTypeOK /\ RiseRuns /\ LongestRuns /\ ExitRuns
    BY DEF VoletInv
<1>1. CASE Taire
    BY <1>0, <1>1 DEF VoletInv, Taire, VoletTypeOK, RiseRuns, LongestRuns, ExitRuns
<1>2. CASE Couvrir
  <2>1. CASE silence
      BY <1>0, <1>2, <2>1 DEF VoletInv, Couvrir, VoletTypeOK, RiseRuns, LongestRuns, ExitRuns
  <2>2. CASE ~silence
    <3>1. /\ visible' = TRUE /\ sortie' = FALSE /\ montee' = TRUE /\ leveeEnAttente' = FALSE
          /\ age' = 0
          /\ minuteries' = [t \in Toutes |->
               CASE t = "montee" -> Montee [] t = "maximum" -> Attente
                 [] t = "grace" -> Grace [] t = "sortie" -> Eteinte]
        BY <1>2, <2>2 DEF Couvrir
    <3>2. minuteries'["montee"] = Montee /\ minuteries'["maximum"] = Attente
        BY <3>1 DEF Toutes
    <3>3. minuteries' \in [Toutes -> Int]
        BY <3>1, VoletAssumption DEF Toutes, Eteinte
    <3>4. VoletTypeOK'
        BY <3>1, <3>3 DEF VoletTypeOK
    <3>5. /\ minuteries'["montee"] >= 0 /\ age' + minuteries'["montee"] = Montee
          /\ minuteries'["maximum"] >= 0 /\ age' + minuteries'["maximum"] = Attente
          /\ sortie' = FALSE
      <4>1. Montee \in Nat /\ Attente \in Nat /\ age' = 0 /\ sortie' = FALSE
          BY <3>1, VoletAssumption
      <4> QED BY <3>2, <4>1
    <3>6. RiseRuns' /\ LongestRuns' /\ ExitRuns'
        BY <3>5 DEF RiseRuns, LongestRuns, ExitRuns
    <3> QED BY <3>4, <3>6 DEF VoletInv
  <2> QED BY <2>1, <2>2
<1>3. CASE FinMontee
  <2>0. "montee" \in Toutes /\ "sortie" \in Toutes /\ "maximum" \in Toutes
      BY DEF Toutes
  <2>1. /\ montee' = FALSE /\ minuteries["montee"] = 0
        /\ UNCHANGED <<visible, leveeEnAttente, age>>
      BY <1>3 DEF FinMontee, Due
  <2>2. CASE leveeEnAttente
    <3>1. LeverMaintenant(Eteindre("montee"))
        BY <1>3, <2>2 DEF FinMontee
    <3>2. /\ sortie' \in BOOLEAN /\ minuteries' \in [Toutes -> Int]
          /\ visible' => sortie'
          /\ ExitRuns'
        BY <1>0, <2>0, <2>1, <3>1, Leaves, TurnedOff
    <3> QED BY <1>0, <2>1, <3>2 DEF VoletInv, VoletTypeOK, RiseRuns, LongestRuns
  <2>3. CASE ~leveeEnAttente
    <3>1. minuteries' = Eteindre("montee") /\ UNCHANGED sortie
        BY <1>3, <2>3 DEF FinMontee
    <3>2. /\ minuteries' \in [Toutes -> Int]
          /\ minuteries'["sortie"] = minuteries["sortie"]
          /\ minuteries'["maximum"] = minuteries["maximum"]
        BY <1>0, <2>0, <3>1, TurnedOff
    <3> QED BY <1>0, <2>1, <2>3, <3>1, <3>2
            DEF VoletInv, VoletTypeOK, RiseRuns, LongestRuns, ExitRuns
  <2> QED BY <2>2, <2>3
<1>4. CASE FinAttente
  <2>0. "montee" \in Toutes /\ "sortie" \in Toutes /\ "maximum" \in Toutes
      BY DEF Toutes
  <2>1. Lever(Eteindre("maximum")) /\ UNCHANGED <<visible, age, montee>>
      BY <1>4 DEF FinAttente
  <2>2. Eteindre("maximum") \in [Toutes -> Int]
        /\ \A o \in {"montee", "sortie"} : Eteindre("maximum")[o] = minuteries[o]
      BY <1>0, <2>0, TurnedOff
  <2> QED BY <2>1, <2>2, Lifts
<1>5. CASE FinGrace
  <2>0. "grace" \in Toutes /\ "montee" \in Toutes /\ "sortie" \in Toutes /\ "maximum" \in Toutes
      BY DEF Toutes
  <2>1. UNCHANGED <<visible, age, montee>>
      BY <1>5 DEF FinGrace
  <2>2. /\ Eteindre("grace") \in [Toutes -> Int]
        /\ \A o \in {"montee", "sortie", "maximum"} : Eteindre("grace")[o] = minuteries[o]
      BY <1>0, <2>0, TurnedOff
  <2>3. CASE enAttente = 0
    <3>1. Lever(Eteindre("grace"))
        BY <1>5, <2>3 DEF FinGrace
    <3> QED BY <2>1, <2>2, <3>1, Lifts
  <2>4. CASE enAttente # 0
    <3>1. minuteries' = Eteindre("grace") /\ UNCHANGED <<sortie, leveeEnAttente>>
        BY <1>5, <2>4 DEF FinGrace
    <3>2. /\ minuteries' \in [Toutes -> Int]
          /\ minuteries'["montee"] = minuteries["montee"]
          /\ minuteries'["sortie"] = minuteries["sortie"]
          /\ minuteries'["maximum"] = minuteries["maximum"]
        BY <2>2, <3>1
    <3> QED BY <1>0, <2>1, <3>1, <3>2
            DEF VoletInv, VoletTypeOK, RiseRuns, LongestRuns, ExitRuns
  <2> QED BY <2>3, <2>4
<1>6. CASE FinSortie
  <2>1. /\ visible' = FALSE /\ sortie' = FALSE /\ UNCHANGED <<montee, leveeEnAttente, age>>
        /\ minuteries' = Eteindre("sortie")
      BY <1>6 DEF FinSortie
  <2>2. minuteries' \in [Toutes -> Int]
      BY <1>0, <2>1, TurnedOff DEF Toutes
  <2> QED BY <1>0, <2>1, <2>2 DEF VoletInv, VoletTypeOK, RiseRuns, LongestRuns, ExitRuns
<1>7. CASE TicVolet
  <2>1. /\ visible /\ \A t \in Toutes : minuteries[t] # 0
        /\ UNCHANGED <<visible, sortie, montee, leveeEnAttente>>
        /\ minuteries' = [t \in Toutes |->
             IF minuteries[t] = Eteinte THEN Eteinte ELSE minuteries[t] - 1]
      BY <1>7 DEF TicVolet, Due
  <2>2. age <= Attente + Sortie
      BY <2>1, VoletInvImplies DEF VeilLifts
  <2>3. age' = age + 1
      BY <1>0, <1>7, <2>2, VoletAssumption DEF TicVolet, VoletTypeOK
  <2>4. minuteries' \in [Toutes -> Int]
      BY <1>0, <2>1 DEF VoletTypeOK, Eteinte
  <2>5. \A t \in Toutes : minuteries[t] >= 0 =>
          minuteries'[t] >= 0 /\ age' + minuteries'[t] = age + minuteries[t]
      BY <1>0, <2>1, <2>3 DEF VoletTypeOK, Eteinte
  <2>6. VoletTypeOK'
      BY <1>0, <2>1, <2>3, <2>4 DEF VoletTypeOK
  <2>7. RiseRuns' /\ LongestRuns' /\ ExitRuns'
    <3>0. "montee" \in Toutes /\ "sortie" \in Toutes /\ "maximum" \in Toutes
        BY DEF Toutes
    <3>1. RiseRuns'
        BY <1>0, <2>1, <2>5, <3>0 DEF RiseRuns
    <3>2. LongestRuns'
        BY <1>0, <2>1, <2>5, <3>0 DEF LongestRuns
    <3>3. ExitRuns'
        BY <1>0, <2>1, <2>5, <3>0 DEF ExitRuns
    <3> QED BY <3>1, <3>2, <3>3
  <2> QED BY <2>6, <2>7 DEF VoletInv
<1>8. CASE \E p \in Pochettes : Annoncer(p) \/ Demonter(p)
  <2>1. UNCHANGED <<visible, sortie, montee, leveeEnAttente, minuteries, age>>
      BY <1>8 DEF Annoncer, Demonter
  <2> QED BY <1>0, <2>1 DEF VoletInv, VoletTypeOK, RiseRuns, LongestRuns, ExitRuns
<1>9. CASE \E p \in Pochettes : ArriverPochette(p)
  <2>1. Arrivee /\ UNCHANGED <<visible, montee, age>>
      BY <1>9 DEF ArriverPochette
  <2>2. CASE enAttente' = 0 /\ visible
    <3>1. Lever(minuteries)
        BY <2>1, <2>2 DEF Arrivee
    <3> QED BY <1>0, <2>1, <3>1, Lifts DEF VoletTypeOK
  <2>3. CASE ~(enAttente' = 0 /\ visible)
    <3>1. UNCHANGED <<sortie, leveeEnAttente, minuteries>>
        BY <2>1, <2>3 DEF Arrivee
    <3> QED BY <1>0, <2>1, <3>1 DEF VoletInv, VoletTypeOK, RiseRuns, LongestRuns, ExitRuns
  <2> QED BY <2>2, <2>3
<1>10. CASE UNCHANGED voletVars
    BY <1>0, <1>10 DEF VoletInv, voletVars, VoletTypeOK, RiseRuns, LongestRuns, ExitRuns
<1> QED BY <1>1, <1>2, <1>3, <1>4, <1>5, <1>6, <1>7, <1>8, <1>9, <1>10 DEF VoletNext

\* Whatever the covers announce, and wherever navigations catch it, the veil is
\* gone after the longest delay and its exit.
THEOREM VeilLiftsAlways == VoletSpec => []VeilLifts
BY VoletInvImplies, VoletInvInit, VoletInvNext, PTL DEF VoletSpec

(***************************************************************************)
(* The publishing form.  The audio is kept at its source only when there   *)
(* is one, which an import puts there and nothing but an empty form takes  *)
(* away: without that, an import landing on a form that says "kept" and    *)
(* holds a file would break the property at once.                          *)
(***************************************************************************)

DepotInv == garde => importee # Sans /\ ~fichier

LEMMA DepotInvNext == DepotInv /\ [DepotNext]_depotVars => DepotInv'
<1> SUFFICES ASSUME DepotInv, [DepotNext]_depotVars PROVE DepotInv'
    OBVIOUS
<1>1. CASE LireAdresse
    BY <1>1 DEF DepotInv, LireAdresse
<1>2. CASE AdresseLue
  <2>1. UNCHANGED <<garde, fichier>>
      BY <1>2 DEF AdresseLue
  <2>2. importee' = importee \/ importee' \in Emissions
      BY <1>2 DEF AdresseLue, Appliquer
  <2> QED BY <2>1, <2>2, DepotAssumption DEF DepotInv
<1>3. CASE ImportArrive
  <2>1. UNCHANGED <<garde, fichier>>
      BY <1>3 DEF ImportArrive
  <2>2. importee' = importee \/ (importee' = enImport /\ enImport # Sans)
      BY <1>3 DEF ImportArrive, Appliquer
  <2> QED BY <2>1, <2>2 DEF DepotInv
<1>4. CASE \E e \in Emissions : Importer(e) \/ DoublonCherche(e) \/ AutreDepot(e)
    BY <1>4 DEF DepotInv, Importer, DoublonCherche, AutreDepot
<1>5. CASE ChoisirFichier
    BY <1>5 DEF DepotInv, ChoisirFichier, AudioALaSource
<1>6. CASE ChangerPochette
    BY <1>6 DEF DepotInv, ChangerPochette
<1>7. CASE \E g \in BOOLEAN : Heberger(g)
  <2>1. PICK g \in BOOLEAN : Heberger(g)
      BY <1>7
  <2>2. garde' = g /\ importee # Sans /\ UNCHANGED importee /\ fichier' = (fichier /\ ~g)
      BY <2>1 DEF Heberger
  <2>3. CASE g
      BY <2>2, <2>3 DEF DepotInv
  <2>4. CASE ~g
      BY <2>2, <2>4 DEF DepotInv
  <2> QED BY <2>3, <2>4
<1>8. CASE Publier
    BY <1>8 DEF DepotInv, Publier
<1>9. CASE PublicationRepond
    BY <1>9 DEF DepotInv, PublicationRepond, FormulaireVide
<1>10. CASE AbandonnerDepot \/ RouvrirDepot
    BY <1>10 DEF DepotInv, AbandonnerDepot, RouvrirDepot, FormulaireVide
<1>11. CASE UNCHANGED depotVars
    BY <1>11 DEF DepotInv, depotVars
<1> QED BY <1>1, <1>2, <1>3, <1>4, <1>5, <1>6, <1>7, <1>8, <1>9, <1>10, <1>11 DEF DepotNext

\* No order of imports, files and choices leaves a file behind a hidden field.
THEOREM KeptSourceHasNoFileAlways == DepotSpec => []KeptSourceHasNoFile
<1>1. DepotInit => DepotInv
    BY DEF DepotInit, DepotInv
<1>2. DepotInv => KeptSourceHasNoFile
    BY DEF DepotInv, KeptSourceHasNoFile, AudioALaSource
<1> QED BY <1>1, <1>2, DepotInvNext, PTL DEF DepotSpec

(***************************************************************************)
(* The card.  A code is shown when the callback finds the departure it     *)
(* belongs to in the three items, which it erases: the departure they hold *)
(* has shown nothing, and neither has any that was not made yet.  A link   *)
(* that is pending was refused once more than it was sent.                 *)
(***************************************************************************)

SessionTypeOK ==
  /\ demandes \in Seq({"signin", "link", "relink"}) /\ Len(demandes) <= MaxDemandes
  /\ tampon \in 0..Len(demandes)
  /\ enSuspens \in BOOLEAN /\ bilan \in Int
  /\ presentes \in [Demandes -> Nat]

CodesFresh ==
  \A d \in Demandes :
    presentes[d] <= (IF d = tampon \/ d > Len(demandes) THEN 0 ELSE 1)

SessionInv ==
  SessionTypeOK /\ CodesFresh /\ bilan + (IF enSuspens THEN 1 ELSE 0) <= 0

\* A departure that is not made yet is none of those that are.
LEMMA SessionBounds ==
  SessionTypeOK => /\ Len(demandes) \in Nat /\ Len(demandes) <= MaxDemandes
                   /\ MaxDemandes \in Nat /\ bilan \in Int
BY SessionAssumption DEF SessionTypeOK

LEMMA SessionInvInit == SessionInit => SessionInv
<1> SUFFICES ASSUME SessionInit PROVE SessionInv
    OBVIOUS
<1>1. /\ demandes = <<>> /\ tampon = 0 /\ enSuspens = FALSE /\ bilan = 0
      /\ presentes = [d \in Demandes |-> 0]
    BY DEF SessionInit
<1>0. Len(demandes) = 0 /\ demandes \in Seq({"signin", "link", "relink"})
    BY <1>1
<1>2. SessionTypeOK
  <2>1. presentes \in [Demandes -> Nat] /\ tampon \in 0..Len(demandes)
      BY <1>0, <1>1
  <2>a. MaxDemandes \in Nat
      BY SessionAssumption
  <2>b. Len(demandes) <= MaxDemandes
      BY <1>0, <2>a
  <2>c. enSuspens \in BOOLEAN /\ bilan \in Int
    <3>1. enSuspens = FALSE
        BY <1>1
    <3>2. bilan = 0
        BY <1>1
    <3>3. bilan \in Int
        BY <3>2
    <3> QED BY <3>1, <3>3
  <2>2. Len(demandes) <= MaxDemandes /\ enSuspens \in BOOLEAN /\ bilan \in Int
      BY <2>b, <2>c
  <2> QED BY <1>0, <2>1, <2>2 DEF SessionTypeOK
<1>3. CodesFresh
    BY <1>1, SessionAssumption DEF CodesFresh, Demandes
<1>4. bilan + (IF enSuspens THEN 1 ELSE 0) <= 0
    BY <1>1
<1> QED BY <1>2, <1>3, <1>4 DEF SessionInv

\* startKeycloakFlow takes the next number, for which nothing was shown.
LEMMA Leaving ==
  ASSUME SessionInv, NEW i \in {"signin", "link", "relink"}, Partir(i), UNCHANGED presentes
  PROVE  /\ demandes' \in Seq({"signin", "link", "relink"}) /\ Len(demandes') <= MaxDemandes
         /\ tampon' \in 0..Len(demandes')
         /\ CodesFresh'
<1>0. SessionTypeOK /\ CodesFresh
    BY DEF SessionInv
<1>1. /\ Len(demandes) \in Nat /\ Len(demandes) < MaxDemandes /\ MaxDemandes \in Nat
    BY <1>0, SessionBounds DEF Partir
<1>2. demandes' = Append(demandes, i) /\ tampon' = Len(demandes')
    BY DEF Partir
<1>3. demandes' \in Seq({"signin", "link", "relink"}) /\ Len(demandes') = Len(demandes) + 1
    BY <1>0, <1>2 DEF SessionTypeOK
<1>4. \A d \in Demandes : presentes[d] \in Nat /\ d \in Nat
    BY <1>0, <1>1 DEF SessionTypeOK, Demandes
<1>5. CodesFresh'
  <2> SUFFICES ASSUME NEW d \in Demandes
               PROVE  presentes[d] <= (IF d = Len(demandes) + 1 \/ d > Len(demandes) + 1 THEN 0 ELSE 1)
      BY <1>2, <1>3 DEF CodesFresh, Demandes
  <2> QED BY <1>0, <1>1, <1>4 DEF CodesFresh
<1> QED BY <1>1, <1>2, <1>3, <1>5

\* A step that makes no departure and shows no code, forgets the items or not,
\* and leaves nothing pending that was not.
LEMMA NothingShown ==
  ASSUME SessionInv, UNCHANGED <<demandes, presentes, bilan>>, tampon' \in {tampon, 0},
         enSuspens' \in BOOLEAN, enSuspens' => enSuspens
  PROVE  SessionInv'
<1>0. SessionTypeOK /\ CodesFresh /\ bilan + (IF enSuspens THEN 1 ELSE 0) <= 0
    BY DEF SessionInv
<1>1. /\ Len(demandes) \in Nat /\ MaxDemandes \in Nat /\ bilan \in Int
      /\ \A d \in Demandes : presentes[d] \in Nat /\ d \in Nat /\ d # 0
    BY <1>0, SessionBounds DEF SessionTypeOK, Demandes
<1>2. SessionTypeOK'
    BY <1>0, <1>1 DEF SessionTypeOK, Demandes
<1>3. CodesFresh'
    BY <1>0, <1>1 DEF CodesFresh, Demandes
<1>4. (bilan + (IF enSuspens THEN 1 ELSE 0) <= 0)'
    BY <1>0, <1>1
<1> QED BY <1>2, <1>3, <1>4 DEF SessionInv

\* Mounting a route only ever forgets a pending link.
LEMMA RouteForgets ==
  ASSUME NEW e, NEW j, NEW f, NEW b, NEW m, Montrer(e, j, f, b, m)
  PROVE  enSuspens' \in BOOLEAN /\ (enSuspens' => enSuspens)
BY DEF Montrer

\* The callback shows the code of the departure the items hold, and erases them.
LEMMA Shows ==
  ASSUME SessionInv, NEW d, Debuter(d)
  PROVE  SessionInv'
<1>0. SessionTypeOK /\ CodesFresh /\ bilan + (IF enSuspens THEN 1 ELSE 0) <= 0
    BY DEF SessionInv
<1>1. UNCHANGED <<demandes, enSuspens, bilan>> /\ tampon' = 0
    BY DEF Debuter
<1>2. CASE d # tampon
  <2>1. UNCHANGED presentes /\ enSuspens' \in BOOLEAN
      BY <1>0, <1>1, <1>2 DEF Debuter, SessionTypeOK
  <2> QED BY <1>1, <2>1, NothingShown
<1>3. CASE d = tampon
  <2>1. presentes' = [presentes EXCEPT ![d] = @ + 1]
      BY <1>3 DEF Debuter
  <2>2. /\ Len(demandes) \in Nat /\ MaxDemandes \in Nat
        /\ \A k \in Demandes : presentes[k] \in Nat /\ k \in Nat /\ k # 0
        /\ tampon \in Nat /\ tampon <= Len(demandes)
      BY <1>0, SessionBounds DEF SessionTypeOK, Demandes
  <2>a. presentes' = [k \in Demandes |-> IF k = d THEN presentes[k] + 1 ELSE presentes[k]]
      BY <1>0, <2>1 DEF SessionTypeOK
  <2>3. presentes' \in [Demandes -> Nat]
      BY <2>a, <2>2
  <2>4. \A k \in Demandes : presentes'[k] = IF k = d THEN presentes[k] + 1 ELSE presentes[k]
      BY <2>a
  <2>5. CodesFresh'
    <3> SUFFICES ASSUME NEW k \in Demandes
                 PROVE  presentes'[k] <= (IF k = 0 \/ k > Len(demandes) THEN 0 ELSE 1)
        BY <1>1 DEF CodesFresh, Demandes
    <3>1. CASE k = d
        BY <1>0, <1>3, <2>2, <2>4, <3>1 DEF CodesFresh
    <3>2. CASE k # d
        BY <1>0, <1>3, <2>2, <2>4, <3>2 DEF CodesFresh
    <3> QED BY <3>1, <3>2
  <2>6. SessionTypeOK'
      BY <1>0, <1>1, <2>2, <2>3 DEF SessionTypeOK, Demandes
  <2> QED BY <1>0, <1>1, <2>5, <2>6 DEF SessionInv
<1> QED BY <1>2, <1>3

\* Each click, answer, button of the history and load keeps the invariant.
LEMMA SessionInvNext == SessionInv /\ [SessionNext]_sessionVars => SessionInv'
<1> SUFFICES ASSUME SessionInv, [SessionNext]_sessionVars PROVE SessionInv'
    OBVIOUS
<1>0. SessionTypeOK /\ CodesFresh /\ bilan + (IF enSuspens THEN 1 ELSE 0) <= 0
    BY DEF SessionInv
<1>t. enSuspens \in BOOLEAN /\ bilan \in Int
    BY <1>0 DEF SessionTypeOK
<1>1. CASE \E e \in {"accueil", "connexion", "reglages", "bienvenue"} : Aller(e)
  <2>1. UNCHANGED <<demandes, presentes, bilan, tampon>>
      BY <1>1 DEF Aller
  <2>2. enSuspens' \in BOOLEAN /\ (enSuspens' => enSuspens)
      BY <1>1, RouteForgets DEF Aller, Entrer
  <2> QED BY <2>1, <2>2, NothingShown
<1>2. CASE SeDeconnecter
  <2>1. UNCHANGED <<demandes, presentes, bilan, tampon>>
      BY <1>2 DEF SeDeconnecter
  <2>2. enSuspens' \in BOOLEAN /\ (enSuspens' => enSuspens)
      BY <1>2, RouteForgets DEF SeDeconnecter, Entrer
  <2> QED BY <2>1, <2>2, NothingShown
<1>3. CASE MoiRepond \/ ChoisirNom
  <2>1. UNCHANGED <<demandes, presentes, bilan, tampon, enSuspens>>
      BY <1>3 DEF MoiRepond, ChoisirNom
  <2> QED BY <1>t, <2>1, NothingShown
<1>4. CASE ParLaCarte
  <2>1. PICK i \in {"signin", "link", "relink"} : Partir(i)
      BY <1>4 DEF ParLaCarte
  <2>2. UNCHANGED <<presentes, bilan, enSuspens>>
      BY <1>4 DEF ParLaCarte
  <2> QED BY <1>0, <2>1, <2>2, Leaving DEF SessionInv, SessionTypeOK
<1>5. CASE \E d \in Demandes : Assigner(d) \/ RetrouverRealm(d)
  <2>1. UNCHANGED <<demandes, presentes, bilan, tampon, enSuspens>>
      BY <1>5 DEF Assigner, RetrouverRealm
  <2> QED BY <1>t, <2>1, NothingShown
<1>6. CASE \E d \in Demandes : Revenir(d)
    BY <1>6, Shows DEF Revenir
<1>7. CASE \E c \in Comptes : SeConnecter(c)
  <2>1. PICK c \in Comptes : SeConnecter(c)
      BY <1>7
  <2>2. UNCHANGED presentes
      BY <2>1 DEF SeConnecter
  <2>3. CASE enSuspens
    <3>1. Partir("relink") /\ bilan' = bilan + 1 /\ enSuspens' = FALSE
        BY <2>1, <2>3 DEF SeConnecter
    <3>2. /\ demandes' \in Seq({"signin", "link", "relink"}) /\ Len(demandes') <= MaxDemandes
          /\ tampon' \in 0..Len(demandes')
          /\ CodesFresh'
        BY <2>2, <3>1, Leaving
    <3>3. bilan' \in Int /\ bilan' <= 0
        BY <1>0, <1>t, <2>3, <3>1
    <3>4. SessionTypeOK'
        BY <1>0, <2>2, <3>1, <3>2, <3>3 DEF SessionTypeOK, Demandes
    <3>5. (bilan + (IF enSuspens THEN 1 ELSE 0) <= 0)'
        BY <3>1, <3>3
    <3> QED BY <3>2, <3>4, <3>5 DEF SessionInv
  <2>4. CASE ~enSuspens
    <3>1. UNCHANGED <<demandes, presentes, bilan, tampon>>
        BY <2>1, <2>4 DEF SeConnecter
    <3>2. enSuspens' \in BOOLEAN /\ (enSuspens' => enSuspens)
        BY <2>1, <2>4, RouteForgets DEF SeConnecter, Entrer
    <3> QED BY <3>1, <3>2, NothingShown
  <2> QED BY <2>3, <2>4
<1>8. CASE Quitter
  <2>1. UNCHANGED <<demandes, presentes, bilan, tampon, enSuspens>>
      BY <1>8 DEF Quitter
  <2> QED BY <1>t, <2>1, NothingShown
<1>9. CASE Rouvrir
  <2>1. UNCHANGED <<demandes, presentes, bilan, tampon>>
      BY <1>9 DEF Rouvrir
  <2>2. enSuspens' \in BOOLEAN /\ (enSuspens' => enSuspens)
      BY <1>9, RouteForgets DEF Rouvrir
  <2> QED BY <2>1, <2>2, NothingShown
<1>10. CASE Autoriser
    BY <1>10, Shows DEF Autoriser
<1>11. CASE Renoncer
  <2>1. UNCHANGED <<demandes, presentes, bilan, enSuspens>> /\ tampon' = 0
      BY <1>11 DEF Renoncer
  <2> QED BY <1>t, <2>1, NothingShown
<1>12. CASE JetonArrive
  <2>1. UNCHANGED <<demandes, presentes, bilan, tampon, enSuspens>>
      BY <1>12 DEF JetonArrive
  <2> QED BY <1>t, <2>1, NothingShown
<1>13. CASE Rattacher
  <2>1. UNCHANGED <<demandes, presentes, bilan, tampon>>
      BY <1>13 DEF Rattacher
  <2>2. enSuspens' \in BOOLEAN /\ (enSuspens' => enSuspens)
      BY <1>t, <1>13, RouteForgets DEF Rattacher, Remplacer, Entrer
  <2> QED BY <2>1, <2>2, NothingShown
<1>14. CASE ConnecterCarte
  <2>1. UNCHANGED <<demandes, presentes, bilan, tampon>>
      BY <1>14 DEF ConnecterCarte
  <2>2. enSuspens' \in BOOLEAN /\ (enSuspens' => enSuspens)
      BY <1>14, RouteForgets DEF ConnecterCarte, Remplacer, Entrer
  <2> QED BY <2>1, <2>2, NothingShown
<1>15. CASE CreerParCarte
  <2>1. UNCHANGED <<demandes, presentes, bilan, tampon, enSuspens>>
      BY <1>15 DEF CreerParCarte
  <2> QED BY <1>t, <2>1, NothingShown
<1>16. CASE CarteRefusee
  <2>1. UNCHANGED <<demandes, presentes, tampon>> /\ enSuspens' = TRUE /\ bilan' = bilan - 1
      BY <1>16 DEF CarteRefusee
  <2>2. bilan' \in Int /\ bilan' + 1 <= 0
      BY <1>0, <1>t, <2>1
  <2>3. SessionTypeOK' /\ CodesFresh'
      BY <1>0, <2>1, <2>2 DEF SessionTypeOK, CodesFresh, Demandes
  <2> QED BY <2>1, <2>2, <2>3 DEF SessionInv
<1>18. CASE \E d \in Demandes : Remonter(d)
  <2>1. UNCHANGED <<demandes, presentes, bilan, enSuspens>> /\ tampon' = 0
      BY <1>18 DEF Remonter
  <2> QED BY <1>t, <2>1, NothingShown
<1>17. CASE UNCHANGED sessionVars
  <2>1. UNCHANGED <<demandes, presentes, bilan, tampon, enSuspens>>
      BY <1>17 DEF sessionVars
  <2> QED BY <1>t, <2>1, NothingShown
<1> QED BY <1>1, <1>2, <1>3, <1>4, <1>5, <1>6, <1>7, <1>8, <1>9, <1>10, <1>11, <1>12, <1>13,
           <1>14, <1>15, <1>16, <1>17, <1>18 DEF SessionNext

\* No history, reload or departure that crosses another shows a code twice, or
\* sends a refused card back more than once.
THEOREM CardLeavesOnceAlways == SessionSpec => []CardLeavesOnce
<1>1. SessionInv => CardLeavesOnce
  <2> SUFFICES ASSUME SessionInv PROVE CardLeavesOnce
      OBVIOUS
  <2>1. \A d \in Demandes : presentes[d] \in Nat
      BY DEF SessionInv, SessionTypeOK
  <2>2. \A d \in Demandes : presentes[d] <= 1
      BY <2>1 DEF SessionInv, CodesFresh
  <2>3. bilan <= 0
      BY DEF SessionInv, SessionTypeOK
  <2> QED BY <2>2, <2>3 DEF CardLeavesOnce
<1> QED BY <1>1, SessionInvInit, SessionInvNext, PTL DEF SessionSpec

(***************************************************************************)
(* The toggles.  ShownIsHeld only speaks of a page at rest.  Until an      *)
(* object's requests overlap there is at most one of them, which knows     *)
(* what the flag, the row and the list of followers were before it         *)
(* (Suivie), and a reading under way has seen no request, so that what it  *)
(* brings is still what the server holds (Tenu).                           *)
(***************************************************************************)

Requete == [objet : Objets \cup {""}, avant : BOOLEAN,
            etat : {"libre", "partie", "faite", "refusee", "orpheline"}]

BasculesTypeOK ==
  /\ serveur \in [Objets -> BOOLEAN] /\ drapeau \in [Objets -> BOOLEAN]
  /\ compte \in [Objets -> Int] /\ abonnes \in Int
  /\ requetes \in [Requetes -> Requete]
  /\ relecture \in [Objets -> {AuRepos, "demandee", "oui", "non"}]
  /\ \A r \in Requetes : requetes[r].etat # "libre" => requetes[r].objet \in Objets

\* What the server was asked, as the page believed it to be.
Suivie(o, r) ==
  LET q == requetes[r] IN
  /\ q.etat # "orpheline"
  /\ drapeau[o] = ~q.avant
  /\ serveur[o] = IF q.etat = "faite" THEN ~q.avant ELSE q.avant
  /\ o = "profil" => abonnes = Un(q.avant)

Concorde(o) ==
  /\ drapeau[o] = serveur[o]
  /\ o = "profil" => abonnes = Un(serveur[o])

\* What is shown of an object, when its requests have not overlapped.
Tenu(o) ==
  o \notin croises =>
    /\ \A r, q \in EnRoute(o) : r = q
    /\ relecture[o] \in {"oui", "non"} =>
         EnRoute(o) = {} /\ serveur[o] = (relecture[o] = "oui")
    /\ relecture[o] \in {AuRepos, "demandee"} =>
         /\ compte[o] = Un(drapeau[o])
         /\ EnRoute(o) = {} => Concorde(o)
         /\ \A r \in EnRoute(o) : Suivie(o, r)

BasculesInv == BasculesTypeOK /\ \A o \in Objets : Tenu(o)

-----------------------------------------------------------------------------
LEMMA UnIsInt == \A b : Un(b) \in Int
BY DEF Un

LEMMA RequeteFields ==
  ASSUME NEW q \in Requete
  PROVE  /\ q.objet \in Objets \cup {""} /\ q.avant \in BOOLEAN
         /\ q.etat \in {"libre", "partie", "faite", "refusee", "orpheline"}
BY DEF Requete

LEMMA LibreIsRequete ==
  Libre \in Requete /\ Libre.objet = "" /\ Libre.etat = "libre" /\ "" \notin Objets
BY BasculesAssumption DEF Libre, Requete

LEMMA EtatAlone ==
  ASSUME NEW q \in Requete, NEW e \in {"faite", "refusee", "orpheline"}
  PROVE  /\ [q EXCEPT !.etat = e] \in Requete /\ [q EXCEPT !.etat = e].etat = e
         /\ [q EXCEPT !.etat = e].objet = q.objet /\ [q EXCEPT !.etat = e].avant = q.avant
BY DEF Requete

\* What a step does to one object leaves the others as they are.
LEMMA ElsewhereHeld ==
  ASSUME NEW o \in Objets, Tenu(o),
         serveur'[o] = serveur[o], drapeau'[o] = drapeau[o], compte'[o] = compte[o],
         relecture'[o] = relecture[o], o \notin croises' => o \notin croises,
         o = "profil" => abonnes' = abonnes,
         \A r \in Requetes : \/ requetes'[r] = requetes[r]
                             \/ requetes'[r].objet # o /\ requetes[r].objet # o
  PROVE  Tenu(o)'
<1>1. \A r \in Requetes : requetes'[r].objet = o <=> requetes[r].objet = o
    OBVIOUS
<1>2. {r \in Requetes : requetes'[r].objet = o} = EnRoute(o)
    BY <1>1 DEF EnRoute
<1>3. \A r \in EnRoute(o) : requetes'[r] = requetes[r]
    BY DEF EnRoute
<1> SUFFICES ASSUME o \notin croises'
    PROVE
      /\ \A r, q \in EnRoute(o) : r = q
      /\ relecture'[o] \in {"oui", "non"} =>
           EnRoute(o) = {} /\ serveur'[o] = (relecture'[o] = "oui")
      /\ relecture'[o] \in {AuRepos, "demandee"} =>
           /\ compte'[o] = Un(drapeau'[o])
           /\ EnRoute(o) = {} =>
                drapeau'[o] = serveur'[o] /\ (o = "profil" => abonnes' = Un(serveur'[o]))
           /\ \A r \in EnRoute(o) :
                /\ requetes'[r].etat # "orpheline"
                /\ drapeau'[o] = ~requetes'[r].avant
                /\ serveur'[o] = IF requetes'[r].etat = "faite" THEN ~requetes'[r].avant
                                 ELSE requetes'[r].avant
                /\ o = "profil" => abonnes' = Un(requetes'[r].avant)
    BY <1>2 DEF Tenu, EnRoute, Concorde, Suivie
<1>4. o \notin croises
    OBVIOUS
<1>5. \A r, q \in EnRoute(o) : r = q
    BY <1>4 DEF Tenu
<1>6. relecture[o] \in {"oui", "non"} =>
        EnRoute(o) = {} /\ serveur[o] = (relecture[o] = "oui")
    BY <1>4 DEF Tenu
<1>7. relecture[o] \in {AuRepos, "demandee"} =>
        /\ compte[o] = Un(drapeau[o])
        /\ EnRoute(o) = {} => Concorde(o)
        /\ \A r \in EnRoute(o) : Suivie(o, r)
    BY <1>4 DEF Tenu
<1> QED BY <1>3, <1>5, <1>6, <1>7 DEF Concorde, Suivie

\* One object turned over: its flag, its count, and a request.
LEMMA TurnsOver ==
  ASSUME BasculesInv, NEW o \in Objets, Retourner(o)
  PROVE  BasculesInv'
<1>0. BasculesTypeOK /\ \A x \in Objets : Tenu(x)
    BY DEF BasculesInv
<1>1. PICK r \in Requetes :
        /\ requetes[r] = Libre
        /\ requetes' = [requetes EXCEPT ![r] = [objet |-> o, avant |-> drapeau[o], etat |-> "partie"]]
    BY DEF Retourner
<1> DEFINE n == [objet |-> o, avant |-> drapeau[o], etat |-> "partie"]
<1>2. /\ relecture[o] = AuRepos /\ o \notin croises
      /\ drapeau' = [drapeau EXCEPT ![o] = ~drapeau[o]]
      /\ compte' = [compte EXCEPT ![o] = compte[o] + Un(~drapeau[o]) - Un(drapeau[o])]
      /\ croises' = IF EnRoute(o) = {} THEN croises ELSE croises \cup {o}
      /\ UNCHANGED <<serveur, abonnes, relecture>>
    BY DEF Retourner
<1>3. drapeau[o] \in BOOLEAN /\ serveur[o] \in BOOLEAN /\ compte[o] \in Int
    BY <1>0 DEF BasculesTypeOK
<1>4. n \in Requete /\ n.objet = o /\ n.etat = "partie" /\ n.avant = drapeau[o]
    BY <1>3 DEF Requete
<1> HIDE DEF n
<1>5. /\ requetes' \in [Requetes -> Requete]
      /\ \A q \in Requetes : requetes'[q] = IF q = r THEN n ELSE requetes[q]
    BY <1>0, <1>1, <1>4 DEF BasculesTypeOK, n
<1>6. /\ drapeau' \in [Objets -> BOOLEAN]
      /\ drapeau'[o] = ~drapeau[o]
      /\ \A x \in Objets : x # o => drapeau'[x] = drapeau[x]
    BY <1>0, <1>2 DEF BasculesTypeOK
<1>7. /\ compte' \in [Objets -> Int]
      /\ compte'[o] = compte[o] + Un(~drapeau[o]) - Un(drapeau[o])
      /\ \A x \in Objets : x # o => compte'[x] = compte[x]
    BY <1>0, <1>2, <1>3, UnIsInt DEF BasculesTypeOK
<1>8. BasculesTypeOK'
    BY <1>0, <1>2, <1>4, <1>5, <1>6, <1>7 DEF BasculesTypeOK
<1>9. ASSUME NEW x \in Objets, x # o PROVE Tenu(x)'
  <2>1. \A q \in Requetes : \/ requetes'[q] = requetes[q]
                            \/ requetes'[q].objet # x /\ requetes[q].objet # x
      BY <1>1, <1>4, <1>5, <1>9, LibreIsRequete
  <2> QED BY <1>0, <1>2, <1>6, <1>7, <1>9, <2>1, ElsewhereHeld
<1>10. Tenu(o)'
  <2>1. CASE EnRoute(o) # {}
    <3>1. o \in croises'
        BY <1>2, <2>1
    <3> QED BY <3>1 DEF Tenu
  <2>2. CASE EnRoute(o) = {}
    <3>1. \A q \in Requetes : requetes'[q].objet = o <=> q = r
        BY <1>4, <1>5, <2>2 DEF EnRoute
    <3>2. EnRoute(o)' = {r}
        BY <3>1 DEF EnRoute
    <3>3. Concorde(o) /\ compte[o] = Un(drapeau[o])
        BY <1>0, <1>2, <2>2 DEF Tenu, AuRepos
    <3>4. compte'[o] = Un(drapeau'[o])
        BY <1>6, <1>7, <3>3, UnIsInt
    <3>5. requetes'[r] = n
        BY <1>5
    <3>6. Suivie(o, r)'
        BY <1>2, <1>3, <1>4, <1>6, <3>3, <3>5 DEF Suivie, Concorde
    <3> QED BY <1>2, <3>2, <3>4, <3>6 DEF Tenu, AuRepos
  <2> QED BY <2>1, <2>2
<1> QED BY <1>8, <1>9, <1>10 DEF BasculesInv

\* The only request of an object whose requests have not overlapped.
LEMMA OnlyRequest ==
  ASSUME BasculesInv, NEW r \in Requetes, requetes[r].etat # "libre",
         requetes[r].objet \notin croises
  PROVE  /\ requetes[r].objet \in Objets /\ EnRoute(requetes[r].objet) = {r}
         /\ relecture[requetes[r].objet] \in {AuRepos, "demandee"}
         /\ compte[requetes[r].objet] = Un(drapeau[requetes[r].objet])
         /\ Suivie(requetes[r].objet, r)
<1>1. requetes[r].objet \in Objets
    BY DEF BasculesInv, BasculesTypeOK
<1>2. Tenu(requetes[r].objet) /\ r \in EnRoute(requetes[r].objet)
    BY <1>1 DEF BasculesInv, EnRoute
<1>3. relecture[requetes[r].objet] \in {AuRepos, "demandee", "oui", "non"}
    BY <1>1 DEF BasculesInv, BasculesTypeOK
<1> QED BY <1>1, <1>2, <1>3 DEF Tenu

\* The server deals with a request, or refuses it.
LEMMA IsDealtWith ==
  ASSUME BasculesInv, NEW r \in Requetes, NEW o, o = requetes[r].objet, Traiter(r)
  PROVE  BasculesInv'
<1>0. BasculesTypeOK /\ \A x \in Objets : Tenu(x)
    BY DEF BasculesInv
<1>1. /\ requetes[r].etat = "partie" /\ o \in Objets /\ requetes[r] \in Requete
      /\ UNCHANGED <<drapeau, compte, abonnes, relecture, croises>>
    BY <1>0 DEF Traiter, BasculesTypeOK
<1>2. requetes[r].avant \in BOOLEAN
    BY <1>1, RequeteFields
<1>3. requetes \in [Requetes -> Requete] /\ serveur \in [Objets -> BOOLEAN]
    BY <1>0 DEF BasculesTypeOK
<1>x. \E e \in {"faite", "refusee"} :
        /\ requetes' = [requetes EXCEPT ![r] = [requetes[r] EXCEPT !.etat = e]]
        /\ IF e = "faite" THEN serveur' = [serveur EXCEPT ![o] = ~requetes[r].avant]
           ELSE serveur' = serveur
    BY DEF Traiter
<1>4. PICK e \in {"faite", "refusee"} :
        /\ requetes' = [requetes EXCEPT ![r] = [requetes[r] EXCEPT !.etat = e]]
        /\ IF e = "faite" THEN serveur' = [serveur EXCEPT ![o] = ~requetes[r].avant]
           ELSE serveur' = serveur
    BY <1>x
<1> DEFINE n == [requetes[r] EXCEPT !.etat = e]
<1>5. n \in Requete /\ n.objet = o /\ n.etat = e /\ n.avant = requetes[r].avant
  <2>1. e \in {"faite", "refusee", "orpheline"}
      OBVIOUS
  <2> QED BY <1>1, <2>1, EtatAlone
<1> HIDE DEF n
<1>6. /\ requetes' \in [Requetes -> Requete]
      /\ \A q \in Requetes : requetes'[q] = IF q = r THEN n ELSE requetes[q]
    BY <1>0, <1>4, <1>5 DEF BasculesTypeOK, n
<1>7. /\ serveur' \in [Objets -> BOOLEAN]
      /\ serveur'[o] = IF e = "faite" THEN ~requetes[r].avant ELSE serveur[o]
      /\ \A x \in Objets : x # o => serveur'[x] = serveur[x]
    BY <1>1, <1>2, <1>3, <1>4
<1>8. BasculesTypeOK'
    BY <1>0, <1>1, <1>5, <1>6, <1>7 DEF BasculesTypeOK
<1>9. ASSUME NEW x \in Objets, x # o PROVE Tenu(x)'
  <2>1. \A q \in Requetes : \/ requetes'[q] = requetes[q]
                            \/ requetes'[q].objet # x /\ requetes[q].objet # x
      BY <1>5, <1>6, <1>9
  <2> QED BY <1>0, <1>1, <1>7, <1>9, <2>1, ElsewhereHeld
<1>10. Tenu(o)'
  <2>1. CASE o \in croises
      BY <1>1, <2>1 DEF Tenu
  <2>2. CASE o \notin croises
    <3>1. /\ EnRoute(o) = {r} /\ relecture[o] \in {AuRepos, "demandee"}
          /\ compte[o] = Un(drapeau[o]) /\ Suivie(o, r)
        BY <1>1, <2>2, OnlyRequest
    <3>2. \A q \in Requetes : requetes'[q].objet = o <=> requetes[q].objet = o
        BY <1>5, <1>6
    <3>3. EnRoute(o)' = {r}
        BY <3>1, <3>2 DEF EnRoute
    <3>4. requetes'[r] = n
        BY <1>6
    <3>5. /\ drapeau[o] = ~requetes[r].avant /\ serveur[o] = requetes[r].avant
          /\ o = "profil" => abonnes = Un(requetes[r].avant)
        BY <1>1, <3>1 DEF Suivie
    <3>6. serveur'[o] = IF e = "faite" THEN ~n.avant ELSE n.avant
        BY <1>5, <1>7, <3>5
    <3>7. Suivie(o, r)'
        BY <1>1, <1>5, <3>4, <3>5, <3>6 DEF Suivie
    <3> QED BY <1>1, <3>1, <3>3, <3>7 DEF Tenu, AuRepos
  <2> QED BY <2>1, <2>2
<1> QED BY <1>8, <1>9, <1>10 DEF BasculesInv

\* A request is over, and its object shows what the server holds.
LEMMA IsOver ==
  ASSUME BasculesInv, NEW r \in Requetes, NEW o \in Objets, o = requetes[r].objet,
         requetes' = [requetes EXCEPT ![r] = Libre], UNCHANGED <<serveur, relecture>>,
         drapeau' \in [Objets -> BOOLEAN], compte' \in [Objets -> Int], abonnes' \in Int,
         \A x \in Objets : x # o => drapeau'[x] = drapeau[x] /\ compte'[x] = compte[x],
         o # "profil" => abonnes' = abonnes,
         \A x : x \in croises => x \in croises',
         o \notin croises' => /\ drapeau'[o] = serveur[o] /\ compte'[o] = Un(drapeau'[o])
                              /\ o = "profil" => abonnes' = Un(serveur[o])
  PROVE  BasculesInv'
<1>0. BasculesTypeOK /\ \A x \in Objets : Tenu(x)
    BY DEF BasculesInv
<1>1. /\ requetes' \in [Requetes -> Requete]
      /\ \A q \in Requetes : requetes'[q] = IF q = r THEN Libre ELSE requetes[q]
    BY <1>0, LibreIsRequete DEF BasculesTypeOK
<1>2. BasculesTypeOK'
    BY <1>0, <1>1, LibreIsRequete DEF BasculesTypeOK
<1>3. ASSUME NEW x \in Objets, x # o PROVE Tenu(x)'
  <2>1. \A q \in Requetes : \/ requetes'[q] = requetes[q]
                            \/ requetes'[q].objet # x /\ requetes[q].objet # x
      BY <1>1, <1>3, LibreIsRequete
  <2>2. x = "profil" => abonnes' = abonnes
      BY <1>3
  <2> QED BY <1>0, <1>3, <2>1, <2>2, ElsewhereHeld
<1>4. Tenu(o)'
  <2>1. CASE o \in croises'
      BY <2>1 DEF Tenu
  <2>2. CASE o \notin croises'
    <3>1. o \notin croises /\ r \in EnRoute(o)
        BY <2>2 DEF EnRoute
    <3>2. /\ \A q \in EnRoute(o) : q = r
          /\ ~(relecture[o] \in {"oui", "non"})
        BY <1>0, <3>1 DEF Tenu
    <3>3. \A q \in Requetes : requetes'[q].objet # o
        BY <1>1, <3>2, LibreIsRequete DEF EnRoute
    <3>4. EnRoute(o)' = {}
        BY <3>3 DEF EnRoute
    <3> QED BY <2>2, <3>2, <3>4 DEF Tenu, Concorde
  <2> QED BY <2>1, <2>2
<1> QED BY <1>2, <1>3, <1>4 DEF BasculesInv

\* The answers: a success, a failure, and that of an object that is replaced.
LEMMA Answers ==
  ASSUME BasculesInv, NEW r \in Requetes,
         Aboutir(r) \/ Echouer(r) \/ EchouerDansLeVide(r)
  PROVE  BasculesInv'
<1>0. BasculesTypeOK /\ \A x \in Objets : Tenu(x)
    BY DEF BasculesInv
<1>1. PICK o : o = requetes[r].objet
    OBVIOUS
<1>2. /\ o \in Objets /\ requetes[r].etat # "libre" /\ requetes[r] \in Requete
      /\ requetes' = [requetes EXCEPT ![r] = Libre] /\ UNCHANGED <<serveur, relecture>>
    BY <1>0, <1>1 DEF Aboutir, Echouer, EchouerDansLeVide, Rendre, BasculesTypeOK
<1>3. /\ drapeau \in [Objets -> BOOLEAN] /\ serveur \in [Objets -> BOOLEAN]
      /\ compte \in [Objets -> Int] /\ abonnes \in Int
    BY <1>0 DEF BasculesTypeOK
<1>4. ASSUME o \notin croises
      PROVE  compte[o] = Un(drapeau[o]) /\ Suivie(o, r)
    BY <1>1, <1>2, <1>4, OnlyRequest
<1>5. CASE Aboutir(r)
  <2>1. /\ UNCHANGED <<drapeau, compte, croises>>
        /\ requetes[r].etat \in {"faite", "orpheline"}
        /\ abonnes' = IF o # "profil" THEN abonnes ELSE IF drapeau[o] THEN abonnes + 1 ELSE 0
      BY <1>1, <1>5 DEF Aboutir
  <2>2. abonnes' \in Int
      BY <1>3, <2>1
  <2>3. ASSUME o \notin croises'
        PROVE  /\ drapeau[o] = serveur[o] /\ compte[o] = Un(drapeau[o])
               /\ o = "profil" => abonnes' = Un(serveur[o])
    <3>1. compte[o] = Un(drapeau[o]) /\ Suivie(o, r)
        BY <1>4, <2>1, <2>3
    <3>2. requetes[r].etat = "faite"
        BY <2>1, <3>1 DEF Suivie
    <3>3. drapeau[o] = serveur[o] /\ (o = "profil" => abonnes = Un(~drapeau[o]))
        BY <1>2, <3>1, <3>2, RequeteFields DEF Suivie
    <3>4. drapeau[o] \in BOOLEAN
        BY <1>2, <1>3
    <3>5. o = "profil" => abonnes' = Un(drapeau[o])
        BY <2>1, <3>3, <3>4 DEF Un
    <3> QED BY <3>1, <3>3, <3>5
  <2> QED BY <1>1, <1>2, <1>3, <2>1, <2>2, <2>3, IsOver
<1>6. CASE Echouer(r)
  <2>1. /\ drapeau' = [drapeau EXCEPT ![o] = requetes[r].avant]
        /\ compte' = [compte EXCEPT ![o] =
             compte[o] + Un(requetes[r].avant) - Un(~requetes[r].avant)]
        /\ croises' = IF requetes[r].etat = "faite" THEN croises \cup {o} ELSE croises
        /\ UNCHANGED abonnes /\ requetes[r].etat \in {"faite", "refusee"}
      BY <1>1, <1>6 DEF Echouer, Defaire
  <2>2. requetes[r].avant \in BOOLEAN
      BY <1>2, RequeteFields
  <2>3. /\ drapeau' \in [Objets -> BOOLEAN] /\ drapeau'[o] = requetes[r].avant
        /\ \A x \in Objets : x # o => drapeau'[x] = drapeau[x]
      BY <1>2, <1>3, <2>1, <2>2
  <2>4. compte[o] + Un(requetes[r].avant) - Un(~requetes[r].avant) \in Int
      BY <1>2, <1>3, UnIsInt
  <2>5. /\ compte' \in [Objets -> Int]
        /\ compte'[o] = compte[o] + Un(requetes[r].avant) - Un(~requetes[r].avant)
        /\ \A x \in Objets : x # o => compte'[x] = compte[x]
      BY <1>2, <1>3, <2>1, <2>4
  <2>6. ASSUME o \notin croises'
        PROVE  /\ drapeau'[o] = serveur[o] /\ compte'[o] = Un(drapeau'[o])
               /\ o = "profil" => abonnes' = Un(serveur[o])
    <3>1. o \notin croises /\ requetes[r].etat = "refusee"
        BY <2>1, <2>6
    <3>2. compte[o] = Un(drapeau[o]) /\ Suivie(o, r)
        BY <1>4, <3>1
    <3>3. /\ drapeau[o] = ~requetes[r].avant /\ serveur[o] = requetes[r].avant
          /\ o = "profil" => abonnes = Un(requetes[r].avant)
        BY <3>1, <3>2 DEF Suivie
    <3>4. compte'[o] = Un(requetes[r].avant)
        BY <2>5, <3>2, <3>3, UnIsInt
    <3> QED BY <2>1, <2>3, <3>3, <3>4
  <2> QED BY <1>1, <1>2, <1>3, <2>1, <2>3, <2>5, <2>6, IsOver
<1>7. CASE EchouerDansLeVide(r)
  <2>1. UNCHANGED <<drapeau, compte, croises, abonnes>> /\ requetes[r].etat = "orpheline"
      BY <1>7 DEF EchouerDansLeVide
  <2>2. o \in croises
      BY <1>4, <2>1 DEF Suivie
  <2> QED BY <1>1, <1>2, <1>3, <2>1, <2>2, IsOver
<1> QED BY <1>5, <1>6, <1>7

\* The object is asked for again; what is shown waits.
LEMMA IsAskedAgain ==
  ASSUME BasculesInv, NEW o \in Objets, Relire(o)
  PROVE  BasculesInv'
<1>0. BasculesTypeOK /\ \A x \in Objets : Tenu(x)
    BY DEF BasculesInv
<1>1. /\ relecture[o] = AuRepos /\ relecture' = [relecture EXCEPT ![o] = "demandee"]
      /\ UNCHANGED <<serveur, drapeau, compte, abonnes, requetes, croises>>
    BY DEF Relire
<1>2. /\ relecture' \in [Objets -> {AuRepos, "demandee", "oui", "non"}]
      /\ relecture'[o] = "demandee" /\ \A x \in Objets : x # o => relecture'[x] = relecture[x]
    BY <1>0, <1>1 DEF BasculesTypeOK
<1>3. BasculesTypeOK'
    BY <1>0, <1>1, <1>2 DEF BasculesTypeOK
<1>4. ASSUME NEW x \in Objets, x # o PROVE Tenu(x)'
    BY <1>0, <1>1, <1>2, <1>4, ElsewhereHeld
<1>5. Tenu(o)'
  <2>1. o \notin croises =>
          /\ \A r, q \in EnRoute(o) : r = q
          /\ compte[o] = Un(drapeau[o])
          /\ EnRoute(o) = {} => Concorde(o)
          /\ \A r \in EnRoute(o) : Suivie(o, r)
      BY <1>0, <1>1 DEF Tenu
  <2> QED BY <1>1, <1>2, <2>1 DEF Tenu, EnRoute, Concorde, Suivie
<1> QED BY <1>3, <1>4, <1>5 DEF BasculesInv

\* The server reads it: with no request under way, what it reads is to stay.
LEMMA IsReadAgain ==
  ASSUME BasculesInv, NEW o \in Objets, LireServeur(o)
  PROVE  BasculesInv'
<1>0. BasculesTypeOK /\ \A x \in Objets : Tenu(x)
    BY DEF BasculesInv
<1>1. /\ relecture' = [relecture EXCEPT ![o] = IF serveur[o] THEN "oui" ELSE "non"]
      /\ croises' = IF EnRoute(o) = {} THEN croises \ {o} ELSE croises \cup {o}
      /\ UNCHANGED <<serveur, drapeau, compte, abonnes, requetes>>
    BY DEF LireServeur
<1>2. /\ relecture' \in [Objets -> {AuRepos, "demandee", "oui", "non"}]
      /\ relecture'[o] = IF serveur[o] THEN "oui" ELSE "non"
      /\ \A x \in Objets : x # o => relecture'[x] = relecture[x]
    BY <1>0, <1>1 DEF BasculesTypeOK
<1>3. BasculesTypeOK'
    BY <1>0, <1>1, <1>2 DEF BasculesTypeOK
<1>4. ASSUME NEW x \in Objets, x # o PROVE Tenu(x)'
  <2>1. x \notin croises' => x \notin croises
      BY <1>1, <1>4
  <2> QED BY <1>0, <1>1, <1>2, <1>4, <2>1, ElsewhereHeld
<1>5. Tenu(o)'
  <2>1. CASE EnRoute(o) = {}
    <3>1. EnRoute(o)' = {}
        BY <1>1, <2>1 DEF EnRoute
    <3>2. serveur[o] \in BOOLEAN
        BY <1>0 DEF BasculesTypeOK
    <3>3. relecture'[o] \in {"oui", "non"} /\ serveur'[o] = (relecture'[o] = "oui")
        BY <1>1, <1>2, <3>2
    <3>4. ~(relecture'[o] \in {AuRepos, "demandee"})
        BY <3>3 DEF AuRepos
    <3> QED BY <3>1, <3>3, <3>4 DEF Tenu
  <2>2. CASE EnRoute(o) # {}
    <3>1. o \in croises'
        BY <1>1, <2>2
    <3> QED BY <3>1 DEF Tenu
  <2> QED BY <2>1, <2>2
<1> QED BY <1>3, <1>4, <1>5 DEF BasculesInv

\* What was read takes the place of what was shown.
LEMMA IsShownAgain ==
  ASSUME BasculesInv, NEW o \in Objets, Relu(o)
  PROVE  BasculesInv'
<1>0. BasculesTypeOK /\ \A x \in Objets : Tenu(x)
    BY DEF BasculesInv
<1>1. PICK lu : lu = (relecture[o] = "oui")
    OBVIOUS
<1>2. /\ relecture[o] \in {"oui", "non"} /\ relecture' = [relecture EXCEPT ![o] = AuRepos]
      /\ drapeau' = [drapeau EXCEPT ![o] = lu] /\ compte' = [compte EXCEPT ![o] = Un(lu)]
      /\ abonnes' = IF o = "profil" THEN Un(lu) ELSE abonnes
      /\ UNCHANGED <<serveur, croises>>
    BY <1>1 DEF Relu
<1>3. requetes' = [r \in Requetes |->
        IF requetes[r].objet = o /\ requetes[r].etat # "partie"
        THEN [requetes[r] EXCEPT !.etat = "orpheline"] ELSE requetes[r]]
    BY DEF Relu
<1>4. lu \in BOOLEAN
    BY <1>1
<1>5. /\ relecture' \in [Objets -> {AuRepos, "demandee", "oui", "non"}]
      /\ relecture'[o] = AuRepos /\ \A x \in Objets : x # o => relecture'[x] = relecture[x]
    BY <1>0, <1>2 DEF BasculesTypeOK
<1>6. /\ drapeau' \in [Objets -> BOOLEAN]
      /\ drapeau'[o] = lu /\ \A x \in Objets : x # o => drapeau'[x] = drapeau[x]
    BY <1>0, <1>2, <1>4 DEF BasculesTypeOK
<1>7. /\ compte' \in [Objets -> Int]
      /\ compte'[o] = Un(lu) /\ \A x \in Objets : x # o => compte'[x] = compte[x]
    BY <1>0, <1>2, UnIsInt DEF BasculesTypeOK
<1>8. ASSUME NEW r \in Requetes
      PROVE  /\ requetes'[r] \in Requete /\ requetes'[r].objet = requetes[r].objet
             /\ requetes'[r].etat # "libre" => requetes'[r].objet \in Objets
             /\ requetes[r].objet # o => requetes'[r] = requetes[r]
  <2>1. requetes[r] \in Requete /\ (requetes[r].etat # "libre" => requetes[r].objet \in Objets)
      BY <1>0 DEF BasculesTypeOK
  <2>2. CASE requetes[r].objet = o /\ requetes[r].etat # "partie"
    <3>1. requetes'[r] = [requetes[r] EXCEPT !.etat = "orpheline"]
        BY <1>3, <2>2
    <3>2. requetes'[r] \in Requete /\ requetes'[r].objet = requetes[r].objet
        BY <2>1, <3>1, EtatAlone
    <3> QED BY <2>2, <3>2
  <2>3. CASE ~(requetes[r].objet = o /\ requetes[r].etat # "partie")
    <3>1. requetes'[r] = requetes[r]
        BY <1>3, <2>3
    <3> QED BY <2>1, <3>1
  <2> QED BY <2>2, <2>3
<1>9. requetes' \in [Requetes -> Requete]
    BY <1>3, <1>8
<1>10. abonnes' \in Int
    BY <1>0, <1>2, UnIsInt DEF BasculesTypeOK
<1>11. BasculesTypeOK'
    BY <1>0, <1>2, <1>5, <1>6, <1>7, <1>8, <1>9, <1>10 DEF BasculesTypeOK
<1>12. ASSUME NEW x \in Objets, x # o PROVE Tenu(x)'
  <2>1. \A q \in Requetes : \/ requetes'[q] = requetes[q]
                            \/ requetes'[q].objet # x /\ requetes[q].objet # x
      BY <1>8, <1>12
  <2>2. x = "profil" => abonnes' = abonnes
      BY <1>2, <1>12
  <2> QED BY <1>0, <1>2, <1>5, <1>6, <1>7, <1>12, <2>1, <2>2, ElsewhereHeld
<1>13. Tenu(o)'
  <2>1. CASE o \in croises
      BY <1>2, <2>1 DEF Tenu
  <2>2. CASE o \notin croises
    <3>1. EnRoute(o) = {} /\ serveur[o] = lu
        BY <1>0, <1>1, <1>2, <2>2 DEF Tenu
    <3>2. EnRoute(o)' = {}
        BY <1>8, <3>1 DEF EnRoute
    <3>3. ~(relecture'[o] \in {"oui", "non"})
        BY <1>5 DEF AuRepos
    <3>4. Concorde(o)'
        BY <1>2, <1>6, <3>1 DEF Concorde
    <3> QED BY <1>6, <1>7, <3>2, <3>3, <3>4 DEF Tenu
  <2> QED BY <2>1, <2>2
<1> QED BY <1>11, <1>12, <1>13 DEF BasculesInv

LEMMA BasculesInvInit == BasculesInit => BasculesInv
<1> SUFFICES ASSUME BasculesInit PROVE BasculesInv
    OBVIOUS
<1>1. /\ serveur \in [Objets -> BOOLEAN] /\ drapeau = serveur
      /\ compte = [o \in Objets |-> Un(serveur[o])]
      /\ abonnes = IF "profil" \in Objets THEN Un(serveur["profil"]) ELSE 0
      /\ requetes = [r \in Requetes |-> Libre] /\ relecture = [o \in Objets |-> AuRepos]
    BY DEF BasculesInit
<1>2. BasculesTypeOK
  <2>1. abonnes \in Int
      BY <1>1, UnIsInt
  <2>2. compte \in [Objets -> Int]
      BY <1>1, UnIsInt
  <2>3. /\ requetes \in [Requetes -> Requete]
        /\ \A r \in Requetes : requetes[r].etat # "libre" => requetes[r].objet \in Objets
      BY <1>1, LibreIsRequete
  <2>4. relecture \in [Objets -> {AuRepos, "demandee", "oui", "non"}]
      BY <1>1
  <2> QED BY <1>1, <2>1, <2>2, <2>3, <2>4 DEF BasculesTypeOK
<1>3. ASSUME NEW o \in Objets PROVE Tenu(o)
  <2>1. EnRoute(o) = {}
      BY <1>1, LibreIsRequete DEF EnRoute
  <2>2. relecture[o] = AuRepos /\ ~(relecture[o] \in {"oui", "non"})
      BY <1>1 DEF AuRepos
  <2>3. Concorde(o) /\ compte[o] = Un(drapeau[o])
      BY <1>1 DEF Concorde
  <2> QED BY <2>1, <2>2, <2>3 DEF Tenu
<1> QED BY <1>2, <1>3 DEF BasculesInv

LEMMA BasculesInvNext == BasculesInv /\ [BasculesNext]_basculesVars => BasculesInv'
<1> SUFFICES ASSUME BasculesInv, [BasculesNext]_basculesVars PROVE BasculesInv'
    OBVIOUS
<1>1. CASE \E o \in Objets : BasculerLibre(o)
    BY <1>1, TurnsOver DEF BasculerLibre
<1>2. CASE "profil" \in Objets /\ SuivreProfil
    BY <1>2, TurnsOver DEF SuivreProfil
<1>3. CASE \E o \in Objets : Relire(o)
    BY <1>3, IsAskedAgain
<1>4. CASE \E o \in Objets : LireServeur(o)
    BY <1>4, IsReadAgain
<1>5. CASE \E o \in Objets : Relu(o)
    BY <1>5, IsShownAgain
<1>6. CASE \E r \in Requetes : Traiter(r)
    BY <1>6, IsDealtWith
<1>7. CASE \E r \in Requetes : Aboutir(r) \/ Echouer(r) \/ EchouerDansLeVide(r)
    BY <1>7, Answers
<1>8. CASE UNCHANGED basculesVars
  <2>1. UNCHANGED <<serveur, drapeau, compte, abonnes, requetes, relecture, croises>>
      BY <1>8 DEF basculesVars
  <2>2. BasculesTypeOK'
      BY <2>1 DEF BasculesInv, BasculesTypeOK
  <2>3. \A o \in Objets : Tenu(o)'
      BY <2>1 DEF BasculesInv, Tenu, EnRoute, Concorde, Suivie
  <2> QED BY <2>2, <2>3 DEF BasculesInv
<1> QED BY <1>1, <1>2, <1>3, <1>4, <1>5, <1>6, <1>7, <1>8 DEF BasculesNext

\* Whatever is refused, a page at rest shows what the server holds, flag, count
\* and list of followers together, for every object whose requests have neither
\* overlapped nor lost an answer.
THEOREM ShownIsHeldAlways == BasculesSpec => []ShownIsHeld
<1>1. BasculesInv => ShownIsHeld
  <2> SUFFICES ASSUME BasculesInv, NEW o \in Objets, EnRoute(o) = {},
                      relecture[o] = AuRepos, o \notin croises
               PROVE  /\ drapeau[o] = serveur[o] /\ compte[o] = Un(serveur[o])
                      /\ o = "profil" => abonnes = Un(serveur[o])
      BY DEF ShownIsHeld
  <2> QED BY DEF BasculesInv, Tenu, Concorde
<1> QED BY <1>1, BasculesInvInit, BasculesInvNext, PTL DEF BasculesSpec

(***************************************************************************)
(* The player.  A frame has one run, and only the run of the frame in the  *)
(* page can bring its widget up (RunBeforeWidget); so the widget of a      *)
(* Mixcloud mix makes no sound before the run has ended (SilentBefore),    *)
(* and what a listener asked for meanwhile is still a wish when it ends.   *)
(***************************************************************************)

Course == [mix : MixLus \cup {Rien}, etape : {"script", "attente", "sonde", "duree", "finie"}]

PlayerTyped ==
  /\ cadre \in 0..MaxCadres /\ moteur \in {0, cadre}
  /\ courses \in [Cadres -> Course]

\* A frame to come has no run; while that of the frame in the page goes on,
\* its widget takes no command.
RunBeforeWidget ==
  \A r \in Cadres :
    /\ r > cadre => courses[r].etape = "finie"
    /\ r = cadre /\ courses[r].etape \in {"script", "attente", "sonde"} => ~pret /\ AvecWidget(courant)

SilentBefore == courant \in Mixclouds /\ ~pret => son = "muet"

PlayerInv == PlayerTyped /\ RunBeforeWidget /\ SilentBefore /\ WishKept /\ NoClaimBeforeSound

LEMMA PlayerInvInit == PlayerInit => PlayerInv
<1> SUFFICES ASSUME PlayerInit PROVE PlayerInv
    OBVIOUS
<1>1. MaxCadres \in Nat
    BY PlayerAssumption
<1>2. Repos \in Course /\ Repos.etape = "finie"
    BY DEF Repos, Course
<1>3. PlayerTyped /\ RunBeforeWidget
    BY <1>1, <1>2 DEF PlayerInit, PlayerTyped, RunBeforeWidget
<1>4. SilentBefore /\ WishKept /\ NoClaimBeforeSound
    BY DEF PlayerInit, SilentBefore, WishKept, NoClaimBeforeSound
<1> QED BY <1>3, <1>4 DEF PlayerInv

\* A step of a run that is going on.
LEMMA RunMoves ==
  ASSUME PlayerInv, NEW r \in Cadres, NEW de \in {"script", "attente", "sonde", "duree"},
         NEW fin \in {"attente", "sonde", "duree", "finie"}, Courir(r, de, fin)
  PROVE  /\ courses' \in [Cadres -> Course] /\ courses[r].etape = de /\ courses'[r].etape = fin
         /\ \A q \in Cadres : q # r => courses'[q] = courses[q]
<1>1. courses \in [Cadres -> Course] /\ courses[r] \in Course
    BY DEF PlayerInv, PlayerTyped
<1> DEFINE n == IF fin = "finie" THEN Repos ELSE [courses[r] EXCEPT !.etape = fin]
<1>2. courses[r].etape = de /\ courses' = [courses EXCEPT ![r] = n]
    BY DEF Courir
<1>3. n \in Course /\ n.etape = fin
  <2>1. CASE fin = "finie"
      BY <2>1 DEF Repos, Course
  <2>2. CASE fin # "finie"
    <3>1. n = [courses[r] EXCEPT !.etape = fin]
        BY <2>2
    <3> QED BY <1>1, <3>1 DEF Course
  <2> QED BY <2>1, <2>2
<1> HIDE DEF n
<1> QED BY <1>1, <1>2, <1>3

\* The run goes on, and the widget takes no command that it did not take.
LEMMA RunKeeps ==
  ASSUME PlayerInv, NEW r \in Cadres, NEW de \in {"script", "attente", "sonde", "duree"},
         NEW fin \in {"attente", "sonde", "duree", "finie"}, Courir(r, de, fin),
         UNCHANGED <<courant, cadre>>, moteur' \in {moteur, r}, moteur' = r => r = cadre,
         \/ UNCHANGED pret /\ (de = "duree" => fin = "finie")
         \/ r = cadre /\ fin \in {"duree", "finie"}
  PROVE  PlayerTyped' /\ RunBeforeWidget'
<1>1. PlayerTyped /\ RunBeforeWidget
    BY DEF PlayerInv
<1>2. /\ courses' \in [Cadres -> Course] /\ courses[r].etape = de /\ courses'[r].etape = fin
      /\ \A q \in Cadres : q # r => courses'[q] = courses[q]
    BY RunMoves
<1>3. PlayerTyped'
    BY <1>1, <1>2 DEF PlayerTyped
<1>4. ~(r > cadre)
    BY <1>1, <1>2 DEF RunBeforeWidget
<1>5. ASSUME NEW q \in Cadres
      PROVE  /\ q > cadre => courses'[q].etape = "finie"
             /\ q = cadre /\ courses'[q].etape \in {"script", "attente", "sonde"}
                  => ~pret' /\ AvecWidget(courant)
  <2>1. CASE q = r
      BY <1>1, <1>2, <1>4, <2>1 DEF RunBeforeWidget
  <2>2. CASE q # r
    <3>1. courses'[q] = courses[q]
        BY <1>2, <2>2
    <3> QED BY <1>1, <2>2, <3>1 DEF RunBeforeWidget
  <2> QED BY <2>1, <2>2
<1>6. RunBeforeWidget'
    BY <1>5 DEF RunBeforeWidget, AvecWidget
<1> QED BY <1>3, <1>6

\* No run moves.
LEMMA RunsStay ==
  ASSUME PlayerInv, UNCHANGED <<courant, cadre, courses, moteur, pret>>
  PROVE  PlayerTyped' /\ RunBeforeWidget'
BY DEF PlayerInv, PlayerTyped, RunBeforeWidget, AvecWidget

\* The bar pauses, and the sound stops or stays.
LEMMA BarPauses ==
  ASSUME PlayerInv, UNCHANGED <<courant, pret>>, ~joue', son' = son \/ son' = "muet"
  PROVE  SilentBefore' /\ WishKept' /\ NoClaimBeforeSound'
BY DEF PlayerInv, SilentBefore, WishKept, NoClaimBeforeSound

LEMMA Pauses ==
  ASSUME PlayerInv, UNCHANGED <<courant, pret>>, Suspendre
  PROVE  SilentBefore' /\ WishKept' /\ NoClaimBeforeSound'
<1>1. ~joue' /\ (son' = son \/ son' = "muet")
    BY DEF Suspendre
<1> QED BY <1>1, BarPauses

LEMMA Fails ==
  ASSUME PlayerInv, NEW r, Abandonner(r)
  PROVE  /\ SilentBefore' /\ WishKept' /\ NoClaimBeforeSound'
         /\ UNCHANGED <<courant, cadre, moteur, pret>>
<1>1. UNCHANGED <<courant, cadre, moteur, pret>>
    BY DEF Abandonner
<1>2. ~joue' /\ (son' = son \/ son' = "muet")
    BY DEF Abandonner, Suspendre
<1> QED BY <1>1, <1>2, BarPauses

\* What an engine in place is told, or what waits for one, is a wish; and a
\* widget that is told to play is shown as loading until it is heard.
LEMMA Resumes ==
  ASSUME PlayerInv, UNCHANGED <<courant, pret, erreur>>, Reprendre
  PROVE  SilentBefore' /\ WishKept' /\ NoClaimBeforeSound'
<1>1. SilentBefore
    BY DEF PlayerInv
<1>2. CASE AvecWidget(courant)
  <2>1. charge' /\ ((pret /\ son' = "demande") \/ (voulu' /\ son' = son))
      BY <1>2 DEF Reprendre, Commande
  <2> QED BY <1>1, <2>1 DEF SilentBefore, WishKept, NoClaimBeforeSound
<1>3. CASE ~AvecWidget(courant)
    BY <1>3 DEF AvecWidget, SilentBefore, WishKept, NoClaimBeforeSound
<1> QED BY <1>2, <1>3

LEMMA Changes ==
  ASSUME PlayerInv, NEW m \in MixLus, NEW jouer \in BOOLEAN, NEW demande \in BOOLEAN,
         Changer(m, jouer, demande)
  PROVE  PlayerInv'
<1>1. PlayerTyped /\ RunBeforeWidget /\ MaxCadres \in Nat
    BY PlayerAssumption DEF PlayerInv
<1>2. /\ cadre < MaxCadres /\ cadre' = cadre + 1 /\ courant' = m /\ moteur' = 0 /\ ~pret'
      /\ courses' = IF AvecWidget(m)
                    THEN [courses EXCEPT ![cadre + 1] = [mix |-> m, etape |-> "script"]]
                    ELSE courses
    BY DEF Changer
<1>3. cadre + 1 \in Cadres /\ cadre \in Nat
    BY <1>1, <1>2 DEF PlayerTyped, Cadres
<1>4. [mix |-> m, etape |-> "script"] \in Course
    BY DEF Course
<1>5. /\ courses' \in [Cadres -> Course]
      /\ \A q \in Cadres : q # cadre + 1 => courses'[q] = courses[q]
      /\ ~AvecWidget(m) => courses'[cadre + 1] = courses[cadre + 1]
    BY <1>1, <1>2, <1>3, <1>4 DEF PlayerTyped
<1>6. PlayerTyped'
    BY <1>1, <1>2, <1>3, <1>5 DEF PlayerTyped
<1>7. courses[cadre + 1].etape = "finie"
    BY <1>1, <1>3 DEF RunBeforeWidget
<1>8. ASSUME NEW q \in Cadres
      PROVE  /\ q > cadre' => courses'[q].etape = "finie"
             /\ q = cadre' /\ courses'[q].etape \in {"script", "attente", "sonde"} => AvecWidget(m)
  <2>1. CASE q = cadre + 1
      BY <1>2, <1>3, <1>5, <1>7, <2>1
  <2>2. CASE q # cadre + 1
    <3>1. courses'[q] = courses[q]
        BY <1>5, <2>2
    <3>2. q \in Int /\ q # cadre' /\ (q > cadre' => q > cadre)
        BY <1>2, <1>3, <2>2 DEF Cadres
    <3> QED BY <1>1, <3>1, <3>2 DEF RunBeforeWidget
  <2> QED BY <2>1, <2>2
<1>9. RunBeforeWidget'
    BY <1>2, <1>8 DEF RunBeforeWidget, AvecWidget
<1>10. /\ AvecWidget(m) => son' = "muet" /\ charge'
       /\ joue' = jouer /\ voulu' = jouer
    BY DEF Changer
<1>11. SilentBefore' /\ WishKept' /\ NoClaimBeforeSound'
    BY <1>2, <1>10 DEF SilentBefore, WishKept, NoClaimBeforeSound, AvecWidget
<1> QED BY <1>6, <1>9, <1>11 DEF PlayerInv

\* A duration proves that the mix of the widget in place is loaded: nothing
\* sounded before, so that a bar that plays has its wish to pass on.
LEMMA Probes ==
  ASSUME PlayerInv, NEW r \in Cadres, Sonder(r)
  PROVE  PlayerInv'
<1>1. /\ PlayerTyped /\ RunBeforeWidget /\ SilentBefore /\ WishKept /\ NoClaimBeforeSound
    BY DEF PlayerInv
<1>2. CASE moteur # r
  <2>1. /\ Courir(r, "sonde", "finie")
        /\ UNCHANGED <<courant, joue, minutage, cadre, moteur, charge, pret, entendu, voulu, erreur, son>>
      BY <1>2 DEF Sonder, Perimer
  <2>2. PlayerTyped' /\ RunBeforeWidget'
      BY <1>2, <2>1, RunKeeps
  <2> QED BY <1>1, <2>1, <2>2 DEF PlayerInv, SilentBefore, WishKept, NoClaimBeforeSound, AvecWidget
<1>3. CASE moteur = r
  <2>1. r = cadre
      BY <1>1, <1>3 DEF PlayerTyped, Cadres
  <2>2. CASE /\ Courir(r, "sonde", "finie")
             /\ pret' = TRUE /\ voulu' = FALSE
             /\ son' = IF voulu THEN "demande" ELSE son
             /\ charge' = IF voulu THEN charge ELSE FALSE
             /\ minutage' = FALSE
             /\ UNCHANGED <<courant, joue, cadre, moteur, entendu, erreur>>
    <3>1. PlayerTyped' /\ RunBeforeWidget'
        BY <2>1, <2>2, RunKeeps
    <3>2. courses[r].etape = "sonde"
        BY <2>2 DEF Courir
    <3>3. ~pret
        BY <1>1, <2>1, <3>2 DEF RunBeforeWidget
    <3>4. SilentBefore' /\ WishKept'
        BY <1>1, <2>2 DEF SilentBefore, WishKept, AvecWidget
    <3>5. NoClaimBeforeSound'
      <4>1. CASE courant \in Mixclouds /\ joue /\ erreur = 0
        <5>1. son = "muet" /\ AvecWidget(courant)
            BY <1>1, <3>3, <4>1 DEF SilentBefore, AvecWidget
        <5>2. voulu /\ charge
            BY <1>1, <4>1, <5>1 DEF WishKept, NoClaimBeforeSound
        <5>3. charge'
            BY <2>2, <5>2
        <5> QED BY <5>3 DEF NoClaimBeforeSound
      <4>2. CASE ~(courant \in Mixclouds /\ joue /\ erreur = 0)
          BY <2>2, <4>2 DEF NoClaimBeforeSound
      <4> QED BY <4>1, <4>2
    <3> QED BY <3>1, <3>4, <3>5 DEF PlayerInv
  <2>3. CASE Courir(r, "sonde", "finie") /\ Abandonner(r)
    <3>1. /\ SilentBefore' /\ WishKept' /\ NoClaimBeforeSound'
          /\ UNCHANGED <<courant, cadre, moteur, pret>>
        BY <2>3, Fails
    <3>2. PlayerTyped' /\ RunBeforeWidget'
        BY <2>1, <2>3, <3>1, RunKeeps
    <3> QED BY <3>1, <3>2 DEF PlayerInv
  <2> QED BY <1>3, <2>2, <2>3 DEF Sonder
<1> QED BY <1>2, <1>3

\* A run gives up, or finds that another mix was chosen.
LEMMA RunGivesUp ==
  ASSUME PlayerInv, NEW r \in Cadres, NEW de \in {"script", "attente", "sonde", "duree"},
         Perimer(r, de) \/ (Courir(r, de, "finie") /\ Abandonner(r))
  PROVE  PlayerInv'
<1>1. PlayerTyped /\ SilentBefore /\ WishKept /\ NoClaimBeforeSound
    BY DEF PlayerInv
<1>2. Courir(r, de, "finie") /\ UNCHANGED <<courant, cadre, moteur, pret>>
    BY Fails DEF Perimer
<1>3. moteur' = r => r = cadre
    BY <1>1, <1>2 DEF PlayerTyped, Cadres
<1>4. PlayerTyped' /\ RunBeforeWidget'
    BY <1>2, <1>3, RunKeeps
<1>5. SilentBefore' /\ WishKept' /\ NoClaimBeforeSound'
  <2>1. CASE Perimer(r, de)
      BY <1>1, <2>1 DEF Perimer, SilentBefore, WishKept, NoClaimBeforeSound, AvecWidget
  <2> QED BY <2>1, Fails
<1> QED BY <1>4, <1>5 DEF PlayerInv

\* `ready`: a Mixcloud widget is still to be probed, a SoundCloud one is told
\* what was asked meanwhile.
LEMMA WidgetIsReady ==
  ASSUME PlayerInv, NEW r \in Cadres, PretRepond(r)
  PROVE  PlayerInv'
<1>1. PlayerTyped /\ SilentBefore /\ WishKept /\ NoClaimBeforeSound /\ r = cadre
    BY DEF PlayerInv, PretRepond
<1>2. CASE EncoreLeSien(r) /\ courant \in Mixclouds
  <2>1. /\ Courir(r, "attente", "sonde") /\ moteur' = r
        /\ UNCHANGED <<courant, joue, cadre, pret, charge, voulu, erreur, son>>
      BY <1>2 DEF PretRepond
  <2>2. PlayerTyped' /\ RunBeforeWidget'
      BY <1>1, <2>1, RunKeeps
  <2> QED BY <1>1, <2>1, <2>2 DEF PlayerInv, SilentBefore, WishKept, NoClaimBeforeSound, AvecWidget
<1>3. CASE EncoreLeSien(r) /\ courant \notin Mixclouds
  <2>1. /\ Courir(r, "attente", "duree") /\ moteur' = r /\ son' = IF voulu THEN "demande" ELSE son
        /\ UNCHANGED <<courant, joue, cadre, voulu, erreur>>
      BY <1>3 DEF PretRepond
  <2>2. PlayerTyped' /\ RunBeforeWidget'
      BY <1>1, <2>1, RunKeeps
  <2> QED BY <1>1, <1>3, <2>1, <2>2 DEF PlayerInv, SilentBefore, WishKept, NoClaimBeforeSound, AvecWidget
<1>4. CASE ~EncoreLeSien(r)
    BY <1>4, RunGivesUp DEF PretRepond
<1> QED BY <1>2, <1>3, <1>4

LEMMA PlayerInvNext == PlayerInv /\ [PlayerNext]_playerVars => PlayerInv'
<1> SUFFICES ASSUME PlayerInv, [PlayerNext]_playerVars PROVE PlayerInv'
    OBVIOUS
<1>0. PlayerTyped /\ RunBeforeWidget /\ SilentBefore /\ WishKept /\ NoClaimBeforeSound
    BY DEF PlayerInv
<1>a. ASSUME UNCHANGED <<courant, cadre, courses, moteur, pret>>,
             SilentBefore' /\ WishKept' /\ NoClaimBeforeSound'
      PROVE  PlayerInv'
    BY <1>a, RunsStay DEF PlayerInv
<1>1. ASSUME NEW m \in MixLus, Charger(m) PROVE PlayerInv'
    BY <1>1, Changes DEF Charger
<1>2. ASSUME NEW m \in MixLus, Lire(m) PROVE PlayerInv'
  <2>1. CASE Changer(m, TRUE, FALSE)
      BY <2>1, Changes
  <2>2. CASE Reprendre /\ UNCHANGED <<courant, minutage, cadre, courses, moteur, pret, entendu, erreur>>
      BY <1>a, <2>2, Resumes
  <2> QED BY <1>2, <2>1, <2>2 DEF Lire
<1>3. ASSUME NEW m \in MixLus, LireA(m) PROVE PlayerInv'
  <2>1. CASE Changer(m, TRUE, TRUE)
      BY <2>1, Changes
  <2>2. CASE /\ IF joue THEN UNCHANGED <<joue, voulu, charge, son>> ELSE Reprendre
             /\ UNCHANGED <<courant, cadre, courses, moteur, pret, entendu, erreur>>
    <3>1. CASE joue
        BY <1>0, <1>a, <2>2, <3>1 DEF SilentBefore, WishKept, NoClaimBeforeSound, AvecWidget
    <3>2. CASE ~joue
        BY <1>a, <2>2, <3>2, Resumes
    <3> QED BY <3>1, <3>2
  <2> QED BY <1>3, <2>1, <2>2 DEF LireA
<1>4. CASE Basculer
    BY <1>4, <1>a, Pauses, Resumes DEF Basculer
<1>5. CASE Couper
    BY <1>5, <1>a, Pauses DEF Couper
<1>6. ASSUME NEW r \in Cadres, ScriptArrive(r) PROVE PlayerInv'
  <2>1. CASE /\ Courir(r, "script", "attente")
             /\ UNCHANGED <<courant, joue, minutage, cadre, moteur, charge, pret, entendu, voulu,
                            erreur, son>>
    <3>1. moteur' = r => r = cadre
        BY <1>0, <2>1 DEF PlayerTyped, Cadres
    <3>2. PlayerTyped' /\ RunBeforeWidget'
        BY <2>1, <3>1, RunKeeps
    <3> QED BY <1>0, <2>1, <3>2 DEF PlayerInv, SilentBefore, WishKept, NoClaimBeforeSound, AvecWidget
  <2>2. CASE Perimer(r, "script") \/ (Courir(r, "script", "finie") /\ Abandonner(r))
      BY <2>2, RunGivesUp
  <2> QED BY <1>6, <2>1, <2>2 DEF ScriptArrive
<1>7. ASSUME NEW r \in Cadres, PretRepond(r) PROVE PlayerInv'
    BY <1>7, WidgetIsReady
<1>8. ASSUME NEW r \in Cadres, PretExpire(r) PROVE PlayerInv'
    BY <1>8, RunGivesUp DEF PretExpire
<1>9. ASSUME NEW r \in Cadres, Sonder(r) PROVE PlayerInv'
    BY <1>9, Probes
<1>10. ASSUME NEW r \in Cadres, DureeArrive(r) PROVE PlayerInv'
  <2>1. CASE /\ Courir(r, "duree", "finie")
             /\ UNCHANGED <<courant, joue, cadre, moteur, charge, pret, entendu, voulu, erreur, son>>
    <3>1. moteur' = r => r = cadre
        BY <1>0, <2>1 DEF PlayerTyped, Cadres
    <3>2. PlayerTyped' /\ RunBeforeWidget'
        BY <2>1, <3>1, RunKeeps
    <3> QED BY <1>0, <2>1, <3>2 DEF PlayerInv, SilentBefore, WishKept, NoClaimBeforeSound, AvecWidget
  <2>2. CASE Perimer(r, "duree")
      BY <2>2, RunGivesUp
  <2> QED BY <1>10, <2>1, <2>2 DEF DureeArrive
<1>11. CASE WidgetJoue
    BY <1>0, <1>11, <1>a DEF WidgetJoue, SilentBefore, WishKept, NoClaimBeforeSound
<1>12. CASE WidgetPause
    BY <1>12, <1>a, Pauses DEF WidgetPause
<1>13. CASE WidgetEchoue
    BY <1>13, <1>a, Fails DEF WidgetEchoue
<1>14. CASE Terminer
    BY <1>14, <1>a, Pauses DEF Terminer
<1>15. CASE Metadonnees
  <2>1. /\ courant \in Fichiers /\ ~AvecWidget(courant) /\ pret'
        /\ UNCHANGED <<courant, joue, cadre, courses, moteur, charge, voulu, erreur, son>>
      BY <1>15, PlayerAssumption DEF Metadonnees, AvecWidget
  <2>2. PlayerTyped' /\ RunBeforeWidget'
      BY <1>0, <2>1 DEF PlayerTyped, RunBeforeWidget, AvecWidget
  <2> QED BY <2>1, <2>2 DEF PlayerInv, SilentBefore, WishKept, NoClaimBeforeSound, AvecWidget
<1>16. CASE AudioJoue
    BY <1>0, <1>16, <1>a DEF AudioJoue, SilentBefore, WishKept, NoClaimBeforeSound
<1>17. CASE AudioEchoue
  <2>1. /\ UNCHANGED <<courant, cadre, courses, moteur, pret>>
        /\ ~joue' /\ (son' = son \/ son' = "muet")
      BY <1>17 DEF AudioEchoue, Suspendre
  <2> QED BY <1>a, <2>1, BarPauses
<1>18. CASE UNCHANGED playerVars
    BY <1>0, <1>18, <1>a DEF playerVars, SilentBefore, WishKept, NoClaimBeforeSound, AvecWidget
<1> QED BY <1>1, <1>2, <1>3, <1>4, <1>5, <1>6, <1>7, <1>8, <1>9, <1>10, <1>11, <1>12, <1>13,
           <1>14, <1>15, <1>16, <1>17, <1>18 DEF PlayerNext

\* What was asked for is never forgotten: a bar that says it plays holds the
\* wish, or has passed it on, whatever runs of earlier mixes are still going
\* on, for any number of mixes and of changes.
THEOREM WishKeptAlways == PlayerSpec => []WishKept
<1>1. PlayerInv => WishKept
    BY DEF PlayerInv
<1> QED BY <1>1, PlayerInvInit, PlayerInvNext, PTL DEF PlayerSpec

\* The bar says that a Mixcloud mix plays, and no longer that it loads, only
\* once its widget has been heard, for any number of mixes and of changes.
THEOREM NoClaimBeforeSoundAlways == PlayerSpec => []NoClaimBeforeSound
<1>1. PlayerInv => NoClaimBeforeSound
    BY DEF PlayerInv
<1> QED BY <1>1, PlayerInvInit, PlayerInvNext, PTL DEF PlayerSpec

(***************************************************************************)
(* The page of a mix.  At rest it shows its address because, without       *)
(* trouble, at most one load is under way, the one of the address, and     *)
(* what it has brought so far is of that address (Saine).                  *)
(***************************************************************************)
MixOuNul == Mixes \cup {NulMix}
EtapesDeVisite == {"finie", "orpheline", "mix", "profil", "deux", "suite", "meme"}
VisitesType == [Visites -> [cible : MixOuNul, etape : EtapesDeVisite, id : MixOuNul]]
AdressesDeMix == {Ancienne(m) : m \in Mixes} \cup {Canonique(m) : m \in Mixes}
Prometteuse(v) == v.etape \in {"mix", "profil"}

\* What the load v, alone under way, has brought so far is of the address a.
Saine(v, a, montre, decrit) ==
  /\ v.cible = a.mix
  /\ v.etape # "mix" => montre = a.mix
  /\ v.etape \in {"deux", "suite", "meme"} => (decrit = a.mix /\ v.id = a.mix)

SansTrouble ==
  /\ \A v, w \in Visites : (EnCharge(visites[v]) /\ EnCharge(visites[w])) => v = w
  /\ \A v \in Visites : EnCharge(visites[v]) => Saine(visites[v], adresse, affiche, profil)
  /\ ~Occupee => (affiche = adresse.mix /\ profil = adresse.mix)
  /\ suite \in {adresse.mix, NulMix} /\ meme \in {adresse.mix, NulMix}

PagesTypes ==
  /\ lancees \in Nat /\ publies \subseteq Mixes
  /\ chargement \in BOOLEAN /\ trouble \in BOOLEAN
  /\ affiche \in MixOuNul /\ visites \in VisitesType
  /\ adresse \in Dehors \cup AdressesDeMix

PagesInv ==
  /\ PagesTypes
  /\ adresse \in Dehors => ~Occupee
  /\ (adresse \notin Dehors /\ chargement) => \E v \in Visites : Prometteuse(visites[v])
  /\ (adresse \notin Dehors /\ ~trouble) => SansTrouble

LEMMA AddressesOfMixes ==
  /\ \A m \in Mixes : Ancienne(m) \in AdressesDeMix /\ Canonique(m) \in AdressesDeMix
  /\ \A m \in Mixes : Ancienne(m).mix = m /\ Canonique(m).mix = m
  /\ \A a \in AdressesDeMix : a \notin Dehors /\ a.mix \in Mixes /\ a.mix # NulMix
<1>1. \A m \in Mixes : Ancienne(m) \in AdressesDeMix /\ Canonique(m) \in AdressesDeMix
    BY DEF AdressesDeMix
<1>2. \A m : Ancienne(m).mix = m /\ Canonique(m).mix = m
    BY DEF Ancienne, Canonique
<1>3. \A d \in Dehors : d.mix = NulMix
    BY DEF Dehors
<1>4. \A a \in AdressesDeMix : a.mix \in Mixes
    BY <1>2 DEF AdressesDeMix
<1>5. \A a \in AdressesDeMix : a.mix # NulMix
    BY <1>4, PagesAssumption
<1> QED BY <1>1, <1>2, <1>3, <1>4, <1>5

\* A load that moves on, and the others as they were.
LEMMA Advances ==
  ASSUME visites \in VisitesType, NEW v \in Visites,
         NEW e \in EtapesDeVisite, NEW m \in MixOuNul,
         visites' = [visites EXCEPT ![v] = AlEtape(visites[v], e, m)]
  PROVE  /\ visites' \in VisitesType
         /\ visites'[v].cible = visites[v].cible /\ visites'[v].etape = e /\ visites'[v].id = m
         /\ \A w \in Visites \ {v} : visites'[w] = visites[w]
<1> DEFINE u == AlEtape(visites[v], e, m)
<1>1. visites[v].cible \in MixOuNul
    BY DEF VisitesType
<1>2. u \in [cible : MixOuNul, etape : EtapesDeVisite, id : MixOuNul]
      /\ u.cible = visites[v].cible /\ u.etape = e /\ u.id = m
    BY <1>1 DEF AlEtape
<1> HIDE DEF u
<1>3. visites' = [visites EXCEPT ![v] = u]
    BY DEF u
<1> QED BY <1>2, <1>3 DEF VisitesType

\* A load that ends.
LEMMA Closes ==
  ASSUME visites \in VisitesType, NEW v \in Visites, NEW f, f = [visites EXCEPT ![v] = Close]
  PROVE  /\ f \in VisitesType /\ ~EnCharge(f[v])
         /\ \A w \in Visites \ {v} : f[w] = visites[w]
BY DEF VisitesType, Close, MixOuNul, EtapesDeVisite, EnCharge

\* A load that starts: the others are as v has them.
LEMMA Starts ==
  ASSUME PagesInv, NEW a \in AdressesDeMix, NEW v \in VisitesType, LancerVisite(a, v)
  PROVE  /\ lancees + 1 \in Visites /\ lancees' \in Nat
         /\ visites' \in VisitesType
         /\ visites'[lancees + 1].cible = a.mix /\ visites'[lancees + 1].etape = "mix"
         /\ \A w \in Visites \ {lancees + 1} : visites'[w] = v[w]
         /\ suite' = NulMix /\ meme' = NulMix /\ chargement' = TRUE
<1>1. lancees \in Nat /\ lancees' = lancees + 1 /\ lancees < MaxVisites /\ MaxVisites \in Nat
    BY PagesAssumption DEF PagesInv, PagesTypes, LancerVisite
<1>2. lancees + 1 \in Visites /\ lancees' \in Nat
    BY <1>1 DEF Visites
<1>3. a.mix \in MixOuNul
    BY AddressesOfMixes DEF MixOuNul
<1> DEFINE n == lancees + 1
<1>4. visites' = [v EXCEPT ![n] = [cible |-> a.mix, etape |-> "mix", id |-> NulMix]]
      /\ suite' = NulMix /\ meme' = NulMix /\ chargement' = TRUE
    BY DEF LancerVisite
<1>5. n \in Visites
    BY <1>2
<1> HIDE DEF n
<1>6. /\ visites' \in VisitesType
      /\ visites'[n].cible = a.mix /\ visites'[n].etape = "mix"
      /\ \A w \in Visites \ {n} : visites'[w] = v[w]
    BY <1>3, <1>4, <1>5 DEF VisitesType, MixOuNul, EtapesDeVisite
<1> QED BY <1>2, <1>4, <1>6 DEF n

\* The reader, or an orphan, takes the page to the address of a mix; v has the
\* loads of the page as they are.
LEMMA Arrives ==
  ASSUME PagesInv, NEW a \in AdressesDeMix, NEW v \in VisitesType, publies' = publies,
         \A w \in Visites : (EnCharge(v[w]) \/ EnCharge(visites[w])) => v[w] = visites[w],
         Arriver(a, v)
  PROVE  PagesInv'
<1>1. adresse' = a /\ a \notin Dehors /\ a.mix # NulMix /\ publies' \subseteq Mixes
    BY AddressesOfMixes DEF Arriver, PagesInv, PagesTypes
<1>2. affiche' \in MixOuNul /\ trouble' \in BOOLEAN
    BY DEF Arriver, PagesInv, PagesTypes, MixOuNul, Occupee, Correspond
<1>3. ASSUME LancerVisite(a, v), ~trouble' => ~Occupee PROVE PagesInv'
  <2>1. /\ lancees + 1 \in Visites /\ lancees' \in Nat
        /\ visites' \in VisitesType
        /\ visites'[lancees + 1].cible = a.mix /\ visites'[lancees + 1].etape = "mix"
        /\ \A w \in Visites \ {lancees + 1} : visites'[w] = v[w]
        /\ suite' = NulMix /\ meme' = NulMix /\ chargement' = TRUE
      BY <1>3, Starts
  <2> DEFINE n == lancees + 1
  <2>2. n \in Visites /\ visites'[n].cible = a.mix /\ visites'[n].etape = "mix"
        /\ \A w \in Visites \ {n} : visites'[w] = v[w]
      BY <2>1
  <2> HIDE DEF n
  <2>3. PagesTypes'
      BY <1>1, <1>2, <2>1 DEF PagesTypes
  <2>4. \E w \in Visites : Prometteuse(visites'[w])
      BY <2>2 DEF Prometteuse
  <2>5. ASSUME ~trouble' PROVE SansTrouble'
    <3>1. \A w \in Visites : EnCharge(visites'[w]) => w = n
        BY <1>3, <2>2, <2>5 DEF Occupee
    <3>2. Occupee'
        BY <2>2 DEF Occupee, EnCharge
    <3>3. Saine(visites'[n], a, affiche', profil')
        BY <2>2 DEF Saine
    <3> QED BY <1>1, <2>1, <3>1, <3>2, <3>3 DEF SansTrouble
  <2> QED BY <1>1, <2>3, <2>4, <2>5 DEF PagesInv
<1>4. CASE adresse \in Dehors
  <2>1. LancerVisite(a, v) /\ ~Occupee
      BY <1>4 DEF Arriver, PagesInv
  <2> QED BY <1>3, <2>1
<1>5. CASE adresse \notin Dehors /\ ~Correspond(a, affiche)
  <2>1. LancerVisite(a, v) /\ trouble' = Occupee
      BY <1>5 DEF Arriver, SuivreAdresse, Occupee
  <2> QED BY <1>3, <2>1
<1>6. CASE adresse \notin Dehors /\ Correspond(a, affiche)
  <2>1. /\ visites' = v /\ UNCHANGED <<suite, meme, chargement, lancees, affiche, profil>>
        /\ trouble' = (Occupee \/ trouble)
      BY <1>6 DEF Arriver, SuivreAdresse, Occupee, PagesInv, PagesTypes
  <2>2. PagesTypes'
      BY <1>1, <1>2, <2>1 DEF PagesInv, PagesTypes
  <2>3. chargement' => \E w \in Visites : Prometteuse(visites'[w])
      BY <1>6, <2>1 DEF PagesInv, Prometteuse, EnCharge
  <2>4. ASSUME ~trouble' PROVE SansTrouble'
    <3>1. ~Occupee /\ ~trouble /\ SansTrouble
        BY <1>6, <2>1, <2>4 DEF PagesInv
    <3>2. a.mix = adresse.mix
        BY <1>6, <3>1 DEF SansTrouble, Correspond
    <3>3. \A w \in Visites : ~EnCharge(visites'[w])
        BY <2>1, <3>1 DEF Occupee
    <3> QED BY <1>1, <2>1, <3>1, <3>2, <3>3 DEF SansTrouble
  <2> QED BY <1>1, <2>2, <2>3, <2>4 DEF PagesInv
<1> QED BY <1>4, <1>5, <1>6

\* The page is unmounted.
LEMMA PageIsLeft ==
  ASSUME PagesInv, publies' \subseteq Mixes, lancees' = lancees, NEW a \in Dehors, Quittee(a)
  PROVE  PagesInv'
<1>1. visites' = Orphelines(visites) /\ adresse' \in Dehors
    BY DEF Quittee
<1>2. visites' \in VisitesType /\ \A w \in Visites : ~EnCharge(visites'[w])
    BY <1>1 DEF PagesInv, PagesTypes, VisitesType, Orphelines, AlEtape, Close, MixOuNul,
                EtapesDeVisite, EnCharge
<1>3. affiche' \in MixOuNul /\ chargement' \in BOOLEAN /\ trouble' \in BOOLEAN
    BY DEF Quittee, PageVide, MixOuNul
<1> QED BY <1>1, <1>2, <1>3 DEF PagesInv, PagesTypes, Occupee

LEMMA PagesInvInit == PagesInit => PagesInv
<1> SUFFICES ASSUME PagesInit PROVE PagesInv
    OBVIOUS
<1>1. visites \in VisitesType /\ \A w \in Visites : ~EnCharge(visites[w])
    BY DEF PagesInit, VisitesType, Close, MixOuNul, EtapesDeVisite, EnCharge
<1>2. lancees \in Nat
    BY DEF PagesInit
<1> QED BY <1>1, <1>2 DEF PagesInit, PagesInv, PagesTypes, Occupee, MixOuNul

\* A load under way moves on, and the page stays where it is; the four stages
\* share what the others keep.
LEMMA MovesOn ==
  ASSUME PagesInv, NEW v \in Visites, EnCharge(visites[v]), PagesTypes',
         trouble' = trouble, adresse' \notin Dehors,
         \A w \in Visites \ {v} : visites'[w] = visites[w],
         chargement' => \E w \in Visites : Prometteuse(visites'[w]),
         (~trouble /\ SansTrouble)
           => /\ EnCharge(visites'[v]) => Saine(visites'[v], adresse', affiche', profil')
              /\ ~EnCharge(visites'[v]) => (affiche' = adresse'.mix /\ profil' = adresse'.mix)
              /\ suite' \in {adresse'.mix, NulMix} /\ meme' \in {adresse'.mix, NulMix}
  PROVE  PagesInv'
<1>1. ASSUME ~trouble' PROVE SansTrouble'
  <2>1. ~trouble /\ SansTrouble
      BY <1>1 DEF PagesInv, Occupee
  <2>2. \A w \in Visites : EnCharge(visites[w]) => w = v
      BY <2>1 DEF SansTrouble
  <2>3. \A w \in Visites : EnCharge(visites'[w]) => w = v
      BY <2>2
  <2>4. Occupee' <=> EnCharge(visites'[v])
      BY <2>3 DEF Occupee
  <2> QED BY <2>1, <2>3, <2>4 DEF SansTrouble
<1> QED BY <1>1 DEF PagesInv

LEMMA PagesInvNext == PagesInv /\ [PagesNext]_pagesVars => PagesInv'
<1> SUFFICES ASSUME PagesInv, [PagesNext]_pagesVars PROVE PagesInv'
    OBVIOUS
<1> USE DEF PagesInv
<1>0. PagesTypes
    OBVIOUS
<1>1. ASSUME NEW m \in Mixes, AllerAuMix(Ancienne(m)) \/ AllerAuMix(Canonique(m)) PROVE PagesInv'
  <2>1. PICK a \in AdressesDeMix : AllerAuMix(a)
      BY <1>1, AddressesOfMixes
  <2>2. Arriver(a, visites) /\ publies' = publies /\ visites \in VisitesType
      BY <1>0, <2>1 DEF AllerAuMix, PagesTypes
  <2> QED BY <2>2, Arrives
<1>2. ASSUME NEW v \in Visites, MixArrive(v) PROVE PagesInv'
  <2> DEFINE m == visites[v].cible
             a == IF adresse.forme = "ancienne" THEN Canonique(m) ELSE adresse
  <2>1. /\ visites[v].etape = "mix" /\ m \in Mixes /\ m # NulMix
        /\ EnCharge(visites[v]) /\ adresse \notin Dehors
      BY <1>2, PagesAssumption DEF MixArrive, AEtape, EnCharge, Occupee, PagesTypes
  <2>2. a \in AdressesDeMix /\ (a # adresse => a.mix = m)
      BY <2>1, AddressesOfMixes DEF PagesTypes
  <2>3. /\ affiche' = m /\ adresse' = a /\ visites' = PasserA(v, "profil")
        /\ UNCHANGED <<publies, profil, suite, meme, chargement, lancees, trouble>>
    <3>1. affiche' = m /\ adresse' = a /\ UNCHANGED <<publies, profil, trouble>>
        BY <1>2 DEF MixArrive
    <3>2. CASE a = adresse
        BY <1>2, <3>1, <3>2 DEF MixArrive
    <3>3. CASE a # adresse
      <4>1. SuivreAdresse(a, m, PasserA(v, "profil"))
          BY <1>2, <3>3 DEF MixArrive
      <4>2. Correspond(a, m)
          BY <2>1, <2>2, <3>3 DEF Correspond
      <4> HIDE DEF a, m
      <4> QED BY <3>1, <4>1, <4>2 DEF SuivreAdresse
    <3> QED BY <3>2, <3>3
  <2> HIDE DEF m, a
  <2>4. visites' = [visites EXCEPT ![v] = AlEtape(visites[v], "profil", visites[v].id)]
      BY <2>3 DEF PasserA
  <2>5. visites[v].id \in MixOuNul /\ visites \in VisitesType
      BY DEF PagesTypes, VisitesType
  <2>6. /\ visites' \in VisitesType /\ visites'[v].cible = m /\ visites'[v].etape = "profil"
        /\ \A w \in Visites \ {v} : visites'[w] = visites[w]
      BY <2>4, <2>5, Advances DEF EtapesDeVisite, m
  <2>7. PagesTypes' /\ adresse' \notin Dehors
      BY <2>1, <2>2, <2>3, <2>6, AddressesOfMixes DEF PagesTypes, MixOuNul
  <2>8. Prometteuse(visites'[v]) /\ EnCharge(visites'[v])
      BY <2>6 DEF Prometteuse, EnCharge
  <2>9. ASSUME SansTrouble
        PROVE  /\ Saine(visites'[v], adresse', affiche', profil')
               /\ suite' \in {adresse'.mix, NulMix} /\ meme' \in {adresse'.mix, NulMix}
    <3>1. m = adresse.mix
        BY <2>1, <2>9 DEF SansTrouble, Saine, m
    <3>2. adresse'.mix = adresse.mix
        BY <2>2, <2>3, <3>1
    <3> QED BY <2>3, <2>6, <2>9, <3>1, <3>2 DEF Saine, SansTrouble
  <2>10. (~trouble /\ SansTrouble)
           => /\ EnCharge(visites'[v]) => Saine(visites'[v], adresse', affiche', profil')
              /\ ~EnCharge(visites'[v]) => (affiche' = adresse'.mix /\ profil' = adresse'.mix)
              /\ suite' \in {adresse'.mix, NulMix} /\ meme' \in {adresse'.mix, NulMix}
      BY <2>8, <2>9
  <2> QED BY <2>1, <2>3, <2>6, <2>7, <2>8, <2>10, MovesOn
<1>3. ASSUME NEW v \in Visites, OrphelineArrive(v) PROVE PagesInv'
  <2> DEFINE f == [visites EXCEPT ![v] = Close]
             ira == visites[v].cible \in publies /\ adresse.forme \in {"ancienne", "playlist"}
  <2>1. f \in VisitesType /\ ~EnCharge(f[v]) /\ \A w \in Visites \ {v} : f[w] = visites[w]
      BY <1>0, Closes DEF PagesTypes
  <2>2. publies' = publies /\ ~EnCharge(visites[v])
      BY <1>3 DEF OrphelineArrive, AEtape, EnCharge
  <2>3. CASE ira
    <3>1. Arriver(Canonique(visites[v].cible), f) /\ visites[v].cible \in Mixes
        BY <1>3, <2>3 DEF OrphelineArrive, PagesTypes
    <3> HIDE DEF f
    <3>2. Canonique(visites[v].cible) \in AdressesDeMix
        BY <3>1, AddressesOfMixes
    <3>3. \A w \in Visites : (EnCharge(f[w]) \/ EnCharge(visites[w])) => f[w] = visites[w]
        BY <2>1, <2>2
    <3> QED BY <2>1, <2>2, <3>1, <3>2, <3>3, Arrives
  <2>4. CASE ~ira
    <3>1. visites' = f /\ UNCHANGED <<adresse, affichage, lancees, trouble>>
        BY <1>3, <2>4 DEF OrphelineArrive
    <3> HIDE DEF f
    <3>2. UNCHANGED <<affiche, profil, suite, meme, chargement, adresse, lancees, trouble>>
        BY <3>1 DEF affichage
    <3>3. \A w \in Visites : /\ EnCharge(visites'[w]) <=> EnCharge(visites[w])
                             /\ EnCharge(visites[w]) => visites'[w] = visites[w]
        BY <2>1, <2>2, <3>1
    <3>4. PagesTypes'
        BY <2>1, <2>2, <3>1, <3>2 DEF PagesTypes
    <3>5. Occupee' <=> Occupee
        BY <3>3 DEF Occupee
    <3>6. \A w \in Visites : Prometteuse(visites[w]) => Prometteuse(visites'[w])
        BY <3>3 DEF Prometteuse, EnCharge
    <3>7. SansTrouble => SansTrouble'
        BY <3>2, <3>3, <3>5 DEF SansTrouble
    <3> QED BY <3>2, <3>4, <3>5, <3>6, <3>7
  <2> QED BY <2>3, <2>4
<1>4. ASSUME NEW v \in Visites, VisiteEchoue(v) PROVE PagesInv'
  <2> DEFINE f == [visites EXCEPT ![v] = Close]
  <2>1. f \in VisitesType /\ ~EnCharge(f[v]) /\ \A w \in Visites \ {v} : f[w] = visites[w]
      BY <1>0, Closes DEF PagesTypes
  <2>2. /\ visites' = f /\ chargement' = FALSE /\ trouble' = TRUE
        /\ UNCHANGED <<adresse, publies, affiche, profil, suite, meme, lancees>>
      BY <1>4 DEF VisiteEchoue
  <2> HIDE DEF f
  <2>3. PagesTypes'
      BY <2>1, <2>2 DEF PagesTypes
  <2>4. Occupee' => Occupee
      BY <2>1, <2>2 DEF Occupee
  <2> QED BY <2>2, <2>3, <2>4
<1>5. ASSUME NEW v \in Visites, ProfilArrive(v) PROVE PagesInv'
  <2>1. /\ visites[v].etape = "profil" /\ EnCharge(visites[v]) /\ adresse \notin Dehors
        /\ profil' = visites[v].cible /\ chargement' = FALSE
        /\ UNCHANGED <<adresse, publies, affiche, suite, meme, lancees, trouble>>
      BY <1>5 DEF ProfilArrive, AEtape, EnCharge, Occupee
  <2>2. visites' = [visites EXCEPT ![v] = AlEtape(visites[v], "deux", affiche)]
      BY <1>5 DEF ProfilArrive
  <2>3. visites \in VisitesType /\ affiche \in MixOuNul
      BY DEF PagesTypes
  <2>4. /\ visites' \in VisitesType /\ visites'[v].cible = visites[v].cible
        /\ visites'[v].etape = "deux" /\ visites'[v].id = affiche
        /\ \A w \in Visites \ {v} : visites'[w] = visites[w]
      BY <2>2, <2>3, Advances DEF EtapesDeVisite
  <2>5. PagesTypes'
      BY <1>0, <2>1, <2>4 DEF PagesTypes
  <2>6. EnCharge(visites'[v])
      BY <2>4 DEF EnCharge
  <2>7. ASSUME SansTrouble
        PROVE  /\ Saine(visites'[v], adresse', affiche', profil')
               /\ suite' \in {adresse'.mix, NulMix} /\ meme' \in {adresse'.mix, NulMix}
    <3>1. visites[v].cible = adresse.mix /\ affiche = adresse.mix
        BY <2>1, <2>7 DEF SansTrouble, Saine
    <3> QED BY <2>1, <2>4, <2>7, <3>1 DEF Saine, SansTrouble
  <2>8. (~trouble /\ SansTrouble)
           => /\ EnCharge(visites'[v]) => Saine(visites'[v], adresse', affiche', profil')
              /\ ~EnCharge(visites'[v]) => (affiche' = adresse'.mix /\ profil' = adresse'.mix)
              /\ suite' \in {adresse'.mix, NulMix} /\ meme' \in {adresse'.mix, NulMix}
      BY <2>6, <2>7
  <2>9. ~chargement' /\ adresse' \notin Dehors /\ trouble' = trouble
      BY <2>1
  <2> QED BY <2>1, <2>4, <2>5, <2>8, <2>9, MovesOn
<1>6. ASSUME NEW v \in Visites, SuiteArrive(v) \/ MemeArrive(v) PROVE PagesInv'
  <2>1. /\ visites[v].etape \in {"deux", "suite", "meme"} /\ EnCharge(visites[v])
        /\ adresse \notin Dehors
        /\ suite' \in {suite, visites[v].id, NulMix} /\ meme' \in {meme, visites[v].id, NulMix}
        /\ UNCHANGED <<adresse, publies, affiche, profil, chargement, lancees, trouble>>
      BY <1>6 DEF SuiteArrive, MemeArrive, EnCharge, Occupee
  <2>2. visites \in VisitesType /\ visites[v].id \in MixOuNul
      BY DEF PagesTypes, VisitesType
  <2>3. \/ \E e \in {"suite", "meme"} :
              visites' = [visites EXCEPT ![v] = AlEtape(visites[v], e, visites[v].id)]
        \/ visites' = [visites EXCEPT ![v] = Close]
      BY <1>6 DEF SuiteArrive, MemeArrive, PasserA
  <2>4. /\ visites' \in VisitesType
        /\ \/ /\ visites'[v].cible = visites[v].cible /\ visites'[v].id = visites[v].id
              /\ visites'[v].etape \in {"suite", "meme"}
           \/ ~EnCharge(visites'[v])
        /\ \A w \in Visites \ {v} : visites'[w] = visites[w]
    <3>1. ASSUME NEW e \in {"suite", "meme"},
                 visites' = [visites EXCEPT ![v] = AlEtape(visites[v], e, visites[v].id)]
          PROVE  <2>4
        BY <2>2, <3>1, Advances DEF EtapesDeVisite
    <3>2. CASE visites' = [visites EXCEPT ![v] = Close]
        BY <2>2, <3>2, Closes
    <3> QED BY <2>3, <3>1, <3>2
  <2>5. PagesTypes'
      BY <1>0, <2>1, <2>4 DEF PagesTypes
  <2>6. chargement' => \E w \in Visites : Prometteuse(visites'[w])
    <3>1. ~Prometteuse(visites[v])
        BY <2>1 DEF Prometteuse
    <3> QED BY <2>1, <2>4, <3>1
  <2>7. (~trouble /\ SansTrouble)
           => /\ EnCharge(visites'[v]) => Saine(visites'[v], adresse', affiche', profil')
              /\ ~EnCharge(visites'[v]) => (affiche' = adresse'.mix /\ profil' = adresse'.mix)
              /\ suite' \in {adresse'.mix, NulMix} /\ meme' \in {adresse'.mix, NulMix}
    <3> SUFFICES ASSUME SansTrouble
                 PROVE  /\ EnCharge(visites'[v]) => Saine(visites'[v], adresse', affiche', profil')
                        /\ affiche' = adresse'.mix /\ profil' = adresse'.mix
                        /\ suite' \in {adresse'.mix, NulMix} /\ meme' \in {adresse'.mix, NulMix}
        OBVIOUS
    <3>1. /\ visites[v].cible = adresse.mix /\ affiche = adresse.mix
          /\ profil = adresse.mix /\ visites[v].id = adresse.mix
        BY <2>1 DEF SansTrouble, Saine
    <3>2. suite \in {adresse.mix, NulMix} /\ meme \in {adresse.mix, NulMix}
        BY DEF SansTrouble
    <3> QED BY <2>1, <2>4, <3>1, <3>2 DEF Saine
  <2>8. adresse' \notin Dehors /\ trouble' = trouble
      BY <2>1
  <2> QED BY <2>1, <2>4, <2>5, <2>6, <2>7, <2>8, MovesOn
<1>7. ASSUME NEW a \in Dehors, QuitterPageMix(a) PROVE PagesInv'
    BY <1>0, <1>7, PageIsLeft DEF QuitterPageMix, PagesTypes
<1>8. ASSUME NEW m \in Mixes, SuppressionReussit(m) PROVE PagesInv'
  <2>1. [forme |-> "ailleurs", mix |-> NulMix] \in Dehors
      BY DEF Dehors
  <2>2. publies' \subseteq Mixes /\ lancees' = lancees
        /\ Quittee([forme |-> "ailleurs", mix |-> NulMix])
      BY <1>8 DEF SuppressionReussit, PagesTypes
  <2> QED BY <2>1, <2>2, PageIsLeft
<1>9. ASSUME publies' \subseteq Mixes,
             UNCHANGED <<adresse, affiche, profil, suite, meme, chargement, visites, lancees, trouble>>
      PROVE  PagesInv'
    BY <1>0, <1>9 DEF PagesTypes, Occupee, SansTrouble
<1>10. ASSUME NEW m \in Mixes, SuppressionEchoue(m) \/ MixRetire(m) PROVE PagesInv'
    BY <1>9, <1>10 DEF SuppressionEchoue, MixRetire, affichage, PagesTypes
<1>11. CASE DemanderSuppression
    BY <1>9, <1>11 DEF DemanderSuppression, affichage, PagesTypes
<1>12. CASE UNCHANGED pagesVars
    BY <1>9, <1>12 DEF pagesVars, PagesTypes
<1> QED BY <1>1, <1>2, <1>3, <1>4, <1>5, <1>6, <1>7, <1>8, <1>10, <1>11, <1>12 DEF PagesNext

\* A page with nothing under way no longer says that it loads; and it shows the
\* mix, the profile and the sections of its address, if nothing since its last
\* load alone has failed or crossed it, whatever orphans and deletions bring
\* in, for any number of mixes and of loads.
THEOREM AtRestShownIsAskedAlways == PagesSpec => []AtRestShownIsAsked
<1>1. PagesInv => AtRestShownIsAsked
    BY DEF PagesInv, PagesTypes, SansTrouble, AtRestShownIsAsked, Occupee, Prometteuse, EnCharge
<1> QED BY <1>1, PagesInvInit, PagesInvNext, PTL DEF PagesSpec

(***************************************************************************)
(* Searching.  What was asked last is compared with the controls as they   *)
(* stand, so the invariant is that comparison and the types under it: a    *)
(* page number is never the 0 that stands for the sections, or asking for  *)
(* them would pass for a search.                                           *)
(***************************************************************************)

Filtres == [q : Textes, tag : BOOLEAN, tri : {"recent", "plays"}, page : Nat \ {0}]

RechercheInv ==
  /\ filtre \in Filtres /\ lienQ \in Textes /\ entete \in Textes
  /\ antirebond \in BOOLEAN
  /\ LastAskedIsWanted

\* What the controls become keeps their types.
LEMMA NoneIsFilter == Aucun \in Filtres /\ Aucun.q = Vide
BY DEF Aucun, Filtres, Textes

LEMMA TextOf ==
  ASSUME NEW f \in Filtres, NEW q \in Textes
  PROVE  [f EXCEPT !.q = q] \in Filtres /\ (f.q = q => [f EXCEPT !.q = q] = f)
BY DEF Filtres

LEMMA FirstPageOf ==
  ASSUME NEW f \in Filtres, NEW b \in BOOLEAN, NEW t \in {"recent", "plays"}
  PROVE  [f EXCEPT !.tag = b, !.page = 1] \in Filtres /\ [f EXCEPT !.tri = t, !.page = 1] \in Filtres
<1>1. ASSUME NEW g \in Filtres PROVE [g EXCEPT !.page = 1] \in Filtres
    BY DEF Filtres
<1> DEFINE g == [f EXCEPT !.tag = b]
           h == [f EXCEPT !.tri = t]
<1>2. g \in Filtres /\ h \in Filtres
    BY DEF Filtres
<1>3. [f EXCEPT !.tag = b, !.page = 1] = [g EXCEPT !.page = 1]
    OBVIOUS
<1>4. [f EXCEPT !.tri = t, !.page = 1] = [h EXCEPT !.page = 1]
    OBVIOUS
<1> HIDE DEF g, h
<1> QED BY <1>1, <1>2, <1>3, <1>4

\* An open page whose controls say f, and f has been asked for; or f asks for
\* no search.
LEMMA AskedIsWanted ==
  ASSUME RechercheInv, NEW f \in Filtres, filtre' = f, Envoyer(f),
         antirebond' \in BOOLEAN, UNCHANGED <<lienQ, entete>>
  PROVE  RechercheInv'
<1>1. f # Sections
    BY DEF Sections, Aucun, Filtres
<1>2. derniere' = f
    BY <1>1 DEF Envoyer
<1> QED BY <1>2 DEF RechercheInv, LastAskedIsWanted

\* The text follows another address, and the timer says so.
LEMMA FollowIsWanted ==
  ASSUME RechercheInv, NEW q \in Textes, SuivreLien(q), entete' \in Textes
  PROVE  RechercheInv'
<1>1. filtre' = [filtre EXCEPT !.q = q] /\ lienQ' = q /\ derniere' = derniere /\ ouverte' = ouverte
      /\ antirebond' = (antirebond \/ filtre.q # q)
    BY DEF SuivreLien, PasDeDemande
<1>2. filtre' \in Filtres /\ antirebond' \in BOOLEAN
    BY <1>1 DEF RechercheInv, Filtres
<1>3. CASE filtre.q = q
  <2>1. filtre' = filtre
      BY <1>1, <1>3 DEF RechercheInv, Filtres
  <2>2. antirebond' = antirebond
      BY <1>1, <1>3 DEF RechercheInv
  <2>3. LastAskedIsWanted'
      BY <1>1, <2>1, <2>2 DEF RechercheInv, LastAskedIsWanted, Cherche
  <2> QED BY <1>1, <1>2, <2>3 DEF RechercheInv
<1>4. CASE filtre.q # q
  <2>1. LastAskedIsWanted'
      BY <1>1, <1>4 DEF LastAskedIsWanted
  <2> QED BY <1>1, <1>2, <2>1 DEF RechercheInv
<1> QED BY <1>3, <1>4

\* A page just opened, or none.
LEMMA FreshIsWanted ==
  ASSUME NEW q \in Textes, filtre' = [Aucun EXCEPT !.q = q], lienQ' = q, entete' \in Textes,
         antirebond' = FALSE, derniere' = RienMontre
  PROVE  RechercheInv'
<1>1. filtre' \in Filtres
    BY NoneIsFilter, TextOf
<1> QED BY <1>1 DEF RechercheInv, LastAskedIsWanted

\* Nothing about the page of results moves.
LEMMA StillWanted ==
  ASSUME RechercheInv, UNCHANGED <<ouverte, filtre, lienQ, antirebond, derniere>>,
         entete' \in Textes
  PROVE  RechercheInv'
BY DEF RechercheInv, LastAskedIsWanted, Cherche

\* Whatever the four controls, the address and the header do in turn, and in
\* whatever order the answers come: a page that has searched has asked for
\* what its controls say, or is about to, for any texts and any number of
\* pages and of requests.
THEOREM LastAskedIsWantedAlways == RechercheSpec => []LastAskedIsWanted
<1>0. Vide \in Textes /\ Termes \subseteq Textes
    BY DEF Textes
<1>1. RechercheInit => RechercheInv
    BY <1>0, NoneIsFilter DEF RechercheInit, RechercheInv, LastAskedIsWanted
<1>2. ASSUME RechercheInv, [RechercheNext]_rechercheVars PROVE RechercheInv'
  <2>0. entete \in Textes /\ filtre \in Filtres /\ antirebond \in BOOLEAN /\ lienQ \in Textes
      BY <1>2 DEF RechercheInv
  <2>1. CASE QuitterPage
    <3>1. Aucun = [Aucun EXCEPT !.q = Vide]
        BY <1>0, NoneIsFilter, TextOf
    <3> QED BY <1>0, <2>0, <2>1, <3>1, FreshIsWanted DEF QuitterPage, enteteVars
  <2>2. CASE Debonder
    <3>1. filtre' = [filtre EXCEPT !.page = 1] /\ antirebond' = FALSE /\ UNCHANGED <<lienQ, entete>>
          /\ Envoyer(IF Cherche(filtre') THEN filtre' ELSE Sections)
        BY <2>2 DEF Debonder, enteteVars
    <3>2. filtre' \in Filtres
        BY <2>0, <3>1 DEF Filtres
    <3>3. CASE Cherche(filtre')
      <4>1. Envoyer(filtre')
          BY <3>1, <3>3
      <4> QED BY <1>2, <3>1, <3>2, <4>1, AskedIsWanted
    <3>4. CASE ~Cherche(filtre')
        BY <2>0, <3>1, <3>2, <3>4 DEF RechercheInv, LastAskedIsWanted, Cherche
    <3> QED BY <3>3, <3>4
  <2>3. CASE BasculerTag
    <3>0. (~filtre.tag) \in BOOLEAN
      <4>1. ASSUME NEW b \in BOOLEAN PROVE (~b) \in BOOLEAN
          BY Z3
      <4> QED BY <2>0, <4>1 DEF Filtres
    <3>1. filtre' = [filtre EXCEPT !.tag = ~filtre.tag, !.page = 1] /\ Envoyer(filtre')
          /\ UNCHANGED <<lienQ, entete, antirebond>>
        BY <2>3 DEF BasculerTag, enteteVars
    <3>2. filtre' \in Filtres
        BY <2>0, <3>1, <3>0, FirstPageOf
    <3> QED BY <1>2, <2>0, <3>1, <3>2, AskedIsWanted
  <2>4. ASSUME NEW t \in {"recent", "plays"}, TrierPar(t) PROVE RechercheInv'
    <3>1. filtre' = [filtre EXCEPT !.tri = t, !.page = 1] /\ Envoyer(filtre')
          /\ UNCHANGED <<lienQ, entete, antirebond>>
        BY <2>4 DEF TrierPar, enteteVars
    <3>2. filtre' \in Filtres
        BY <2>0, <3>1, FirstPageOf
    <3> QED BY <1>2, <2>0, <3>1, <3>2, AskedIsWanted
  <2>5. ASSUME NEW p \in 1..MaxPages, TournerPage(p) PROVE RechercheInv'
    <3>1. filtre' = [filtre EXCEPT !.page = p] /\ Envoyer(filtre')
          /\ UNCHANGED <<lienQ, entete, antirebond>>
        BY <2>5 DEF TournerPage, enteteVars
    <3>2. p \in Nat \ {0}
        BY RechercheAssumption
    <3>3. filtre' \in Filtres
        BY <2>0, <3>1, <3>2 DEF Filtres
    <3> QED BY <1>2, <2>0, <3>1, <3>3, AskedIsWanted
  <2>6. ASSUME NEW q \in Textes, Ouvrir(q) PROVE RechercheInv'
      BY <2>0, <2>6, FreshIsWanted DEF Ouvrir, Monter, enteteVars
  <2>7. ASSUME NEW q \in Textes, Naviguer(q) PROVE RechercheInv'
      BY <1>2, <2>0, <2>7, FollowIsWanted DEF Naviguer, enteteVars
  <2>8. ASSUME NEW r \in attendues, Repondu(r) \/ Echoue(r) PROVE RechercheInv'
      BY <1>2, <2>0, <2>8, StillWanted DEF Repondu, Echoue, enteteVars
  <2>9. ASSUME NEW q \in Textes, Saisir(q) \/ ComptesRepondent(q) PROVE RechercheInv'
      BY <1>2, <2>0, <2>9, StillWanted DEF Saisir, ComptesRepondent, pageVars
  <2>10. CASE DemanderComptes \/ FermerListe
      BY <1>2, <2>0, <2>10, StillWanted DEF DemanderComptes, FermerListe, pageVars
  <2>11. CASE ChoisirCompte
    <3>1. Aucun = [Aucun EXCEPT !.q = Vide]
        BY <1>0, NoneIsFilter, TextOf
    <3> QED BY <1>0, <2>11, <3>1, FreshIsWanted DEF ChoisirCompte
  <2>12. CASE Valider
    <3>1. entete' \in Textes
        BY <1>0, <2>12 DEF Valider
    <3>2. Monter(entete) \/ UNCHANGED pageVars \/ SuivreLien(entete)
        BY <2>12 DEF Valider
    <3>3. CASE Monter(entete)
        BY <2>0, <3>1, <3>3, FreshIsWanted DEF Monter
    <3>4. CASE UNCHANGED pageVars
        BY <1>2, <3>1, <3>4, StillWanted DEF pageVars
    <3>5. CASE SuivreLien(entete)
        BY <1>2, <2>0, <3>1, <3>5, FollowIsWanted
    <3> QED BY <3>2, <3>3, <3>4, <3>5
  <2>13. CASE UNCHANGED rechercheVars
      BY <1>2, <2>0, <2>13, StillWanted DEF rechercheVars
  <2> QED BY <1>2, <2>1, <2>2, <2>3, <2>4, <2>5, <2>6, <2>7, <2>8, <2>9, <2>10, <2>11, <2>12, <2>13
          DEF RechercheNext, DecouvrirNext, EnteteNext
<1>3. RechercheInv => LastAskedIsWanted
    BY DEF RechercheInv
<1> QED BY <1>1, <1>2, <1>3, PTL DEF RechercheSpec

(***************************************************************************)
(* The settings page, its watched sources.  For one source, what the page  *)
(* shows, what the server holds and the last label agreed on are tied by   *)
(* the requests under way: a load or an addition is alone; a source the    *)
(* server no longer holds and the page still shows has a removal granted   *)
(* and unanswered; a label differs from the server's only while its        *)
(* renaming is on its way, and going back is then to the server's.         *)
(***************************************************************************)

Intitules == {Nul} \cup Libelles
Envois ==
  [quoi : {"aucun", "charger", "ajouter", "renommer", "retirer"},
   source : {Nul} \cup Suivies, val : Intitules, etat : {"aucun", "parti", "oui", "non"},
   lu : Intitules \cup [Suivies -> Intitules]]

\* e is a request about the source s.
Pour(e, s) == e.quoi \in {"ajouter", "renommer", "retirer"} /\ e.source = s

SourcesTyped ==
  /\ suivi \in [Suivies -> Intitules] /\ affichees \in [Suivies -> Intitules]
  /\ retenues \in [Suivies -> Intitules] /\ envois \in [Rangs -> Envois]
  /\ \A r \in Rangs : envois[r].quoi = "aucun" => envois[r] = EnvoiLibre
  /\ \A r \in Rangs : envois[r].quoi \in {"ajouter", "renommer", "retirer"} => envois[r].source \in Suivies
  /\ \A r \in Rangs : envois[r].quoi = "charger" /\ envois[r].etat = "oui" => envois[r].lu \in [Suivies -> Intitules]
  /\ \A r \in Rangs : envois[r].quoi = "ajouter" /\ envois[r].etat = "oui" => envois[r].lu \in Libelles
  /\ \A r \in Rangs : envois[r].quoi = "renommer" => envois[r].val \in Libelles

OneLoad(en) ==
  \A r, x \in Rangs : en[r].quoi = "charger" /\ en[x].quoi = "charger" => r = x

\* The source s: en are the requests, a the label on display, v the server's,
\* k the last one agreed on.
OneRenaming(en, s) ==
  \A r, x \in Rangs :
    en[r].quoi = "renommer" /\ en[r].source = s /\ en[x].quoi = "renommer" /\ en[x].source = s => r = x

LoadAlone(en, s, a, v) ==
  \A r \in Rangs : en[r].quoi = "charger" =>
    /\ \A x \in Rangs : ~Pour(en[x], s)
    /\ a = Nul
    /\ en[r].etat = "oui" => en[r].lu[s] = v

AdditionAlone(en, s, a, v) ==
  \A r \in Rangs : en[r].quoi = "ajouter" /\ en[r].source = s =>
    /\ \A x \in Rangs : Pour(en[x], s) => x = r
    /\ a = Nul
    /\ en[r].etat = "oui" => v = en[r].lu
    /\ en[r].etat # "oui" => v = Nul

Calme(en, s) ==
  \A r \in Rangs : en[r].quoi # "charger" /\ ~(en[r].quoi = "ajouter" /\ en[r].source = s)

RemovalGranted(en, s) ==
  \E r \in Rangs : en[r].quoi = "retirer" /\ en[r].source = s /\ en[r].etat = "oui"

GoneIsTold(en, s, a, v) ==
  Calme(en, s) =>
    /\ a = Nul => v = Nul
    /\ RemovalGranted(en, s) => v = Nul
    /\ a # Nul /\ v = Nul => RemovalGranted(en, s)

LabelFollows(en, s, a, v, k) ==
  Calme(en, s) /\ v # Nul =>
    /\ \A r \in Rangs : en[r].quoi = "renommer" /\ en[r].source = s =>
         /\ a = en[r].val
         /\ en[r].etat = "oui" => v = en[r].val
         /\ en[r].etat # "oui" => v = k
    /\ (\A r \in Rangs : ~(en[r].quoi = "renommer" /\ en[r].source = s)) => a = v /\ k = v

SourceFollows(en, s, a, v, k) ==
  /\ OneRenaming(en, s) /\ LoadAlone(en, s, a, v) /\ AdditionAlone(en, s, a, v)
  /\ GoneIsTold(en, s, a, v) /\ LabelFollows(en, s, a, v, k)

SourcesInv ==
  /\ SourcesTyped /\ OneLoad(envois)
  /\ \A s \in Suivies \ heurtees : SourceFollows(envois, s, affichees[s], suivi[s], retenues[s])

\* A request about another source.
LEMMA Elsewhere ==
  ASSUME NEW en \in [Rangs -> Envois], NEW r \in Rangs, NEW e \in Envois, NEW s \in Suivies,
         NEW a, NEW v, NEW k, SourceFollows(en, s, a, v, k),
         ~Pour(en[r], s), ~Pour(e, s), en[r].quoi # "charger", e.quoi # "charger"
  PROVE  SourceFollows([en EXCEPT ![r] = e], s, a, v, k)
<1> DEFINE f == [en EXCEPT ![r] = e]
<1>1. f[r] = e /\ \A x \in Rangs : x # r => f[x] = en[x]
    OBVIOUS
<1> HIDE DEF f
<1>2. OneRenaming(f, s) /\ LoadAlone(f, s, a, v) /\ AdditionAlone(f, s, a, v)
    BY <1>1 DEF SourceFollows, OneRenaming, LoadAlone, AdditionAlone, Pour
<1>3. Calme(f, s) => Calme(en, s)
    BY <1>1 DEF Calme, Pour
<1>4. RemovalGranted(f, s) <=> RemovalGranted(en, s)
    BY <1>1 DEF RemovalGranted, Pour
<1>5. GoneIsTold(f, s, a, v)
    BY <1>3, <1>4 DEF SourceFollows, GoneIsTold
<1>6. LabelFollows(f, s, a, v, k)
    BY <1>1, <1>3 DEF SourceFollows, LabelFollows, Pour
<1> QED BY <1>2, <1>5, <1>6 DEF SourceFollows, f

\* The page loads.
LEMMA LoadSent ==
  ASSUME NEW en \in [Rangs -> Envois], NEW r \in Rangs, NEW e \in Envois, NEW s \in Suivies,
         NEW v, NEW k, \A x \in Rangs : en[x].quoi = "aucun",
         e.quoi = "charger", e.etat = "parti"
  PROVE  SourceFollows([en EXCEPT ![r] = e], s, Nul, v, k)
<1> DEFINE f == [en EXCEPT ![r] = e]
<1>1. f[r] = e /\ \A x \in Rangs : x # r => f[x] = en[x]
    OBVIOUS
<1> HIDE DEF f
<1>2. ~Calme(f, s)
    BY <1>1 DEF Calme
<1> QED BY <1>1, <1>2 DEF SourceFollows, OneRenaming, LoadAlone, AdditionAlone, Pour, GoneIsTold,
                         LabelFollows, f

LEMMA AdditionSent ==
  ASSUME NEW en \in [Rangs -> Envois], NEW r \in Rangs, NEW e \in Envois, NEW s \in Suivies,
         NEW v, NEW k, SourceFollows(en, s, Nul, v, k),
         \A x \in Rangs : en[x].quoi # "charger" /\ ~Pour(en[x], s),
         e.quoi = "ajouter", e.source = s, e.etat = "parti"
  PROVE  SourceFollows([en EXCEPT ![r] = e], s, Nul, v, k)
<1> DEFINE f == [en EXCEPT ![r] = e]
<1>1. f[r] = e /\ \A x \in Rangs : x # r => f[x] = en[x]
    OBVIOUS
<1> HIDE DEF f
<1>2. ~Calme(f, s)
    BY <1>1 DEF Calme
<1>3. v = Nul
    BY DEF SourceFollows, GoneIsTold, Calme, Pour
<1> QED BY <1>1, <1>2, <1>3 DEF SourceFollows, OneRenaming, LoadAlone, AdditionAlone, Pour,
                               GoneIsTold, LabelFollows, f

\* On display, so that nothing else can be under way but removals and renamings.
LEMMA ShownIsCalm ==
  ASSUME NEW en, NEW s, NEW a, NEW v, NEW k, SourceFollows(en, s, a, v, k), a # Nul
  PROVE  Calme(en, s)
BY DEF SourceFollows, LoadAlone, AdditionAlone, Calme

LEMMA RenamingSent ==
  ASSUME NEW en \in [Rangs -> Envois], NEW r \in Rangs, NEW e \in Envois, NEW s \in Suivies,
         NEW a, NEW v, NEW k, SourceFollows(en, s, a, v, k), a # Nul, en[r].quoi = "aucun",
         \A x \in Rangs : ~(en[x].quoi = "renommer" /\ en[x].source = s),
         e.quoi = "renommer", e.source = s, e.etat = "parti", e.val # Nul
  PROVE  SourceFollows([en EXCEPT ![r] = e], s, e.val, v, k)
<1> DEFINE f == [en EXCEPT ![r] = e]
<1>1. f[r] = e /\ \A x \in Rangs : x # r => f[x] = en[x]
    OBVIOUS
<1> HIDE DEF f
<1>2. Calme(en, s) /\ Calme(f, s)
    BY <1>1, ShownIsCalm DEF Calme
<1>3. OneRenaming(f, s) /\ LoadAlone(f, s, e.val, v) /\ AdditionAlone(f, s, e.val, v)
    BY <1>1, <1>2 DEF SourceFollows, OneRenaming, LoadAlone, AdditionAlone, Calme
<1>4. RemovalGranted(f, s) <=> RemovalGranted(en, s)
    BY <1>1 DEF RemovalGranted
<1>5. GoneIsTold(f, s, e.val, v)
    BY <1>2, <1>4 DEF SourceFollows, GoneIsTold
<1>6. LabelFollows(f, s, e.val, v, k)
    BY <1>1, <1>2 DEF SourceFollows, LabelFollows
<1> QED BY <1>3, <1>5, <1>6 DEF SourceFollows, f

LEMMA RemovalSent ==
  ASSUME NEW en \in [Rangs -> Envois], NEW r \in Rangs, NEW e \in Envois, NEW s \in Suivies,
         NEW a, NEW v, NEW k, SourceFollows(en, s, a, v, k), a # Nul, en[r].quoi = "aucun",
         e.quoi = "retirer", e.source = s, e.etat = "parti"
  PROVE  SourceFollows([en EXCEPT ![r] = e], s, a, v, k)
<1> DEFINE f == [en EXCEPT ![r] = e]
<1>1. f[r] = e /\ \A x \in Rangs : x # r => f[x] = en[x]
    OBVIOUS
<1> HIDE DEF f
<1>2. Calme(en, s) /\ Calme(f, s)
    BY <1>1, ShownIsCalm DEF Calme
<1>3. OneRenaming(f, s) /\ LoadAlone(f, s, a, v) /\ AdditionAlone(f, s, a, v)
    BY <1>1, <1>2 DEF SourceFollows, OneRenaming, LoadAlone, AdditionAlone, Calme
<1>4. RemovalGranted(f, s) <=> RemovalGranted(en, s)
    BY <1>1 DEF RemovalGranted
<1>5. GoneIsTold(f, s, a, v)
    BY <1>2, <1>4 DEF SourceFollows, GoneIsTold
<1>6. LabelFollows(f, s, a, v, k)
    BY <1>1, <1>2 DEF SourceFollows, LabelFollows
<1> QED BY <1>3, <1>5, <1>6 DEF SourceFollows, f

\* The server deals with a request, or turns it down: f is the request, e what
\* it becomes, v what it holds for s and w what it holds next.
LEMMA SourceServed ==
  ASSUME NEW en \in [Rangs -> Envois], NEW r \in Rangs, NEW e \in Envois, NEW s \in Suivies,
         NEW a, NEW v, NEW w, NEW k, SourceFollows(en, s, a, v, k),
         en[r].etat = "parti", e.quoi = en[r].quoi, e.source = en[r].source, e.val = en[r].val,
         Pour(e, s) \/ e.quoi = "charger",
         \/ e.etat = "non" /\ w = v
         \/ e.etat = "oui" /\ e.quoi = "charger" /\ w = v /\ e.lu[s] = v
         \/ e.etat = "oui" /\ e.quoi = "ajouter" /\ w = e.lu
         \/ e.etat = "oui" /\ e.quoi = "renommer" /\ v # Nul /\ w = e.val /\ w # Nul
         \/ e.etat = "oui" /\ e.quoi = "retirer" /\ v # Nul /\ w = Nul
  PROVE  SourceFollows([en EXCEPT ![r] = e], s, a, w, k)
<1> DEFINE f == [en EXCEPT ![r] = e]
<1>1. f[r] = e /\ \A x \in Rangs : x # r => f[x] = en[x]
    OBVIOUS
<1>2. \A x \in Rangs : f[x].quoi = en[x].quoi /\ f[x].source = en[x].source /\ f[x].val = en[x].val
    BY <1>1
<1>3. \A x \in Rangs : Pour(f[x], s) <=> Pour(en[x], s)
    BY <1>2 DEF Pour
<1> HIDE DEF f
<1>4. OneRenaming(f, s)
    BY <1>2 DEF SourceFollows, OneRenaming
<1>5. Calme(f, s) <=> Calme(en, s)
    BY <1>2 DEF Calme
<1>6. CASE e.quoi = "charger"
  <2>1. ~Calme(f, s) /\ w = v
      BY <1>1, <1>6 DEF Calme
  <2>2. LoadAlone(f, s, a, w)
      BY <1>1, <1>2, <1>3, <1>6, <2>1 DEF SourceFollows, LoadAlone
  <2>3. \A x \in Rangs : ~Pour(f[x], s)
      BY <1>3, <1>6 DEF SourceFollows, LoadAlone
  <2> QED BY <1>4, <2>1, <2>2, <2>3 DEF SourceFollows, AdditionAlone, Pour, GoneIsTold,
                                        LabelFollows, f
<1>7. CASE e.quoi = "ajouter"
  <2>1. e.source = s
      BY <1>7 DEF Pour
  <2>2. ~Calme(f, s)
      BY <1>1, <1>7, <2>1 DEF Calme
  <2>3. LoadAlone(f, s, a, w)
      BY <1>2, <1>3, <1>7, <2>1 DEF SourceFollows, LoadAlone, Pour
  <2>4. AdditionAlone(f, s, a, w)
      BY <1>1, <1>2, <1>3, <1>7, <2>1 DEF SourceFollows, AdditionAlone, Pour
  <2> QED BY <1>4, <2>2, <2>3, <2>4 DEF SourceFollows, GoneIsTold, LabelFollows, f
<1>8. CASE e.quoi \in {"renommer", "retirer"}
  <2>1. e.source = s
      BY <1>8 DEF Pour
  <2>2. Calme(en, s)
      BY <1>8, <2>1 DEF SourceFollows, LoadAlone, AdditionAlone, Pour, Calme
  <2>3. LoadAlone(f, s, a, w) /\ AdditionAlone(f, s, a, w)
      BY <1>2, <2>2 DEF LoadAlone, AdditionAlone, Calme
  <2>4. CASE e.quoi = "renommer"
    <3>1. RemovalGranted(f, s) <=> RemovalGranted(en, s)
        BY <1>1, <2>4 DEF RemovalGranted
    <3>2. GoneIsTold(f, s, a, w)
        BY <1>5, <2>2, <2>4, <3>1 DEF SourceFollows, GoneIsTold
    <3>3. LabelFollows(f, s, a, w, k)
        BY <1>1, <1>2, <2>1, <2>2, <2>4 DEF SourceFollows, LabelFollows, OneRenaming
    <3> QED BY <1>4, <2>3, <3>2, <3>3 DEF SourceFollows, f
  <2>5. CASE e.quoi = "retirer"
    <3>1. CASE e.etat = "oui"
      <4>1. RemovalGranted(f, s) /\ w = Nul
          BY <1>1, <2>1, <2>5, <3>1 DEF RemovalGranted
      <4> QED BY <1>4, <2>3, <4>1 DEF SourceFollows, GoneIsTold, LabelFollows, f
    <3>2. CASE e.etat = "non"
      <4>1. RemovalGranted(f, s) <=> RemovalGranted(en, s)
          BY <1>1, <3>2 DEF RemovalGranted
      <4>2. LabelFollows(f, s, a, w, k)
          BY <1>1, <1>2, <2>2, <2>5, <3>2 DEF SourceFollows, LabelFollows
      <4> QED BY <1>4, <1>5, <2>2, <2>3, <3>2, <4>1, <4>2 DEF SourceFollows, GoneIsTold, f
    <3> QED BY <3>1, <3>2
  <2> QED BY <1>8, <2>4, <2>5
<1> QED BY <1>6, <1>7, <1>8 DEF Pour

\* The list arrives.
LEMMA LoadAnswered ==
  ASSUME NEW en \in [Rangs -> Envois], NEW r \in Rangs, NEW s \in Suivies, OneLoad(en),
         NEW a, NEW v, NEW k, SourceFollows(en, s, a, v, k),
         en[r].quoi = "charger", en[r].etat = "oui"
  PROVE  SourceFollows([en EXCEPT ![r] = EnvoiLibre], s, en[r].lu[s], v, en[r].lu[s])
<1> DEFINE f == [en EXCEPT ![r] = EnvoiLibre]
<1>1. f[r].quoi = "aucun" /\ \A x \in Rangs : x # r => f[x] = en[x]
    BY DEF EnvoiLibre
<1> HIDE DEF f
<1>2. en[r].lu[s] = v /\ \A x \in Rangs : ~Pour(en[x], s)
    BY DEF SourceFollows, LoadAlone
<1>3. \A x \in Rangs : ~Pour(f[x], s) /\ f[x].quoi # "charger"
    BY <1>1, <1>2 DEF OneLoad, Pour
<1> QED BY <1>2, <1>3 DEF SourceFollows, OneRenaming, LoadAlone, AdditionAlone, Pour, GoneIsTold,
                          RemovalGranted, LabelFollows, f

\* A new row.
LEMMA AdditionAnswered ==
  ASSUME NEW en \in [Rangs -> Envois], NEW r \in Rangs, NEW s \in Suivies,
         NEW a, NEW v, NEW k, SourceFollows(en, s, a, v, k),
         en[r].quoi = "ajouter", en[r].source = s, en[r].etat = "oui", en[r].lu # Nul
  PROVE  SourceFollows([en EXCEPT ![r] = EnvoiLibre], s, en[r].lu, v, en[r].lu)
<1> DEFINE f == [en EXCEPT ![r] = EnvoiLibre]
<1>1. f[r].quoi = "aucun" /\ \A x \in Rangs : x # r => f[x] = en[x]
    BY DEF EnvoiLibre
<1> HIDE DEF f
<1>2. v = en[r].lu /\ \A x \in Rangs : Pour(en[x], s) => x = r
    BY DEF SourceFollows, AdditionAlone
<1>3. \A x \in Rangs : en[x].quoi # "charger"
    BY DEF SourceFollows, LoadAlone, Pour
<1>4. \A x \in Rangs : ~Pour(f[x], s) /\ f[x].quoi # "charger"
    BY <1>1, <1>2, <1>3 DEF Pour
<1> QED BY <1>2, <1>4 DEF SourceFollows, OneRenaming, LoadAlone, AdditionAlone, Pour, GoneIsTold,
                          RemovalGranted, LabelFollows, f

\* A new label, granted, on a row the page may have lost meanwhile.
LEMMA RenamingAnswered ==
  ASSUME NEW en \in [Rangs -> Envois], NEW r \in Rangs, NEW s \in Suivies,
         NEW a, NEW v, NEW k, SourceFollows(en, s, a, v, k),
         en[r].quoi = "renommer", en[r].source = s, en[r].etat = "oui", en[r].val # Nul,
         NEW b, b = IF a = Nul THEN Nul ELSE en[r].val
  PROVE  SourceFollows([en EXCEPT ![r] = EnvoiLibre], s, b, v, en[r].val)
<1> DEFINE f == [en EXCEPT ![r] = EnvoiLibre]
<1>1. f[r].quoi = "aucun" /\ \A x \in Rangs : x # r => f[x] = en[x]
    BY DEF EnvoiLibre
<1>2. b = Nul <=> a = Nul
    OBVIOUS
<1>3. a # Nul => b = en[r].val
    OBVIOUS
<1> HIDE DEF f
<1>4. Calme(en, s)
    BY DEF SourceFollows, LoadAlone, AdditionAlone, Pour, Calme
<1>5. Calme(f, s)
    BY <1>1, <1>4 DEF Calme
<1>6. OneRenaming(f, s) /\ LoadAlone(f, s, b, v) /\ AdditionAlone(f, s, b, v)
    BY <1>1, <1>5 DEF SourceFollows, OneRenaming, LoadAlone, AdditionAlone, Calme
<1>7. RemovalGranted(f, s) <=> RemovalGranted(en, s)
    BY <1>1 DEF RemovalGranted
<1>8. GoneIsTold(f, s, b, v)
    BY <1>2, <1>4, <1>7 DEF SourceFollows, GoneIsTold
<1>9. \A x \in Rangs : ~(f[x].quoi = "renommer" /\ f[x].source = s)
    BY <1>1 DEF SourceFollows, OneRenaming
<1>10. LabelFollows(f, s, b, v, en[r].val)
    BY <1>3, <1>4, <1>9 DEF SourceFollows, LabelFollows, GoneIsTold
<1> QED BY <1>6, <1>8, <1>10 DEF SourceFollows, f

LEMMA RemovalAnswered ==
  ASSUME NEW en \in [Rangs -> Envois], NEW r \in Rangs, NEW s \in Suivies,
         NEW a, NEW v, NEW k, SourceFollows(en, s, a, v, k),
         en[r].quoi = "retirer", en[r].source = s, en[r].etat = "oui"
  PROVE  SourceFollows([en EXCEPT ![r] = EnvoiLibre], s, Nul, v, Nul)
<1> DEFINE f == [en EXCEPT ![r] = EnvoiLibre]
<1>1. f[r].quoi = "aucun" /\ \A x \in Rangs : x # r => f[x] = en[x]
    BY DEF EnvoiLibre
<1> HIDE DEF f
<1>2. Calme(en, s)
    BY DEF SourceFollows, LoadAlone, AdditionAlone, Pour, Calme
<1>3. Calme(f, s)
    BY <1>1, <1>2 DEF Calme
<1>4. v = Nul
    BY <1>2 DEF SourceFollows, GoneIsTold, RemovalGranted
<1> QED BY <1>1, <1>3, <1>4 DEF SourceFollows, OneRenaming, LoadAlone, AdditionAlone, Calme,
                                GoneIsTold, LabelFollows, f

\* A request turned down: a label that was being changed goes back.
LEMMA RefusalAnswered ==
  ASSUME NEW en \in [Rangs -> Envois], NEW r \in Rangs, NEW s \in Suivies,
         NEW a, NEW v, NEW k, SourceFollows(en, s, a, v, k),
         Pour(en[r], s), en[r].etat = "non",
         NEW b, b = IF en[r].quoi = "renommer" /\ a # Nul /\ k # Nul THEN k ELSE a
  PROVE  SourceFollows([en EXCEPT ![r] = EnvoiLibre], s, b, v, k)
<1> DEFINE f == [en EXCEPT ![r] = EnvoiLibre]
<1>1. f[r].quoi = "aucun" /\ \A x \in Rangs : x # r => f[x] = en[x]
    BY DEF EnvoiLibre
<1>2. b = Nul <=> a = Nul
    OBVIOUS
<1>3. en[r].quoi = "renommer" /\ a # Nul /\ k # Nul => b = k
    OBVIOUS
<1>4. en[r].quoi # "renommer" => b = a
    OBVIOUS
<1> HIDE DEF f
<1>5. RemovalGranted(f, s) <=> RemovalGranted(en, s)
    BY <1>1 DEF RemovalGranted
<1>6. OneRenaming(f, s)
    BY <1>1 DEF SourceFollows, OneRenaming
<1>7. CASE en[r].quoi = "ajouter"
  <2>1. a = Nul /\ v = Nul /\ b = Nul
      BY <1>2, <1>7 DEF SourceFollows, AdditionAlone, Pour
  <2>2. \A x \in Rangs : ~Pour(f[x], s) /\ f[x].quoi # "charger"
      BY <1>1, <1>7 DEF SourceFollows, AdditionAlone, LoadAlone, Pour
  <2> QED BY <1>6, <2>1, <2>2 DEF SourceFollows, LoadAlone, AdditionAlone, GoneIsTold, LabelFollows,
                                  RemovalGranted, Pour, f
<1>8. CASE en[r].quoi \in {"renommer", "retirer"}
  <2>1. Calme(en, s)
      BY <1>8 DEF SourceFollows, LoadAlone, AdditionAlone, Pour, Calme
  <2>2. Calme(f, s)
      BY <1>1, <2>1 DEF Calme
  <2>3. LoadAlone(f, s, b, v) /\ AdditionAlone(f, s, b, v)
      BY <2>2 DEF LoadAlone, AdditionAlone, Calme
  <2>4. GoneIsTold(f, s, b, v)
      BY <1>2, <1>5, <2>1 DEF SourceFollows, GoneIsTold
  <2>5. CASE en[r].quoi = "renommer"
    <3>1. \A x \in Rangs : ~(f[x].quoi = "renommer" /\ f[x].source = s)
        BY <1>1, <2>5 DEF SourceFollows, OneRenaming, Pour
    <3>2. v # Nul => k = v /\ b = v
        BY <1>3, <2>1, <2>5 DEF SourceFollows, LabelFollows, GoneIsTold, Pour
    <3> QED BY <1>6, <2>3, <2>4, <3>1, <3>2 DEF SourceFollows, LabelFollows, f
  <2>6. CASE en[r].quoi = "retirer"
    <3>1. LabelFollows(f, s, b, v, k)
        BY <1>1, <1>4, <2>1, <2>6 DEF SourceFollows, LabelFollows
    <3> QED BY <1>6, <2>3, <2>4, <3>1 DEF SourceFollows, f
  <2> QED BY <1>8, <2>5, <2>6
<1> QED BY <1>7, <1>8 DEF Pour

\* What the requests become keeps their types.
LEMMA SentOf ==
  ASSUME NEW quoi \in {"charger", "ajouter", "renommer", "retirer"}, NEW s \in {Nul} \cup Suivies,
         NEW val \in Intitules, SourcesTyped, EnvoyerSource(quoi, s, val)
  PROVE  \E r \in Rangs, e \in Envois :
           /\ envois[r].quoi = "aucun" /\ envois' = [envois EXCEPT ![r] = e]
           /\ e.quoi = quoi /\ e.source = s /\ e.val = val /\ e.etat = "parti"
<1>1. PICK r \in Rangs :
        /\ envois[r] = EnvoiLibre
        /\ envois' = [envois EXCEPT ![r] = [EnvoiLibre EXCEPT !.quoi = quoi, !.source = s,
                                                              !.val = val, !.etat = "parti"]]
    BY DEF EnvoyerSource
<1> DEFINE e == [EnvoiLibre EXCEPT !.quoi = quoi, !.source = s, !.val = val, !.etat = "parti"]
<1>2. e = [quoi |-> quoi, source |-> s, val |-> val, etat |-> "parti", lu |-> Nul]
  <2> DEFINE e1 == [EnvoiLibre EXCEPT !.quoi = quoi]
             e2 == [e1 EXCEPT !.source = s]
             e3 == [e2 EXCEPT !.val = val]
  <2>1. e1 = [quoi |-> quoi, source |-> Nul, val |-> Nul, etat |-> "aucun", lu |-> Nul]
      BY DEF EnvoiLibre
  <2>2. e = [[[e1 EXCEPT !.source = s] EXCEPT !.val = val] EXCEPT !.etat = "parti"]
      OBVIOUS
  <2> HIDE DEF e1, e
  <2>3. e2 = [quoi |-> quoi, source |-> s, val |-> Nul, etat |-> "aucun", lu |-> Nul]
      BY <2>1
  <2>4. e = [[e2 EXCEPT !.val = val] EXCEPT !.etat = "parti"]
      BY <2>2
  <2> HIDE DEF e2
  <2>5. e3 = [quoi |-> quoi, source |-> s, val |-> val, etat |-> "aucun", lu |-> Nul]
      BY <2>3
  <2>6. e = [e3 EXCEPT !.etat = "parti"]
      BY <2>4
  <2> HIDE DEF e3
  <2> QED BY <2>5, <2>6
<1>3. e \in Envois
    BY <1>2 DEF Envois, Intitules
<1>4. envois[r].quoi = "aucun"
    BY <1>1 DEF EnvoiLibre
<1>5. e.quoi = quoi /\ e.source = s /\ e.val = val /\ e.etat = "parti"
    BY <1>2
<1>6. envois' = [envois EXCEPT ![r] = e]
    BY <1>1
<1> HIDE DEF e
<1> QED BY <1>3, <1>4, <1>5, <1>6

LEMMA DealtWith ==
  ASSUME NEW r \in Rangs, NEW t \in {"oui", "non"}, SourcesTyped,
         envois' = [envois EXCEPT ![r].etat = t]
  PROVE  \E e \in Envois :
           /\ envois' = [envois EXCEPT ![r] = e]
           /\ e.quoi = envois[r].quoi /\ e.source = envois[r].source /\ e.val = envois[r].val
           /\ e.etat = t
<1>1. envois \in [Rangs -> Envois] /\ envois[r] \in Envois
    BY DEF SourcesTyped
<1> DEFINE e == [envois[r] EXCEPT !.etat = t]
<1>2. envois' = [envois EXCEPT ![r] = e]
    BY <1>1
<1>3. e \in Envois
    BY <1>1 DEF Envois
<1>4. e.quoi = envois[r].quoi /\ e.source = envois[r].source /\ e.val = envois[r].val /\ e.etat = t
    BY <1>1 DEF Envois
<1> HIDE DEF e
<1> QED BY <1>2, <1>3, <1>4

\* A request takes a form e, at r.
LEMMA TypedWith ==
  ASSUME SourcesTyped, NEW r \in Rangs, NEW e \in Envois, envois' = [envois EXCEPT ![r] = e],
         suivi' \in [Suivies -> Intitules], affichees' \in [Suivies -> Intitules],
         retenues' \in [Suivies -> Intitules],
         e.quoi = "aucun" => e = EnvoiLibre,
         e.quoi \in {"ajouter", "renommer", "retirer"} => e.source \in Suivies,
         e.quoi = "charger" /\ e.etat = "oui" => e.lu \in [Suivies -> Intitules],
         e.quoi = "ajouter" /\ e.etat = "oui" => e.lu \in Libelles,
         e.quoi = "renommer" => e.val \in Libelles
  PROVE  SourcesTyped'
<1>1. envois' \in [Rangs -> Envois]
    BY DEF SourcesTyped
<1>2. envois'[r] = e /\ \A x \in Rangs : x # r => envois'[x] = envois[x]
    BY DEF SourcesTyped
<1> QED BY <1>1, <1>2 DEF SourcesTyped

\* No load is asked for while something is under way.
LEMMA OneLoadStill ==
  ASSUME SourcesTyped, OneLoad(envois), NEW r \in Rangs, NEW e,
         e.quoi = "charger" => envois[r].quoi = "charger" \/ \A x \in Rangs : envois[x].quoi = "aucun"
  PROVE  OneLoad([envois EXCEPT ![r] = e])
<1>1. [envois EXCEPT ![r] = e][r] = e
      /\ \A x \in Rangs : x # r => [envois EXCEPT ![r] = e][x] = envois[x]
    BY DEF SourcesTyped
<1> QED BY <1>1 DEF OneLoad

LEMMA LibreTyped == EnvoiLibre \in Envois /\ EnvoiLibre.quoi = "aucun"
BY DEF EnvoiLibre, Envois, Intitules

\* One form e of one request, about the source s; the others follow as before.
LEMMA OneSource ==
  ASSUME SourcesInv, NEW r \in Rangs, NEW e \in Envois, NEW s \in Suivies,
         envois' = [envois EXCEPT ![r] = e],
         ~\E z \in Suivies : z # s /\ (Pour(envois[r], z) \/ Pour(e, z)),
         envois[r].quoi # "charger", e.quoi # "charger", SourcesTyped',
         heurtees \subseteq heurtees',
         \A z \in Suivies : z # s => /\ affichees'[z] = affichees[z] /\ suivi'[z] = suivi[z]
                                     /\ retenues'[z] = retenues[z],
         s \notin heurtees' =>
           SourceFollows([envois EXCEPT ![r] = e], s, affichees'[s], suivi'[s], retenues'[s])
  PROVE  SourcesInv'
<1>1. OneLoad(envois')
    BY OneLoadStill DEF SourcesInv
<1>2. ASSUME NEW z \in Suivies \ heurtees', z # s
      PROVE  SourceFollows(envois', z, affichees'[z], suivi'[z], retenues'[z])
  <2>1. SourceFollows(envois, z, affichees[z], suivi[z], retenues[z])
      BY <1>2 DEF SourcesInv
  <2>2. ~Pour(envois[r], z) /\ ~Pour(e, z)
      BY <1>2
  <2>3. SourceFollows([envois EXCEPT ![r] = e], z, affichees[z], suivi[z], retenues[z])
      BY <2>1, <2>2, Elsewhere DEF SourcesInv, SourcesTyped
  <2> QED BY <1>2, <2>3
<1> QED BY <1>1, <1>2 DEF SourcesInv

LEMMA NoneIsFree ==
  ASSUME SourcesTyped, NEW x \in Rangs
  PROVE  envois[x] = EnvoiLibre <=> envois[x].quoi = "aucun"
BY LibreTyped DEF SourcesTyped

LEMMA LoadFollows ==
  ASSUME SourcesInv, ChargerSources
  PROVE  SourcesInv'
<1>1. SourcesTyped /\ OneLoad(envois)
    BY DEF SourcesInv
<1>2. \A x \in Rangs : envois[x].quoi = "aucun"
    BY <1>1, NoneIsFree DEF ChargerSources, Partis
<1>3. PICK r \in Rangs, e \in Envois :
        envois' = [envois EXCEPT ![r] = e] /\ e.quoi = "charger" /\ e.etat = "parti"
    BY <1>1, SentOf DEF ChargerSources, Intitules
<1>4. /\ affichees' = [s \in Suivies |-> Nul] /\ retenues' = [s \in Suivies |-> Nul]
      /\ suivi' = suivi
    BY DEF ChargerSources
<1>5. SourcesTyped'
  <2>1. /\ suivi' \in [Suivies -> Intitules] /\ affichees' \in [Suivies -> Intitules]
        /\ retenues' \in [Suivies -> Intitules]
      BY <1>1, <1>4 DEF SourcesTyped, Intitules
  <2> QED BY <1>1, <1>3, <2>1, TypedWith
<1>6. OneLoad(envois')
    BY <1>1, <1>2, <1>3, OneLoadStill
<1>7. ASSUME NEW s \in Suivies
      PROVE  SourceFollows(envois', s, affichees'[s], suivi'[s], retenues'[s])
    BY <1>1, <1>2, <1>3, <1>4, LoadSent DEF SourcesTyped
<1> QED BY <1>5, <1>6, <1>7 DEF SourcesInv

LEMMA AdditionFollows ==
  ASSUME SourcesInv, NEW s \in Suivies, AjouterSource(s)
  PROVE  SourcesInv'
<1>1. SourcesTyped /\ OneLoad(envois)
    BY DEF SourcesInv
<1>2. PICK r \in Rangs, e \in Envois :
        /\ envois[r].quoi = "aucun" /\ envois' = [envois EXCEPT ![r] = e]
        /\ e.quoi = "ajouter" /\ e.source = s /\ e.etat = "parti"
    BY <1>1, SentOf DEF AjouterSource, Intitules
<1>3. \A x \in Rangs : ~Pour(envois[x], s)
    BY <1>1, NoneIsFree DEF AjouterSource, Partis, Pour
<1>4. /\ heurtees' = IF Chargement THEN heurtees \cup {s} ELSE heurtees
      /\ UNCHANGED <<suivi, affichees, retenues>> /\ affichees[s] = Nul
    BY DEF AjouterSource
<1>5. SourcesTyped'
    BY <1>1, <1>2, <1>4, TypedWith DEF SourcesTyped
<1>6. ASSUME s \notin heurtees'
      PROVE  SourceFollows([envois EXCEPT ![r] = e], s, affichees'[s], suivi'[s], retenues'[s])
  <2>1. ~Chargement /\ s \in Suivies \ heurtees
      BY <1>4, <1>6
  <2>2. \A x \in Rangs : envois[x].quoi # "charger"
      BY <1>1, <2>1, NoneIsFree DEF Chargement, Partis
  <2>3. SourceFollows(envois, s, Nul, suivi[s], retenues[s])
      BY <1>4, <2>1 DEF SourcesInv
  <2> QED BY <1>1, <1>2, <1>3, <1>4, <2>2, <2>3, AdditionSent DEF SourcesTyped
<1>7. ~\E z \in Suivies : z # s /\ (Pour(envois[r], z) \/ Pour(e, z))
    BY <1>2 DEF Pour
<1>8. heurtees \subseteq heurtees'
    BY <1>4
<1> QED BY <1>2, <1>4, <1>5, <1>6, <1>7, <1>8, OneSource

LEMMA RenamingFollows ==
  ASSUME SourcesInv, NEW s \in Suivies, NEW l \in Libelles, RenommerSource(s, l)
  PROVE  SourcesInv'
<1>1. SourcesTyped /\ OneLoad(envois)
    BY DEF SourcesInv
<1>2. PICK r \in Rangs, e \in Envois :
        /\ envois[r].quoi = "aucun" /\ envois' = [envois EXCEPT ![r] = e]
        /\ e.quoi = "renommer" /\ e.source = s /\ e.etat = "parti" /\ e.val = l
    BY <1>1, SentOf DEF RenommerSource, Intitules
<1>3. /\ heurtees' = IF \E x \in Partis : envois[x].quoi = "renommer" /\ envois[x].source = s
                     THEN heurtees \cup {s} ELSE heurtees
      /\ UNCHANGED <<suivi, retenues>> /\ affichees[s] # Nul /\ affichees' = [affichees EXCEPT ![s] = l]
    BY DEF RenommerSource
<1>4. l # Nul
    BY ReglagesAssumption
<1>5. affichees' \in [Suivies -> Intitules] /\ affichees'[s] = l
      /\ \A z \in Suivies : z # s => affichees'[z] = affichees[z]
    BY <1>1, <1>3 DEF SourcesTyped, Intitules
<1>6. SourcesTyped'
  <2>1. suivi' \in [Suivies -> Intitules] /\ retenues' \in [Suivies -> Intitules]
      BY <1>1, <1>3 DEF SourcesTyped
  <2> QED BY <1>1, <1>2, <1>5, <2>1, TypedWith
<1>7. ASSUME s \notin heurtees'
      PROVE  SourceFollows([envois EXCEPT ![r] = e], s, affichees'[s], suivi'[s], retenues'[s])
  <2>1. s \in Suivies \ heurtees /\ ~\E x \in Partis : envois[x].quoi = "renommer" /\ envois[x].source = s
      BY <1>3, <1>7
  <2>2. \A x \in Rangs : ~(envois[x].quoi = "renommer" /\ envois[x].source = s)
      BY <1>1, <2>1, NoneIsFree DEF Partis
  <2>3. SourceFollows(envois, s, affichees[s], suivi[s], retenues[s])
      BY <2>1 DEF SourcesInv
  <2> QED BY <1>1, <1>2, <1>3, <1>4, <1>5, <2>2, <2>3, RenamingSent DEF SourcesTyped
<1>8. ~\E z \in Suivies : z # s /\ (Pour(envois[r], z) \/ Pour(e, z))
    BY <1>2 DEF Pour
<1>9. heurtees \subseteq heurtees'
    BY <1>3
<1>10. \A z \in Suivies : z # s => /\ affichees'[z] = affichees[z] /\ suivi'[z] = suivi[z]
                                 /\ retenues'[z] = retenues[z]
    BY <1>3, <1>5
<1>11. envois[r].quoi # "charger" /\ e.quoi # "charger"
    BY <1>2
<1> QED BY <1>2, <1>6, <1>7, <1>8, <1>9, <1>10, <1>11, OneSource

LEMMA RemovalFollows ==
  ASSUME SourcesInv, NEW s \in Suivies, RetirerSource(s)
  PROVE  SourcesInv'
<1>1. SourcesTyped /\ OneLoad(envois)
    BY DEF SourcesInv
<1>2. PICK r \in Rangs, e \in Envois :
        /\ envois[r].quoi = "aucun" /\ envois' = [envois EXCEPT ![r] = e]
        /\ e.quoi = "retirer" /\ e.source = s /\ e.etat = "parti"
    BY <1>1, SentOf DEF RetirerSource, Intitules
<1>3. UNCHANGED <<suivi, affichees, retenues, heurtees>> /\ affichees[s] # Nul
    BY DEF RetirerSource
<1>4. SourcesTyped'
    BY <1>1, <1>2, <1>3, TypedWith DEF SourcesTyped
<1>5. ASSUME s \notin heurtees'
      PROVE  SourceFollows([envois EXCEPT ![r] = e], s, affichees'[s], suivi'[s], retenues'[s])
  <2>1. SourceFollows(envois, s, affichees[s], suivi[s], retenues[s])
      BY <1>3, <1>5 DEF SourcesInv
  <2> QED BY <1>1, <1>2, <1>3, <2>1, RemovalSent DEF SourcesTyped
<1>6. ~\E z \in Suivies : z # s /\ (Pour(envois[r], z) \/ Pour(e, z))
    BY <1>2 DEF Pour
<1> QED BY <1>2, <1>3, <1>4, <1>5, <1>6, OneSource

LEMMA ServiceFollows ==
  ASSUME SourcesInv, NEW r \in Rangs, EnvoiTraite(r)
  PROVE  SourcesInv'
<1> DEFINE q == envois[r]
<1>1. SourcesTyped /\ OneLoad(envois) /\ q \in Envois /\ q.etat = "parti"
    BY DEF SourcesInv, SourcesTyped, EnvoiTraite
<1>2. UNCHANGED <<affichees, retenues, heurtees>>
    BY DEF EnvoiTraite
<1>3. suivi \in [Suivies -> Intitules] /\ Libelles \subseteq Intitules
    BY <1>1 DEF SourcesTyped, Intitules
<1>4. q.quoi # "aucun"
    BY <1>1 DEF SourcesTyped, EnvoiLibre
\* What is left to show once e, and w for its source, are known.
<1>5. ASSUME NEW e \in Envois, envois' = [envois EXCEPT ![r] = e],
             e.quoi = q.quoi, e.source = q.source, e.val = q.val, e.etat \in {"oui", "non"},
             suivi' \in [Suivies -> Intitules],
             \A z \in Suivies : z # q.source => suivi'[z] = suivi[z],
             \/ e.etat = "non" /\ suivi' = suivi
             \/ e.etat = "oui" /\ e.quoi = "charger" /\ suivi' = suivi /\ e.lu = suivi
             \/ /\ e.etat = "oui" /\ e.quoi = "ajouter" /\ suivi'[q.source] = e.lu
                /\ e.lu \in Libelles
             \/ /\ e.etat = "oui" /\ e.quoi = "renommer" /\ suivi[q.source] # Nul
                /\ suivi'[q.source] = e.val
             \/ /\ e.etat = "oui" /\ e.quoi = "retirer" /\ suivi[q.source] # Nul
                /\ suivi'[q.source] = Nul
      PROVE  SourcesInv'
  <2>1. /\ q.quoi \in {"ajouter", "renommer", "retirer"} => q.source \in Suivies
        /\ q.quoi = "renommer" => q.val \in Libelles /\ q.val # Nul
      BY <1>1, ReglagesAssumption DEF SourcesTyped
  <2>2. SourcesTyped'
    <3>1. affichees' \in [Suivies -> Intitules] /\ retenues' \in [Suivies -> Intitules]
        BY <1>1, <1>2 DEF SourcesTyped
    <3>2. e.quoi = "charger" /\ e.etat = "oui" => e.lu \in [Suivies -> Intitules]
        BY <1>3, <1>5
    <3> HIDE DEF q
    <3> QED BY <1>1, <1>4, <1>5, <2>1, <3>1, <3>2, TypedWith
  <2>3. OneLoad(envois')
      BY <1>1, <1>5, OneLoadStill
  <2>4. ASSUME NEW s \in Suivies \ heurtees', q.quoi = "charger" \/ Pour(q, s)
        PROVE  SourceFollows(envois', s, affichees'[s], suivi'[s], retenues'[s])
    <3>1. SourceFollows(envois, s, affichees[s], suivi[s], retenues[s])
        BY <1>2, <2>4 DEF SourcesInv
    <3>2. Pour(e, s) \/ e.quoi = "charger"
        BY <1>5, <2>4 DEF Pour
    <3>3. \/ e.etat = "non" /\ suivi'[s] = suivi[s]
          \/ e.etat = "oui" /\ e.quoi = "charger" /\ suivi'[s] = suivi[s] /\ e.lu[s] = suivi[s]
          \/ e.etat = "oui" /\ e.quoi = "ajouter" /\ suivi'[s] = e.lu
          \/ e.etat = "oui" /\ e.quoi = "renommer" /\ suivi[s] # Nul /\ suivi'[s] = e.val /\ suivi'[s] # Nul
          \/ e.etat = "oui" /\ e.quoi = "retirer" /\ suivi[s] # Nul /\ suivi'[s] = Nul
        BY <1>5, <2>1, <3>2 DEF Pour
    <3>4. SourceFollows([envois EXCEPT ![r] = e], s, affichees[s], suivi'[s], retenues[s])
        BY <1>1, <1>5, <3>1, <3>2, <3>3, SourceServed DEF SourcesTyped
    <3> QED BY <1>2, <1>5, <3>4
  <2>5. ASSUME NEW s \in Suivies \ heurtees', q.quoi # "charger", ~Pour(q, s)
        PROVE  SourceFollows(envois', s, affichees'[s], suivi'[s], retenues'[s])
    <3>1. SourceFollows(envois, s, affichees[s], suivi[s], retenues[s])
        BY <1>2, <2>5 DEF SourcesInv
    <3>2. suivi'[s] = suivi[s]
      <4>1. q.quoi \in {"ajouter", "renommer", "retirer"}
          BY <1>1, <1>4, <2>5 DEF Envois
      <4> QED BY <1>5, <2>5, <4>1 DEF Pour
    <3>3. ~Pour(e, s)
        BY <1>5, <2>5 DEF Pour
    <3>4. SourceFollows([envois EXCEPT ![r] = e], s, affichees[s], suivi[s], retenues[s])
        BY <1>1, <1>5, <2>5, <3>1, <3>3, Elsewhere DEF SourcesTyped
    <3> QED BY <1>2, <1>5, <3>2, <3>4
  <2> QED BY <2>2, <2>3, <2>4, <2>5 DEF SourcesInv
<1>6. CASE q.quoi = "charger" /\ envois' = [envois EXCEPT ![r].etat = "oui", ![r].lu = suivi]
           /\ UNCHANGED suivi
  <2> DEFINE e == [q EXCEPT !.etat = "oui", !.lu = suivi]
  <2>1. /\ envois' = [envois EXCEPT ![r] = e] /\ e \in Envois
        /\ e.quoi = q.quoi /\ e.source = q.source /\ e.val = q.val /\ e.etat = "oui" /\ e.lu = suivi
    <3>1. envois \in [Rangs -> Envois] /\ (suivi \in Intitules \/ suivi \in [Suivies -> Intitules])
        BY <1>1, <1>3 DEF SourcesTyped
    <3>2. [envois EXCEPT ![r].etat = "oui", ![r].lu = suivi] = [envois EXCEPT ![r] = e]
        BY <3>1
    <3>3. envois' = [envois EXCEPT ![r] = e]
        BY <1>6, <3>2
    <3>4. e \in Envois
        BY <3>1 DEF Envois
    <3>5. e.quoi = q.quoi /\ e.source = q.source /\ e.val = q.val /\ e.etat = "oui" /\ e.lu = suivi
        BY <1>1 DEF Envois
    <3> QED BY <3>3, <3>4, <3>5
  <2> HIDE DEF e
  <2> QED BY <1>3, <1>5, <1>6, <2>1
<1>7. ASSUME q.quoi = "ajouter", NEW l \in Libelles, suivi' = [suivi EXCEPT ![q.source] = l],
             envois' = [envois EXCEPT ![r].etat = "oui", ![r].lu = l]
      PROVE  SourcesInv'
  <2> DEFINE e == [q EXCEPT !.etat = "oui", !.lu = l]
  <2>1. /\ envois' = [envois EXCEPT ![r] = e] /\ e \in Envois
        /\ e.quoi = q.quoi /\ e.source = q.source /\ e.val = q.val /\ e.etat = "oui" /\ e.lu = l
    <3>1. envois \in [Rangs -> Envois] /\ (l \in Intitules \/ l \in [Suivies -> Intitules])
        BY <1>1, <1>3, <1>7 DEF SourcesTyped
    <3>2. [envois EXCEPT ![r].etat = "oui", ![r].lu = l] = [envois EXCEPT ![r] = e]
        BY <3>1
    <3>3. envois' = [envois EXCEPT ![r] = e]
        BY <1>7, <3>2
    <3>4. e \in Envois
        BY <3>1 DEF Envois
    <3>5. e.quoi = q.quoi /\ e.source = q.source /\ e.val = q.val /\ e.etat = "oui" /\ e.lu = l
        BY <1>1 DEF Envois
    <3> QED BY <3>3, <3>4, <3>5
  <2> HIDE DEF e
  <2>2. q.source \in Suivies
      BY <1>1, <1>7 DEF SourcesTyped
  <2>3. /\ suivi' \in [Suivies -> Intitules] /\ suivi'[q.source] = l
        /\ \A z \in Suivies : z # q.source => suivi'[z] = suivi[z]
      BY <1>3, <1>7, <2>2
  <2> QED BY <1>5, <1>7, <2>1, <2>3
<1>8. CASE q.quoi = "renommer" /\ suivi[q.source] # Nul /\ suivi' = [suivi EXCEPT ![q.source] = q.val]
           /\ envois' = [envois EXCEPT ![r].etat = "oui"]
  <2>1. PICK e \in Envois :
          /\ envois' = [envois EXCEPT ![r] = e]
          /\ e.quoi = q.quoi /\ e.source = q.source /\ e.val = q.val /\ e.etat = "oui"
      BY <1>1, <1>3, <1>8, DealtWith
  <2>2. q.source \in Suivies /\ q.val \in Libelles
      BY <1>1, <1>8 DEF SourcesTyped
  <2>3. /\ suivi' \in [Suivies -> Intitules] /\ suivi'[q.source] = q.val
        /\ \A z \in Suivies : z # q.source => suivi'[z] = suivi[z]
      BY <1>3, <1>8, <2>2
  <2> QED BY <1>5, <1>8, <2>1, <2>3
<1>9. CASE q.quoi = "retirer" /\ suivi[q.source] # Nul /\ suivi' = [suivi EXCEPT ![q.source] = Nul]
           /\ envois' = [envois EXCEPT ![r].etat = "oui"]
  <2>1. PICK e \in Envois :
          /\ envois' = [envois EXCEPT ![r] = e]
          /\ e.quoi = q.quoi /\ e.source = q.source /\ e.val = q.val /\ e.etat = "oui"
      BY <1>1, <1>3, <1>9, DealtWith
  <2>2. q.source \in Suivies /\ Nul \in Intitules
      BY <1>1, <1>9 DEF SourcesTyped, Intitules
  <2>3. /\ suivi' \in [Suivies -> Intitules] /\ suivi'[q.source] = Nul
        /\ \A z \in Suivies : z # q.source => suivi'[z] = suivi[z]
      BY <1>3, <1>9, <2>2
  <2> QED BY <1>5, <1>9, <2>1, <2>3
<1>10. CASE envois' = [envois EXCEPT ![r].etat = "non"] /\ UNCHANGED suivi
  <2>1. PICK e \in Envois :
          /\ envois' = [envois EXCEPT ![r] = e]
          /\ e.quoi = q.quoi /\ e.source = q.source /\ e.val = q.val /\ e.etat = "non"
      BY <1>1, <1>3, <1>10, DealtWith
  <2> QED BY <1>3, <1>5, <1>10, <2>1
<1> QED BY <1>6, <1>7, <1>8, <1>9, <1>10 DEF EnvoiTraite

LEMMA AnswerFollows ==
  ASSUME SourcesInv, NEW r \in Rangs, EnvoiRepond(r)
  PROVE  SourcesInv'
<1> DEFINE q == envois[r]
           s == envois[r].source
<1>1. SourcesTyped /\ OneLoad(envois) /\ q \in Envois /\ q.etat = "oui"
    BY DEF SourcesInv, SourcesTyped, EnvoiRepond
<1>2. UNCHANGED <<suivi, heurtees>> /\ envois' = [envois EXCEPT ![r] = EnvoiLibre]
    BY DEF EnvoiRepond
<1>3. q.quoi \in {"charger", "ajouter", "renommer", "retirer"}
    BY <1>1 DEF SourcesTyped, Envois, EnvoiLibre
<1>4. /\ suivi \in [Suivies -> Intitules] /\ affichees \in [Suivies -> Intitules]
      /\ retenues \in [Suivies -> Intitules] /\ suivi' \in [Suivies -> Intitules]
      /\ Libelles \subseteq Intitules /\ Nul \in Intitules /\ Nul \notin Libelles
    BY <1>1, <1>2, ReglagesAssumption DEF SourcesTyped, Intitules
<1>5. CASE q.quoi = "charger"
  <2>1. affichees' = q.lu /\ retenues' = q.lu /\ q.lu \in [Suivies -> Intitules]
      BY <1>1, <1>5 DEF EnvoiRepond, Montrees, SourcesTyped
  <2>2. SourcesTyped'
      BY <1>1, <1>2, <1>4, <2>1, LibreTyped, TypedWith
  <2>3. OneLoad(envois')
      BY <1>1, <1>2, LibreTyped, OneLoadStill
  <2>4. ASSUME NEW z \in Suivies \ heurtees'
        PROVE  SourceFollows(envois', z, affichees'[z], suivi'[z], retenues'[z])
    <3>1. SourceFollows(envois, z, affichees[z], suivi[z], retenues[z])
        BY <1>2, <2>4 DEF SourcesInv
    <3> QED BY <1>1, <1>2, <1>5, <2>1, <3>1, LoadAnswered DEF SourcesTyped
  <2> QED BY <2>2, <2>3, <2>4 DEF SourcesInv
<1>6. ASSUME s \in Suivies, q.quoi # "charger",
             affichees' \in [Suivies -> Intitules], retenues' \in [Suivies -> Intitules],
             \A z \in Suivies : z # s => affichees'[z] = affichees[z] /\ retenues'[z] = retenues[z],
             SourceFollows(envois, s, affichees[s], suivi[s], retenues[s]) =>
               SourceFollows([envois EXCEPT ![r] = EnvoiLibre], s, affichees'[s], suivi[s], retenues'[s])
      PROVE  SourcesInv'
  <2>1. SourcesTyped'
      BY <1>1, <1>2, <1>4, <1>6, LibreTyped, TypedWith
  <2>2. ~\E z \in Suivies : z # s /\ (Pour(envois[r], z) \/ Pour(EnvoiLibre, z))
      BY LibreTyped DEF Pour
  <2>3. s \notin heurtees' => SourceFollows(envois, s, affichees[s], suivi[s], retenues[s])
      BY <1>2, <1>6 DEF SourcesInv
  <2> HIDE DEF s
  <2> QED BY <1>2, <1>6, <2>1, <2>2, <2>3, LibreTyped, OneSource
<1>7. CASE q.quoi = "ajouter"
  <2>1. s \in Suivies /\ q.lu \in Libelles
      BY <1>1, <1>7 DEF SourcesTyped
  <2>2. affichees' = [affichees EXCEPT ![s] = q.lu] /\ retenues' = [retenues EXCEPT ![s] = q.lu]
      BY <1>7 DEF EnvoiRepond
  <2>3. /\ affichees' \in [Suivies -> Intitules] /\ retenues' \in [Suivies -> Intitules]
        /\ affichees'[s] = q.lu /\ retenues'[s] = q.lu
        /\ \A z \in Suivies : z # s => affichees'[z] = affichees[z] /\ retenues'[z] = retenues[z]
      BY <1>4, <2>1, <2>2
  <2>4. SourceFollows(envois, s, affichees[s], suivi[s], retenues[s]) =>
          SourceFollows([envois EXCEPT ![r] = EnvoiLibre], s, affichees'[s], suivi[s], retenues'[s])
      BY <1>1, <1>4, <1>7, <2>1, <2>3, AdditionAnswered DEF SourcesTyped
  <2> QED BY <1>6, <1>7, <2>1, <2>3, <2>4
<1>8. CASE q.quoi = "renommer"
  <2>1. s \in Suivies /\ q.val \in Libelles
      BY <1>1, <1>8 DEF SourcesTyped
  <2>2. /\ affichees' = [affichees EXCEPT ![s] = IF affichees[s] = Nul THEN Nul ELSE q.val]
        /\ retenues' = [retenues EXCEPT ![s] = q.val]
      BY <1>4, <1>8, <2>1 DEF EnvoiRepond
  <2>3. /\ affichees' \in [Suivies -> Intitules] /\ retenues' \in [Suivies -> Intitules]
        /\ affichees'[s] = (IF affichees[s] = Nul THEN Nul ELSE q.val) /\ retenues'[s] = q.val
        /\ \A z \in Suivies : z # s => affichees'[z] = affichees[z] /\ retenues'[z] = retenues[z]
      BY <1>4, <2>1, <2>2
  <2>4. SourceFollows(envois, s, affichees[s], suivi[s], retenues[s]) =>
          SourceFollows([envois EXCEPT ![r] = EnvoiLibre], s, affichees'[s], suivi[s], retenues'[s])
    <3>1. envois \in [Rangs -> Envois] /\ q.val # Nul
        BY <1>1, <1>4, <2>1 DEF SourcesTyped
    <3> QED BY <1>1, <1>8, <2>1, <2>3, <3>1, RenamingAnswered
  <2> QED BY <1>6, <1>8, <2>1, <2>3, <2>4
<1>9. CASE q.quoi = "retirer"
  <2>1. s \in Suivies
      BY <1>1, <1>9 DEF SourcesTyped
  <2>2. affichees' = [affichees EXCEPT ![s] = Nul] /\ retenues' = [retenues EXCEPT ![s] = Nul]
      BY <1>9 DEF EnvoiRepond
  <2>3. /\ affichees' \in [Suivies -> Intitules] /\ retenues' \in [Suivies -> Intitules]
        /\ affichees'[s] = Nul /\ retenues'[s] = Nul
        /\ \A z \in Suivies : z # s => affichees'[z] = affichees[z] /\ retenues'[z] = retenues[z]
      BY <1>4, <2>1, <2>2
  <2>4. SourceFollows(envois, s, affichees[s], suivi[s], retenues[s]) =>
          SourceFollows([envois EXCEPT ![r] = EnvoiLibre], s, affichees'[s], suivi[s], retenues'[s])
      BY <1>1, <1>9, <2>1, <2>3, RemovalAnswered DEF SourcesTyped
  <2> QED BY <1>6, <1>9, <2>1, <2>3, <2>4
<1> QED BY <1>3, <1>5, <1>7, <1>8, <1>9

LEMMA FailureFollows ==
  ASSUME SourcesInv, NEW r \in Rangs, EnvoiEchoue(r)
  PROVE  SourcesInv'
<1> DEFINE q == envois[r]
           s == envois[r].source
<1>1. SourcesTyped /\ OneLoad(envois) /\ q \in Envois /\ q.etat \in {"oui", "non"}
    BY DEF SourcesInv, SourcesTyped, EnvoiEchoue
<1>2. /\ UNCHANGED <<suivi, retenues>> /\ envois' = [envois EXCEPT ![r] = EnvoiLibre]
    BY DEF EnvoiEchoue
<1>6. affichees' = IF q.quoi = "renommer" /\ affichees[s] # Nul /\ retenues[s] # Nul
                   THEN [affichees EXCEPT ![s] = retenues[s]] ELSE affichees
    BY DEF EnvoiEchoue
<1>7. heurtees' = heurtees \cup IF q.quoi = "charger" THEN Suivies
                               ELSE IF q.etat = "oui" THEN {s} ELSE {}
    BY DEF EnvoiEchoue
<1>3. q.quoi \in {"charger", "ajouter", "renommer", "retirer"}
    BY <1>1 DEF SourcesTyped, Envois, EnvoiLibre
<1>4. /\ suivi \in [Suivies -> Intitules] /\ affichees \in [Suivies -> Intitules]
      /\ retenues \in [Suivies -> Intitules] /\ suivi' \in [Suivies -> Intitules]
      /\ retenues' \in [Suivies -> Intitules]
    BY <1>1, <1>2 DEF SourcesTyped
<1>8. CASE q.quoi = "charger"
  <2>1. affichees' = affichees
      BY <1>6, <1>8
  <2>4. Suivies \subseteq heurtees'
      BY <1>7, <1>8
  <2>2. SourcesTyped'
      BY <1>1, <1>2, <1>4, <2>1, LibreTyped, TypedWith
  <2>3. OneLoad(envois')
      BY <1>1, <1>2, LibreTyped, OneLoadStill
  <2> QED BY <2>2, <2>3, <2>4 DEF SourcesInv
<1>9. CASE q.quoi # "charger"
  <2>1. s \in Suivies
      BY <1>1, <1>3, <1>9 DEF SourcesTyped
  <2>2. heurtees \subseteq heurtees' /\ (s \notin heurtees' => q.etat = "non" /\ s \notin heurtees)
      BY <1>1, <1>7, <1>9
  <2>3. /\ affichees' \in [Suivies -> Intitules]
        /\ affichees'[s] = IF q.quoi = "renommer" /\ affichees[s] # Nul /\ retenues[s] # Nul
                           THEN retenues[s] ELSE affichees[s]
        /\ \A z \in Suivies : z # s => affichees'[z] = affichees[z]
      BY <1>4, <1>6, <2>1
  <2>4. SourcesTyped'
      BY <1>1, <1>2, <1>4, <2>3, LibreTyped, TypedWith
  <2>5. ~\E z \in Suivies : z # s /\ (Pour(envois[r], z) \/ Pour(EnvoiLibre, z))
      BY LibreTyped DEF Pour
  <2>6. s \notin heurtees' =>
          SourceFollows([envois EXCEPT ![r] = EnvoiLibre], s, affichees'[s], suivi'[s], retenues'[s])
    <3>1. SUFFICES ASSUME s \notin heurtees'
                   PROVE  SourceFollows([envois EXCEPT ![r] = EnvoiLibre], s, affichees'[s], suivi'[s],
                                        retenues'[s])
        OBVIOUS
    <3>2. SourceFollows(envois, s, affichees[s], suivi[s], retenues[s])
        BY <2>1, <2>2, <3>1 DEF SourcesInv
    <3>3. Pour(q, s) /\ q.etat = "non"
        BY <1>3, <1>9, <2>2, <3>1 DEF Pour
    <3>4. envois \in [Rangs -> Envois]
        BY <1>1 DEF SourcesTyped
    <3>5. SourceFollows([envois EXCEPT ![r] = EnvoiLibre], s, affichees'[s], suivi[s], retenues[s])
        BY <2>1, <2>3, <3>2, <3>3, <3>4, RefusalAnswered
    <3> QED BY <1>2, <3>5
  <2> HIDE DEF s
  <2> QED BY <1>2, <1>4, <1>9, <2>1, <2>2, <2>3, <2>4, <2>5, <2>6, LibreTyped, OneSource
<1> QED BY <1>8, <1>9

\* The page is opened: its first load is on its way.
LEMMA SourcesStart ==
  ASSUME ReglagesInit
  PROVE  SourcesInv
<1> DEFINE libre == [r \in Rangs |-> EnvoiLibre]
           e == [EnvoiLibre EXCEPT !.quoi = "charger", !.etat = "parti"]
<1>1. e = [quoi |-> "charger", source |-> Nul, val |-> Nul, etat |-> "parti", lu |-> Nul]
  <2> DEFINE d == [EnvoiLibre EXCEPT !.quoi = "charger"]
  <2>1. d = [quoi |-> "charger", source |-> Nul, val |-> Nul, etat |-> "aucun", lu |-> Nul]
      BY DEF EnvoiLibre
  <2>2. e = [d EXCEPT !.etat = "parti"]
      OBVIOUS
  <2> HIDE DEF d, e
  <2> QED BY <2>1, <2>2
<1>2. e \in Envois /\ e.quoi = "charger" /\ e.etat = "parti"
    BY <1>1 DEF Envois, Intitules
<1>3. /\ suivi \in [Suivies -> Intitules] /\ affichees = [s \in Suivies |-> Nul] /\ retenues = affichees
      /\ envois = [r \in Rangs |-> IF r = 1 THEN e ELSE EnvoiLibre]
    BY DEF ReglagesInit, Intitules
<1> HIDE DEF e
<1>4. \A r \in Rangs : envois[r] = IF r = 1 THEN e ELSE EnvoiLibre
    BY <1>3
<1>5. SourcesTyped
    BY <1>2, <1>3, LibreTyped DEF SourcesTyped, Intitules
<1>6. OneLoad(envois)
    BY <1>4, LibreTyped DEF OneLoad
<1>7. ASSUME NEW s \in Suivies
      PROVE  SourceFollows(envois, s, affichees[s], suivi[s], retenues[s])
  <2>1. affichees[s] = Nul /\ retenues[s] = Nul
      BY <1>3
  <2>2. 1 \in Rangs
      BY ReglagesAssumption DEF Rangs
  <2>3. libre \in [Rangs -> Envois] /\ \A x \in Rangs : libre[x].quoi = "aucun"
      BY LibreTyped
  <2>4. envois = [libre EXCEPT ![1] = e]
      BY <1>3, <2>2
  <2> HIDE DEF libre
  <2>5. SourceFollows([libre EXCEPT ![1] = e], s, Nul, suivi[s], Nul)
      BY <1>2, <2>2, <2>3, LoadSent
  <2> QED BY <2>1, <2>4, <2>5
<1> QED BY <1>5, <1>6, <1>7 DEF SourcesInv

(***************************************************************************)
(* The settings page, the account.  Unless two requests that can undo one  *)
(* another have met, at most two are under way, the name and something     *)
(* about the forum; what the store holds of each differs from the server   *)
(* by one answer that has not arrived, and that answer says all of it.     *)
(***************************************************************************)

Fiches == [nom : Noms, pseudo : {Nul, Pseudo}, jeton : Nat, verifie : BOOLEAN]
Liaisons == {"lier", "redemander", "verifier", "delier"}
Demandables == {"nom", "entier"} \cup Liaisons
Appels ==
  [quoi : {"aucun"} \cup Demandables, val : Noms \cup {Nul, Pseudo},
   etat : {"aucun", "parti", "oui", "non"}, lu : {Nul} \cup Nat \cup Fiches]

CompteTyped ==
  /\ titulaire \in Fiches /\ magasin \in Fiches /\ jetons \in Nat /\ heurtes \in BOOLEAN
  /\ appels \in [Rangs -> Appels]
  /\ \A r \in Rangs : appels[r].quoi = "aucun" => appels[r] = AppelLibre
  /\ \A r \in Rangs : appels[r].quoi = "nom" => appels[r].val \in Noms
  /\ \A r \in Rangs : appels[r].quoi \in {"lier", "redemander"} => appels[r].val \in {Nul, Pseudo}
  /\ \A r \in Rangs : appels[r].quoi \in {"lier", "redemander"} /\ appels[r].etat = "oui" => appels[r].lu \in Nat
  /\ \A r \in Rangs : appels[r].quoi = "entier" /\ appels[r].etat = "oui" => appels[r].lu \in Fiches

\* The requests en, the account t as the server has it and m as the store does.
CallsApart(en) ==
  \A r, x \in Rangs : r # x /\ en[r].quoi # "aucun" /\ en[x].quoi # "aucun" =>
    \/ en[r].quoi = "nom" /\ en[x].quoi \in Liaisons
    \/ en[x].quoi = "nom" /\ en[r].quoi \in Liaisons

NameFollows(en, t, m) ==
  /\ \A r \in Rangs : en[r].quoi = "nom" /\ en[r].etat = "oui" => t.nom = en[r].val
  /\ (\A r \in Rangs : ~(en[r].quoi = "nom" /\ en[r].etat = "oui")) => m.nom = t.nom

LinkFollows(en, t, m) ==
  /\ \A r \in Rangs : en[r].quoi = "redemander" => en[r].val = m.pseudo
  /\ \A r \in Rangs : en[r].quoi = "verifier" => m.pseudo # Nul
  /\ \A r \in Rangs : en[r].quoi = "lier" /\ en[r].etat = "oui" =>
       t.pseudo = en[r].val /\ t.jeton = en[r].lu /\ t.verifie = FALSE
  /\ \A r \in Rangs : en[r].quoi = "redemander" /\ en[r].etat = "oui" =>
       t.pseudo = m.pseudo /\ t.jeton = en[r].lu /\ t.verifie = FALSE
  /\ \A r \in Rangs : en[r].quoi = "verifier" /\ en[r].etat = "oui" =>
       t.pseudo = m.pseudo /\ t.jeton = 0 /\ t.verifie = TRUE
  /\ \A r \in Rangs : en[r].quoi = "delier" /\ en[r].etat = "oui" =>
       t.pseudo = Nul /\ t.jeton = 0 /\ t.verifie = FALSE
  /\ (\A r \in Rangs : ~(en[r].quoi \in Liaisons /\ en[r].etat = "oui")) =>
       m.pseudo = t.pseudo /\ m.jeton = t.jeton /\ m.verifie = t.verifie

WholeFollows(en, t) ==
  \A r \in Rangs : en[r].quoi = "entier" /\ en[r].etat = "oui" => en[r].lu = t

AccountFollows(en, t, m) ==
  CallsApart(en) /\ NameFollows(en, t, m) /\ LinkFollows(en, t, m) /\ WholeFollows(en, t)

CompteInv == CompteTyped /\ (~heurtes => AccountFollows(appels, titulaire, magasin))

\* A request e is sent.
LEMMA CallSent ==
  ASSUME NEW en \in [Rangs -> Appels], NEW r \in Rangs, NEW e \in Appels, NEW t \in Fiches,
         NEW m \in Fiches, AccountFollows(en, t, m), en[r].quoi = "aucun",
         e.quoi \in Demandables, e.etat = "parti", e.quoi = "redemander" => e.val = m.pseudo,
         e.quoi = "verifier" => m.pseudo # Nul,
         \A x \in Rangs : en[x].quoi # "aucun" =>
           \/ e.quoi = "nom" /\ en[x].quoi \in Liaisons
           \/ en[x].quoi = "nom" /\ e.quoi \in Liaisons
  PROVE  AccountFollows([en EXCEPT ![r] = e], t, m)
<1> DEFINE f == [en EXCEPT ![r] = e]
<1>1. f[r] = e /\ \A x \in Rangs : x # r => f[x] = en[x]
    OBVIOUS
<1> HIDE DEF f
<1>2. CallsApart(f)
    BY <1>1 DEF AccountFollows, CallsApart, Liaisons
<1>3. NameFollows(f, t, m)
    BY <1>1 DEF AccountFollows, NameFollows
<1>4. LinkFollows(f, t, m)
    BY <1>1 DEF AccountFollows, LinkFollows, Liaisons
<1>5. WholeFollows(f, t)
    BY <1>1 DEF AccountFollows, WholeFollows
<1> QED BY <1>2, <1>3, <1>4, <1>5 DEF AccountFollows, f

\* The server deals with it: u is the account it leaves.
LEMMA CallServed ==
  ASSUME NEW en \in [Rangs -> Appels], NEW r \in Rangs, NEW e \in Appels, NEW t \in Fiches,
         NEW u \in Fiches, NEW m \in Fiches, AccountFollows(en, t, m),
         en[r].quoi \in Demandables, en[r].etat = "parti", e.quoi = en[r].quoi, e.val = en[r].val,
         \/ e.etat = "non" /\ u = t
         \/ e.etat = "oui" /\ e.quoi = "entier" /\ u = t /\ e.lu = t
         \/ /\ e.etat = "oui" /\ e.quoi = "nom" /\ u.nom = e.val
            /\ u.pseudo = t.pseudo /\ u.jeton = t.jeton /\ u.verifie = t.verifie
         \/ /\ e.etat = "oui" /\ e.quoi \in {"lier", "redemander"} /\ u.nom = t.nom
            /\ u.pseudo = e.val /\ u.jeton = e.lu /\ u.verifie = FALSE
         \/ /\ e.etat = "oui" /\ e.quoi = "verifier" /\ u.nom = t.nom
            /\ u.pseudo = t.pseudo /\ u.jeton = 0 /\ u.verifie = TRUE
         \/ /\ e.etat = "oui" /\ e.quoi = "delier" /\ u.nom = t.nom
            /\ u.pseudo = Nul /\ u.jeton = 0 /\ u.verifie = FALSE
  PROVE  AccountFollows([en EXCEPT ![r] = e], u, m)
<1> DEFINE f == [en EXCEPT ![r] = e]
<1>1. f[r] = e /\ \A x \in Rangs : x # r => f[x] = en[x]
    OBVIOUS
<1> HIDE DEF f
<1>2. \A x \in Rangs : f[x].quoi = en[x].quoi /\ f[x].val = en[x].val
    BY <1>1
<1>3. CallsApart(f)
    BY <1>2 DEF AccountFollows, CallsApart
\* Whatever else is under way is of the other kind.
<1>4. \A x \in Rangs : x # r /\ f[x].quoi # "aucun" =>
        \/ e.quoi = "nom" /\ f[x].quoi \in Liaisons
        \/ f[x].quoi = "nom" /\ e.quoi \in Liaisons
    BY <1>1, <1>2 DEF AccountFollows, CallsApart, Demandables, Liaisons
<1>5. CASE e.etat = "non"
    BY <1>1, <1>2, <1>3, <1>5 DEF AccountFollows, NameFollows, LinkFollows, WholeFollows, f
<1>6. CASE e.etat = "oui" /\ e.quoi = "entier"
    BY <1>1, <1>2, <1>3, <1>6
       DEF AccountFollows, NameFollows, LinkFollows, WholeFollows, Liaisons, f
<1>7. CASE e.etat = "oui" /\ e.quoi = "nom"
  <2>1. NameFollows(f, u, m)
      BY <1>1, <1>4, <1>7 DEF NameFollows, Liaisons
  <2>2. LinkFollows(f, u, m)
      BY <1>1, <1>2, <1>7 DEF AccountFollows, LinkFollows, Liaisons
  <2>3. WholeFollows(f, u)
      BY <1>1, <1>4, <1>7 DEF WholeFollows, Liaisons
  <2> QED BY <1>3, <2>1, <2>2, <2>3 DEF AccountFollows, f
<1>8. CASE e.etat = "oui" /\ e.quoi \in Liaisons
  <2>1. u.nom = t.nom
      BY <1>8 DEF Liaisons
  <2>2. NameFollows(f, u, m)
      BY <1>1, <1>2, <1>8, <2>1 DEF AccountFollows, NameFollows, Liaisons
  <2>3. \A x \in Rangs : x # r => f[x].quoi \notin Liaisons
      BY <1>4, <1>8 DEF Liaisons
  <2>4. WholeFollows(f, u)
      BY <1>1, <1>4, <1>8 DEF WholeFollows, Liaisons
  <2>5. m.pseudo = t.pseudo
      BY <1>1, <1>2, <1>4, <1>8 DEF AccountFollows, LinkFollows, Liaisons
  <2>6. LinkFollows(f, u, m)
    <3>1. /\ e.quoi = "redemander" => e.val = m.pseudo
          /\ e.quoi = "verifier" => m.pseudo # Nul
        BY DEF AccountFollows, LinkFollows
    <3>2. ~\A x \in Rangs : ~(f[x].quoi \in Liaisons /\ f[x].etat = "oui")
        BY <1>1, <1>8
    <3> QED BY <1>1, <1>8, <2>3, <2>5, <3>1, <3>2 DEF LinkFollows, Liaisons
  <2> QED BY <1>3, <2>2, <2>4, <2>6 DEF AccountFollows, f
<1> QED BY <1>5, <1>6, <1>7, <1>8 DEF Demandables, Liaisons

\* The answer arrives: n is what the store holds next.
LEMMA CallAnswered ==
  ASSUME NEW en \in [Rangs -> Appels], NEW r \in Rangs, NEW t \in Fiches,
         NEW n \in Fiches, NEW m \in Fiches, AccountFollows(en, t, m),
         en[r].quoi \in Demandables,
         \/ en[r].etat = "non" /\ n = m
         \/ en[r].quoi = "entier" /\ en[r].etat = "oui" /\ n = m
         \/ en[r].etat = "oui" /\ en[r].quoi = "entier" /\ n = en[r].lu
         \/ /\ en[r].etat = "oui" /\ en[r].quoi = "nom" /\ n.nom = en[r].val
            /\ n.pseudo = m.pseudo /\ n.jeton = m.jeton /\ n.verifie = m.verifie
         \/ /\ en[r].etat = "oui" /\ en[r].quoi = "lier" /\ n.nom = m.nom
            /\ n.pseudo = en[r].val /\ n.jeton = en[r].lu /\ n.verifie = FALSE
         \/ /\ en[r].etat = "oui" /\ en[r].quoi = "redemander" /\ n.nom = m.nom
            /\ n.pseudo = m.pseudo /\ n.jeton = en[r].lu /\ n.verifie = FALSE
         \/ /\ en[r].etat = "oui" /\ en[r].quoi = "verifier" /\ n.nom = m.nom
            /\ n.pseudo = m.pseudo /\ n.jeton = 0 /\ n.verifie = TRUE
         \/ /\ en[r].etat = "oui" /\ en[r].quoi = "delier" /\ n.nom = m.nom
            /\ n.pseudo = Nul /\ n.jeton = 0 /\ n.verifie = FALSE
  PROVE  AccountFollows([en EXCEPT ![r] = AppelLibre], t, n)
<1> DEFINE f == [en EXCEPT ![r] = AppelLibre]
<1>1. f[r].quoi = "aucun" /\ \A x \in Rangs : x # r => f[x] = en[x]
    BY DEF AppelLibre
<1> HIDE DEF f
<1>2. CallsApart(f)
    BY <1>1 DEF AccountFollows, CallsApart
<1>3. \A x \in Rangs : x # r /\ f[x].quoi # "aucun" =>
        \/ en[r].quoi = "nom" /\ f[x].quoi \in Liaisons
        \/ f[x].quoi = "nom" /\ en[r].quoi \in Liaisons
    BY <1>1 DEF AccountFollows, CallsApart, Demandables, Liaisons
<1>4. WholeFollows(f, t)
    BY <1>1 DEF AccountFollows, WholeFollows
<1>5. CASE en[r].etat = "non" /\ n = m
    BY <1>1, <1>2, <1>4, <1>5 DEF AccountFollows, NameFollows, LinkFollows, f
<1>6. CASE en[r].etat = "oui" /\ en[r].quoi = "entier"
  <2>1. m.nom = t.nom /\ m.pseudo = t.pseudo /\ m.jeton = t.jeton /\ m.verifie = t.verifie
      BY <1>1, <1>3, <1>6 DEF AccountFollows, NameFollows, LinkFollows, Liaisons
  <2>2. n.nom = t.nom /\ n.pseudo = t.pseudo /\ n.jeton = t.jeton /\ n.verifie = t.verifie
      BY <1>6, <2>1 DEF AccountFollows, WholeFollows
  <2>3. \A x \in Rangs : f[x].quoi = "aucun"
      BY <1>1, <1>3, <1>6 DEF Liaisons
  <2> QED BY <1>2, <1>4, <2>2, <2>3 DEF AccountFollows, NameFollows, LinkFollows, f
<1>7. CASE en[r].etat = "oui" /\ en[r].quoi = "nom"
  <2>1. NameFollows(f, t, n)
      BY <1>1, <1>3, <1>7 DEF AccountFollows, NameFollows, Liaisons
  <2>2. LinkFollows(f, t, n)
      BY <1>1, <1>7 DEF AccountFollows, LinkFollows, Liaisons
  <2> QED BY <1>2, <1>4, <2>1, <2>2 DEF AccountFollows, f
<1>8. CASE en[r].etat = "oui" /\ en[r].quoi \in Liaisons
  <2>1. n.nom = m.nom
      BY <1>8 DEF Liaisons
  <2>2. NameFollows(f, t, n)
      BY <1>1, <1>8, <2>1 DEF AccountFollows, NameFollows, Liaisons
  <2>3. \A x \in Rangs : f[x].quoi \notin Liaisons
      BY <1>1, <1>3, <1>8 DEF Liaisons
  <2>4. n.pseudo = t.pseudo /\ n.jeton = t.jeton /\ n.verifie = t.verifie
      BY <1>8 DEF AccountFollows, LinkFollows, Liaisons
  <2>5. LinkFollows(f, t, n)
      BY <2>3, <2>4 DEF LinkFollows, Liaisons
  <2> QED BY <1>2, <1>4, <2>2, <2>5 DEF AccountFollows, f
<1> QED BY <1>5, <1>6, <1>7, <1>8 DEF Demandables, Liaisons

\* The accounts the server and the store make of one another.
LEMMA NamedOf ==
  ASSUME NEW c \in Fiches, NEW n \in Noms
  PROVE  LET d == [c EXCEPT !.nom = n]
         IN  d \in Fiches /\ d.nom = n /\ d.pseudo = c.pseudo /\ d.jeton = c.jeton /\ d.verifie = c.verifie
BY DEF Fiches

Recle(c, j, b) == [c EXCEPT !.jeton = j, !.verifie = b]

LEMMA KeyedOf ==
  ASSUME NEW c \in Fiches, NEW j \in Nat, NEW b \in BOOLEAN
  PROVE  /\ Recle(c, j, b) \in Fiches /\ Recle(c, j, b).nom = c.nom
         /\ Recle(c, j, b).pseudo = c.pseudo /\ Recle(c, j, b).jeton = j
         /\ Recle(c, j, b).verifie = b
<1> DEFINE g == [c EXCEPT !.jeton = j]
           d == Recle(c, j, b)
<1>1. g \in Fiches /\ g.nom = c.nom /\ g.pseudo = c.pseudo /\ g.jeton = j
    BY DEF Fiches
<1>2. d = [g EXCEPT !.verifie = b]
    BY DEF Recle
<1> HIDE DEF g, d
<1>3. d \in Fiches /\ d.nom = c.nom /\ d.pseudo = c.pseudo /\ d.jeton = j /\ d.verifie = b
    BY <1>1, <1>2 DEF Fiches
<1> QED BY <1>3 DEF d

Relie(c, p, j) == [c EXCEPT !.pseudo = p, !.jeton = j, !.verifie = FALSE]

LEMMA LinkedOf ==
  ASSUME NEW c \in Fiches, NEW p \in {Nul, Pseudo}, NEW j \in Nat
  PROVE  /\ Relie(c, p, j) \in Fiches /\ Relie(c, p, j).nom = c.nom
         /\ Relie(c, p, j).pseudo = p /\ Relie(c, p, j).jeton = j
         /\ Relie(c, p, j).verifie = FALSE
<1> DEFINE g == [c EXCEPT !.pseudo = p]
           d == Relie(c, p, j)
<1>1. g \in Fiches /\ g.nom = c.nom /\ g.pseudo = p
    BY DEF Fiches
<1>2. d = Recle(g, j, FALSE)
    BY DEF Relie, Recle
<1> HIDE DEF g, d
<1>3. d \in Fiches /\ d.nom = c.nom /\ d.pseudo = p /\ d.jeton = j /\ d.verifie = FALSE
    BY <1>1, <1>2, KeyedOf
<1> QED BY <1>3 DEF d

LEMMA SameAccount ==
  ASSUME NEW c \in Fiches, NEW d \in Fiches, c.nom = d.nom, c.pseudo = d.pseudo,
         c.jeton = d.jeton, c.verifie = d.verifie
  PROVE  c = d
BY DEF Fiches

LEMMA FreeCall == AppelLibre \in Appels /\ AppelLibre.quoi = "aucun"
BY DEF AppelLibre, Appels

\* A request takes a form e, at r.
LEMMA CallTypedWith ==
  ASSUME CompteTyped, NEW r \in Rangs, NEW e \in Appels, appels' = [appels EXCEPT ![r] = e],
         titulaire' \in Fiches, magasin' \in Fiches, jetons' \in Nat, heurtes' \in BOOLEAN,
         e.quoi = "aucun" => e = AppelLibre,
         e.quoi = "nom" => e.val \in Noms,
         e.quoi \in {"lier", "redemander"} => e.val \in {Nul, Pseudo},
         e.quoi \in {"lier", "redemander"} /\ e.etat = "oui" => e.lu \in Nat,
         e.quoi = "entier" /\ e.etat = "oui" => e.lu \in Fiches
  PROVE  CompteTyped'
<1>1. appels' \in [Rangs -> Appels]
    BY DEF CompteTyped
<1>2. appels'[r] = e /\ \A x \in Rangs : x # r => appels'[x] = appels[x]
    BY DEF CompteTyped
<1> QED BY <1>1, <1>2 DEF CompteTyped

LEMMA NoCallIsFree ==
  ASSUME CompteTyped, NEW x \in Rangs
  PROVE  appels[x] = AppelLibre <=> appels[x].quoi = "aucun"
BY FreeCall DEF CompteTyped

LEMMA CallFollows ==
  ASSUME CompteInv, NEW quoi \in Demandables, NEW val \in Noms \cup {Nul, Pseudo},
         quoi = "nom" => val \in Noms, quoi = "lier" => val \in {Nul, Pseudo},
         quoi = "redemander" => val = magasin.pseudo, Solliciter(quoi, val)
  PROVE  CompteInv'
<1>1. CompteTyped /\ magasin.pseudo \in {Nul, Pseudo}
    BY DEF CompteInv, CompteTyped, Fiches
<1>2. PICK r \in Rangs :
        /\ appels[r] = AppelLibre
        /\ appels' = [appels EXCEPT ![r] = [AppelLibre EXCEPT !.quoi = quoi, !.val = val,
                                                              !.etat = "parti"]]
    BY DEF Solliciter
<1> DEFINE e == [AppelLibre EXCEPT !.quoi = quoi, !.val = val, !.etat = "parti"]
<1>3. e = [quoi |-> quoi, val |-> val, etat |-> "parti", lu |-> Nul]
  <2> DEFINE e1 == [AppelLibre EXCEPT !.quoi = quoi]
             e2 == [e1 EXCEPT !.val = val]
  <2>1. e1 = [quoi |-> quoi, val |-> Nul, etat |-> "aucun", lu |-> Nul]
      BY DEF AppelLibre
  <2>2. e = [[e1 EXCEPT !.val = val] EXCEPT !.etat = "parti"]
      OBVIOUS
  <2> HIDE DEF e1, e
  <2>3. e2 = [quoi |-> quoi, val |-> val, etat |-> "aucun", lu |-> Nul]
      BY <2>1
  <2>4. e = [e2 EXCEPT !.etat = "parti"]
      BY <2>2
  <2> HIDE DEF e2
  <2> QED BY <2>3, <2>4
<1>4. e \in Appels /\ e.quoi = quoi /\ e.val = val /\ e.etat = "parti"
    BY <1>3 DEF Appels
<1>5. appels' = [appels EXCEPT ![r] = e] /\ appels[r].quoi = "aucun"
    BY <1>2, FreeCall
<1> HIDE DEF e
<1>6. /\ heurtes' = (heurtes \/ \E q \in Lances : Heurte(quoi, q))
      /\ UNCHANGED <<titulaire, magasin, jetons>> /\ Offert(quoi)
    BY DEF Solliciter
<1>7. heurtes' \in BOOLEAN
    BY <1>6
<1>8. CompteTyped'
  <2>1. titulaire' \in Fiches /\ magasin' \in Fiches /\ jetons' \in Nat
      BY <1>1, <1>6 DEF CompteTyped
  <2>2. quoi # "aucun"
      BY DEF Demandables, Liaisons
  <2> QED BY <1>1, <1>4, <1>5, <1>7, <2>1, <2>2, CallTypedWith
<1>9. ASSUME ~heurtes'
      PROVE  AccountFollows(appels', titulaire', magasin')
  <2>1. ~heurtes /\ \A q \in Lances : ~Heurte(quoi, q)
      BY <1>6, <1>9
  <2>2. ASSUME NEW x \in Rangs, appels[x].quoi # "aucun"
        PROVE  \/ e.quoi = "nom" /\ appels[x].quoi \in Liaisons
               \/ appels[x].quoi = "nom" /\ e.quoi \in Liaisons
    <3>1. appels[x].quoi \in Lances
        BY <1>1, <2>2, NoCallIsFree DEF Lances
    <3>2. ~Heurte(quoi, appels[x].quoi)
        BY <2>1, <3>1
    <3>3. appels[x].quoi \in Demandables
        BY <1>1, <2>2 DEF CompteTyped, Appels
    <3>4. quoi # "entier" /\ appels[x].quoi # "entier"
        BY <3>2 DEF Heurte
    <3>5. quoi = "delier" => appels[x].quoi = "nom"
        BY <3>2 DEF Heurte
    <3>6. appels[x].quoi = "delier" => quoi = "nom"
        BY <3>2 DEF Heurte
    <3>7. quoi = "nom" => appels[x].quoi # "nom"
        BY <1>6, <3>1 DEF Offert
    <3>8. quoi \in {"lier", "redemander", "verifier"} =>
            appels[x].quoi \notin {"lier", "redemander"}
        BY <1>6, <3>1 DEF Offert
    <3>9. quoi \in {"redemander", "verifier"} => appels[x].quoi # "verifier"
        BY <1>6, <3>1 DEF Offert
    <3>10. ~(quoi = "lier" /\ appels[x].quoi = "verifier")
      <4>1. AccountFollows(appels, titulaire, magasin)
          BY <2>1 DEF CompteInv
      <4> QED BY <1>6, <4>1 DEF Offert, AccountFollows, LinkFollows
    <3> QED BY <1>4, <3>3, <3>4, <3>5, <3>6, <3>7, <3>8, <3>9, <3>10 DEF Demandables, Liaisons
  <2>3. AccountFollows(appels, titulaire, magasin)
      BY <2>1 DEF CompteInv
  <2>4. appels \in [Rangs -> Appels] /\ titulaire \in Fiches /\ magasin \in Fiches
      BY <1>1 DEF CompteTyped
  <2>5. quoi = "verifier" => magasin.pseudo # Nul
      BY <1>6 DEF Offert, EnAttente
  <2>6. AccountFollows([appels EXCEPT ![r] = e], titulaire, magasin)
      BY <1>4, <1>5, <2>2, <2>3, <2>4, <2>5, CallSent
  <2> QED BY <1>5, <1>6, <2>6
<1> QED BY <1>8, <1>9 DEF CompteInv

LEMMA GrantFollows ==
  ASSUME CompteInv, NEW r \in Rangs, AppelTraite(r)
  PROVE  CompteInv'
<1> DEFINE q == appels[r]
<1>1. CompteTyped /\ q \in Appels /\ q.etat = "parti" /\ UNCHANGED <<magasin, heurtes>>
    BY DEF CompteInv, CompteTyped, AppelTraite
<1>2. q.quoi \in Demandables
    BY <1>1 DEF CompteTyped, Appels, AppelLibre
<1>3. appels \in [Rangs -> Appels] /\ titulaire \in Fiches /\ magasin \in Fiches
    BY <1>1 DEF CompteTyped
\* What is left to show once e, and the account, are known.
<1>4. ASSUME NEW e \in Appels, appels' = [appels EXCEPT ![r] = e], e.quoi = q.quoi, e.val = q.val,
             titulaire' \in Fiches, jetons' \in Nat,
             \/ e.etat = "non" /\ titulaire' = titulaire
             \/ e.etat = "oui" /\ e.quoi = "entier" /\ titulaire' = titulaire /\ e.lu = titulaire
             \/ /\ e.etat = "oui" /\ e.quoi = "nom" /\ titulaire'.nom = e.val
                /\ titulaire'.pseudo = titulaire.pseudo /\ titulaire'.jeton = titulaire.jeton
                /\ titulaire'.verifie = titulaire.verifie
             \/ /\ e.etat = "oui" /\ e.quoi \in {"lier", "redemander"} /\ titulaire'.nom = titulaire.nom
                /\ titulaire'.pseudo = e.val /\ titulaire'.jeton = e.lu /\ titulaire'.verifie = FALSE
             \/ /\ e.etat = "oui" /\ e.quoi = "verifier" /\ titulaire'.nom = titulaire.nom
                /\ titulaire'.pseudo = titulaire.pseudo /\ titulaire'.jeton = 0
                /\ titulaire'.verifie = TRUE
             \/ /\ e.etat = "oui" /\ e.quoi = "delier" /\ titulaire'.nom = titulaire.nom
                /\ titulaire'.pseudo = Nul /\ titulaire'.jeton = 0 /\ titulaire'.verifie = FALSE
      PROVE  CompteInv'
  <2>1. CompteTyped'
    <3>1. /\ q.quoi # "aucun"
          /\ q.quoi = "nom" => q.val \in Noms
          /\ q.quoi \in {"lier", "redemander"} => q.val \in {Nul, Pseudo}
        BY <1>1, <1>2 DEF CompteTyped, Demandables, Liaisons
    <3>2. e.quoi \in {"lier", "redemander"} /\ e.etat = "oui" => e.lu \in Nat
      <4>1. titulaire'.jeton \in Nat
          BY <1>4 DEF Fiches
      <4> QED BY <1>4, <4>1
    <3>3. e.quoi = "entier" /\ e.etat = "oui" => e.lu \in Fiches
        BY <1>3, <1>4
    <3>4. magasin' \in Fiches /\ heurtes' \in BOOLEAN
        BY <1>1 DEF CompteTyped
    <3> HIDE DEF q
    <3> QED BY <1>1, <1>4, <3>1, <3>2, <3>3, <3>4, CallTypedWith
  <2>2. ASSUME ~heurtes
        PROVE  AccountFollows(appels', titulaire', magasin')
    <3>1. AccountFollows(appels, titulaire, magasin)
        BY <2>2 DEF CompteInv
    <3>2. AccountFollows([appels EXCEPT ![r] = e], titulaire', magasin)
        BY <1>1, <1>2, <1>3, <1>4, <3>1, CallServed
    <3> QED BY <1>1, <1>4, <3>2
  <2> QED BY <1>1, <2>1, <2>2 DEF CompteInv
<1>5. ASSUME appels' = [appels EXCEPT ![r].etat = "oui"]
      PROVE  \E e \in Appels : /\ appels' = [appels EXCEPT ![r] = e]
                               /\ e.quoi = q.quoi /\ e.val = q.val /\ e.etat = "oui"
  <2> DEFINE e == [q EXCEPT !.etat = "oui"]
  <2>1. appels' = [appels EXCEPT ![r] = e]
      BY <1>3, <1>5
  <2>2. e \in Appels /\ e.quoi = q.quoi /\ e.val = q.val /\ e.etat = "oui"
      BY <1>1 DEF Appels
  <2> HIDE DEF e
  <2> QED BY <2>1, <2>2
<1>6. ASSUME NEW u, u \in Nat \/ u \in Fiches, appels' = [appels EXCEPT ![r].etat = "oui", ![r].lu = u]
      PROVE  \E e \in Appels : /\ appels' = [appels EXCEPT ![r] = e]
                               /\ e.quoi = q.quoi /\ e.val = q.val /\ e.etat = "oui" /\ e.lu = u
  <2> DEFINE e == [q EXCEPT !.etat = "oui", !.lu = u]
  <2>1. [appels EXCEPT ![r].etat = "oui", ![r].lu = u] = [appels EXCEPT ![r] = e]
      BY <1>3
  <2>2. appels' = [appels EXCEPT ![r] = e]
      BY <1>6, <2>1
  <2>3. e \in Appels
      BY <1>1, <1>6 DEF Appels
  <2>4. e.quoi = q.quoi /\ e.val = q.val /\ e.etat = "oui" /\ e.lu = u
      BY <1>1 DEF Appels
  <2> HIDE DEF e
  <2> QED BY <2>2, <2>3, <2>4
<1>7. jetons \in Nat
    BY <1>1 DEF CompteTyped
<1>8. CASE /\ q.quoi = "nom" /\ titulaire' = [titulaire EXCEPT !.nom = q.val]
           /\ appels' = [appels EXCEPT ![r].etat = "oui"] /\ UNCHANGED jetons
  <2>1. PICK e \in Appels : /\ appels' = [appels EXCEPT ![r] = e]
                            /\ e.quoi = q.quoi /\ e.val = q.val /\ e.etat = "oui"
      BY <1>5, <1>8
  <2>2. q.val \in Noms
      BY <1>1, <1>8 DEF CompteTyped
  <2>3. /\ titulaire' \in Fiches /\ titulaire'.nom = e.val
        /\ titulaire'.pseudo = titulaire.pseudo /\ titulaire'.jeton = titulaire.jeton
        /\ titulaire'.verifie = titulaire.verifie
      BY <1>3, <1>8, <2>1, <2>2, NamedOf
  <2> QED BY <1>4, <1>7, <1>8, <2>1, <2>3
<1>9. CASE /\ q.quoi \in {"lier", "redemander"} /\ jetons' = jetons + 1
           /\ titulaire' = [titulaire EXCEPT !.pseudo = q.val, !.jeton = jetons + 1, !.verifie = FALSE]
           /\ appels' = [appels EXCEPT ![r].etat = "oui", ![r].lu = jetons + 1]
  <2>1. jetons + 1 \in Nat
      BY <1>7
  <2>2. PICK e \in Appels : /\ appels' = [appels EXCEPT ![r] = e]
                            /\ e.quoi = q.quoi /\ e.val = q.val /\ e.etat = "oui" /\ e.lu = jetons + 1
      BY <1>6, <1>9, <2>1
  <2>3. q.val \in {Nul, Pseudo}
      BY <1>1, <1>9 DEF CompteTyped
  <2>4. /\ titulaire' \in Fiches /\ titulaire'.nom = titulaire.nom
        /\ titulaire'.pseudo = e.val /\ titulaire'.jeton = e.lu /\ titulaire'.verifie = FALSE
    <3>1. titulaire' = Relie(titulaire, q.val, jetons + 1)
        BY <1>9 DEF Relie
    <3> QED BY <1>3, <2>1, <2>2, <2>3, <3>1, LinkedOf
  <2> QED BY <1>4, <1>9, <2>1, <2>2, <2>4
<1>10. CASE /\ q.quoi = "verifier" /\ titulaire' = [titulaire EXCEPT !.jeton = 0, !.verifie = TRUE]
            /\ appels' = [appels EXCEPT ![r].etat = "oui"] /\ UNCHANGED jetons
  <2>1. PICK e \in Appels : /\ appels' = [appels EXCEPT ![r] = e]
                            /\ e.quoi = q.quoi /\ e.val = q.val /\ e.etat = "oui"
      BY <1>5, <1>10
  <2>2. /\ titulaire' \in Fiches /\ titulaire'.nom = titulaire.nom
        /\ titulaire'.pseudo = titulaire.pseudo /\ titulaire'.jeton = 0 /\ titulaire'.verifie = TRUE
    <3>1. titulaire' = Recle(titulaire, 0, TRUE)
        BY <1>10 DEF Recle
    <3>2. 0 \in Nat /\ TRUE \in BOOLEAN
        OBVIOUS
    <3> QED BY <1>3, <3>1, <3>2, KeyedOf
  <2> QED BY <1>4, <1>7, <1>10, <2>1, <2>2
<1>11. CASE /\ q.quoi = "delier" /\ titulaire' = NonLie(titulaire)
            /\ appels' = [appels EXCEPT ![r].etat = "oui"] /\ UNCHANGED jetons
  <2>1. PICK e \in Appels : /\ appels' = [appels EXCEPT ![r] = e]
                            /\ e.quoi = q.quoi /\ e.val = q.val /\ e.etat = "oui"
      BY <1>5, <1>11
  <2>2. /\ titulaire' \in Fiches /\ titulaire'.nom = titulaire.nom
        /\ titulaire'.pseudo = Nul /\ titulaire'.jeton = 0 /\ titulaire'.verifie = FALSE
    <3>1. titulaire' = Relie(titulaire, Nul, 0)
        BY <1>11 DEF NonLie, Relie
    <3>2. Nul \in {Nul, Pseudo} /\ 0 \in Nat
        OBVIOUS
    <3> QED BY <1>3, <3>1, <3>2, LinkedOf
  <2> QED BY <1>4, <1>7, <1>11, <2>1, <2>2
<1>12. CASE /\ q.quoi = "entier" /\ appels' = [appels EXCEPT ![r].etat = "oui", ![r].lu = titulaire]
            /\ UNCHANGED <<titulaire, jetons>>
  <2>1. PICK e \in Appels : /\ appels' = [appels EXCEPT ![r] = e]
                            /\ e.quoi = q.quoi /\ e.val = q.val /\ e.etat = "oui" /\ e.lu = titulaire
    <3>1. titulaire \in Nat \/ titulaire \in Fiches
        BY <1>3
    <3> QED BY <1>6, <1>12, <3>1
  <2> QED BY <1>3, <1>4, <1>7, <1>12, <2>1
<1>13. CASE appels' = [appels EXCEPT ![r].etat = "non"] /\ UNCHANGED <<titulaire, jetons>>
  <2> DEFINE e == [q EXCEPT !.etat = "non"]
  <2>1. appels' = [appels EXCEPT ![r] = e]
      BY <1>3, <1>13
  <2>2. e \in Appels /\ e.quoi = q.quoi /\ e.val = q.val /\ e.etat = "non"
      BY <1>1 DEF Appels
  <2> HIDE DEF e
  <2> QED BY <1>3, <1>4, <1>7, <1>13, <2>1, <2>2
<1> QED BY <1>8, <1>9, <1>10, <1>11, <1>12, <1>13 DEF AppelTraite

LEMMA ReplyFollows ==
  ASSUME CompteInv, NEW r \in Rangs, AppelRepond(r)
  PROVE  CompteInv'
<1> DEFINE q == appels[r]
<1>1. CompteTyped /\ q \in Appels /\ q.etat \in {"oui", "non"} /\ UNCHANGED <<titulaire, jetons>>
      /\ appels' = [appels EXCEPT ![r] = AppelLibre]
    BY DEF CompteInv, CompteTyped, AppelRepond
<1>2. q.quoi \in Demandables
    BY <1>1 DEF CompteTyped, Appels, AppelLibre
<1>3. appels \in [Rangs -> Appels] /\ titulaire \in Fiches /\ magasin \in Fiches
      /\ jetons \in Nat /\ heurtes \in BOOLEAN
    BY <1>1 DEF CompteTyped
<1>4. ASSUME magasin' \in Fiches, heurtes' \in BOOLEAN, ~heurtes' => ~heurtes,
             ~heurtes' =>
               \/ q.etat = "non" /\ magasin' = magasin
               \/ q.quoi = "entier" /\ q.etat = "oui" /\ magasin' = magasin
               \/ q.etat = "oui" /\ q.quoi = "entier" /\ magasin' = q.lu
               \/ /\ q.etat = "oui" /\ q.quoi = "nom" /\ magasin'.nom = q.val
                  /\ magasin'.pseudo = magasin.pseudo /\ magasin'.jeton = magasin.jeton
                  /\ magasin'.verifie = magasin.verifie
               \/ /\ q.etat = "oui" /\ q.quoi = "lier" /\ magasin'.nom = magasin.nom
                  /\ magasin'.pseudo = q.val /\ magasin'.jeton = q.lu /\ magasin'.verifie = FALSE
               \/ /\ q.etat = "oui" /\ q.quoi = "redemander" /\ magasin'.nom = magasin.nom
                  /\ magasin'.pseudo = magasin.pseudo /\ magasin'.jeton = q.lu
                  /\ magasin'.verifie = FALSE
               \/ /\ q.etat = "oui" /\ q.quoi = "verifier" /\ magasin'.nom = magasin.nom
                  /\ magasin'.pseudo = magasin.pseudo /\ magasin'.jeton = 0 /\ magasin'.verifie = TRUE
               \/ /\ q.etat = "oui" /\ q.quoi = "delier" /\ magasin'.nom = magasin.nom
                  /\ magasin'.pseudo = Nul /\ magasin'.jeton = 0 /\ magasin'.verifie = FALSE
      PROVE  CompteInv'
  <2>1. CompteTyped'
    <3>1. titulaire' \in Fiches /\ jetons' \in Nat
        BY <1>1, <1>3
    <3>2. AppelLibre.quoi # "nom" /\ AppelLibre.quoi \notin {"lier", "redemander"}
          /\ AppelLibre.quoi # "entier"
        BY FreeCall
    <3> QED BY <1>1, <1>4, <3>1, <3>2, FreeCall, CallTypedWith
  <2>2. ASSUME ~heurtes'
        PROVE  AccountFollows(appels', titulaire', magasin')
    <3>1. AccountFollows(appels, titulaire, magasin)
        BY <1>4, <2>2 DEF CompteInv
    <3>2. AccountFollows([appels EXCEPT ![r] = AppelLibre], titulaire, magasin')
        BY <1>2, <1>3, <1>4, <2>2, <3>1, CallAnswered
    <3> QED BY <1>1, <3>2
  <2> QED BY <2>1, <2>2 DEF CompteInv
<1>5. CASE q.etat = "oui" /\ magasin' = ApresAppel(q) /\ UNCHANGED heurtes
  <2>1. CASE q.quoi = "nom"
    <3>1. magasin' = [magasin EXCEPT !.nom = q.val] /\ q.val \in Noms
        BY <1>1, <1>5, <2>1 DEF ApresAppel, CompteTyped
    <3>2. /\ magasin' \in Fiches /\ magasin'.nom = q.val /\ magasin'.pseudo = magasin.pseudo
          /\ magasin'.jeton = magasin.jeton /\ magasin'.verifie = magasin.verifie
        BY <1>3, <3>1, NamedOf
    <3> QED BY <1>3, <1>4, <1>5, <2>1, <3>2
  <2>2. CASE q.quoi = "lier"
    <3>1. magasin' = Relie(magasin, q.val, q.lu) /\ q.val \in {Nul, Pseudo} /\ q.lu \in Nat
        BY <1>1, <1>5, <2>2 DEF ApresAppel, CompteTyped, Relie
    <3>2. /\ magasin' \in Fiches /\ magasin'.nom = magasin.nom /\ magasin'.pseudo = q.val
          /\ magasin'.jeton = q.lu /\ magasin'.verifie = FALSE
        BY <1>3, <3>1, LinkedOf
    <3> QED BY <1>3, <1>4, <1>5, <2>2, <3>2
  <2>3. CASE q.quoi = "redemander"
    <3>1. magasin' = Recle(magasin, q.lu, FALSE) /\ q.lu \in Nat
        BY <1>1, <1>5, <2>3 DEF ApresAppel, CompteTyped, Recle
    <3>2. /\ magasin' \in Fiches /\ magasin'.nom = magasin.nom /\ magasin'.pseudo = magasin.pseudo
          /\ magasin'.jeton = q.lu /\ magasin'.verifie = FALSE
        BY <1>3, <3>1, KeyedOf
    <3> QED BY <1>3, <1>4, <1>5, <2>3, <3>2
  <2>4. CASE q.quoi = "verifier"
    <3>1. magasin' = Recle(magasin, 0, TRUE)
        BY <1>5, <2>4 DEF ApresAppel, Recle
    <3>2. /\ magasin' \in Fiches /\ magasin'.nom = magasin.nom /\ magasin'.pseudo = magasin.pseudo
          /\ magasin'.jeton = 0 /\ magasin'.verifie = TRUE
        BY <1>3, <3>1, KeyedOf
    <3> QED BY <1>3, <1>4, <1>5, <2>4, <3>2
  <2>5. CASE q.quoi = "delier"
    <3>1. magasin' = Relie(magasin, Nul, 0)
        BY <1>5, <2>5 DEF ApresAppel, NonLie, Relie
    <3>2. /\ magasin' \in Fiches /\ magasin'.nom = magasin.nom /\ magasin'.pseudo = Nul
          /\ magasin'.jeton = 0 /\ magasin'.verifie = FALSE
      <4>1. Nul \in {Nul, Pseudo} /\ 0 \in Nat
          OBVIOUS
      <4> QED BY <1>3, <3>1, <4>1, LinkedOf
    <3> QED BY <1>3, <1>4, <1>5, <2>5, <3>2
  <2>6. CASE q.quoi = "entier"
    <3>1. magasin' = q.lu /\ q.lu \in Fiches
        BY <1>1, <1>5, <2>6 DEF ApresAppel, CompteTyped
    <3> QED BY <1>3, <1>4, <1>5, <2>6, <3>1
  <2> QED BY <1>2, <2>1, <2>2, <2>3, <2>4, <2>5, <2>6 DEF Demandables, Liaisons
<1>6. CASE UNCHANGED magasin /\ heurtes' = (heurtes \/ (q.etat = "oui" /\ q.quoi # "entier"))
  <2>1. heurtes' \in BOOLEAN
      BY <1>6
  <2>2. ~heurtes' => ~heurtes /\ (q.etat = "non" \/ q.quoi = "entier")
      BY <1>1, <1>6
  <2> QED BY <1>1, <1>3, <1>4, <1>6, <2>1, <2>2
<1> QED BY <1>5, <1>6 DEF AppelRepond

\* The account is read anew with nothing under way.
LEMMA ReloadFollows ==
  ASSUME CompteTyped', titulaire' = magasin', \A r \in Rangs : appels'[r].quoi = "aucun"
  PROVE  CompteInv'
BY DEF CompteInv, AccountFollows, CallsApart, NameFollows, LinkFollows, WholeFollows

\* Whatever is asked, refused, lost or answered out of order: the settings page
\* ends on the account and on the sources the server holds, for any names,
\* sources, labels and keys and any number of requests at a time, but for the
\* pairs of requests Heurte names and what each source's history sets apart.
THEOREM SettingsAreHeldAlways == ReglagesSpec => []SettingsAreHeld
<1>1. ReglagesInit => CompteInv /\ SourcesInv
  <2>1. SUFFICES ASSUME ReglagesInit PROVE CompteInv
      BY SourcesStart
  <2>2. PICK n \in Noms : titulaire = [nom |-> n, pseudo |-> Nul, jeton |-> 0, verifie |-> FALSE]
      BY <2>1 DEF ReglagesInit
  <2>3. titulaire \in Fiches
      BY <2>2 DEF Fiches
  <2>4. /\ magasin = titulaire /\ jetons = 0 /\ heurtes = FALSE
        /\ appels = [r \in Rangs |-> AppelLibre]
      BY <2>1 DEF ReglagesInit
  <2>5. CompteTyped
      BY <2>3, <2>4, FreeCall DEF CompteTyped
  <2>6. \A r \in Rangs : appels[r].quoi = "aucun"
      BY <2>4, FreeCall
  <2> QED BY <2>4, <2>5, <2>6
          DEF CompteInv, AccountFollows, CallsApart, NameFollows, LinkFollows, WholeFollows, Liaisons
<1>2. ASSUME CompteInv, SourcesInv, [ReglagesNext]_reglagesVars PROVE CompteInv' /\ SourcesInv'
  <2>1. ASSUME UNCHANGED sourcesVars PROVE SourcesInv'
      BY <1>2, <2>1 DEF sourcesVars, SourcesInv, SourcesTyped
  <2>2. ASSUME UNCHANGED compteVars PROVE CompteInv'
      BY <1>2, <2>2 DEF compteVars, CompteInv, CompteTyped
  <2>3. ASSUME CompteNext PROVE CompteInv'
    <3>0. magasin.pseudo \in {Nul, Pseudo}
        BY <1>2 DEF CompteInv, CompteTyped, Fiches
    <3>1. ASSUME NEW n \in Noms, Solliciter("nom", n) PROVE CompteInv'
        BY <1>2, <3>1, CallFollows DEF Demandables
    <3>2. CASE Solliciter("lier", Pseudo)
        BY <1>2, <3>2, CallFollows DEF Demandables, Liaisons
    <3>3. CASE Solliciter("redemander", magasin.pseudo)
      <4>1. magasin.pseudo \in Noms \cup {Nul, Pseudo} /\ "redemander" \in Demandables
          BY <3>0 DEF Demandables, Liaisons
      <4> QED BY <1>2, <3>3, <4>1, CallFollows
    <3>4. CASE Solliciter("verifier", Nul)
        BY <1>2, <3>4, CallFollows DEF Demandables, Liaisons
    <3>5. CASE Solliciter("delier", Nul)
        BY <1>2, <3>5, CallFollows DEF Demandables, Liaisons
    <3>6. CASE Solliciter("entier", Nul)
        BY <1>2, <3>6, CallFollows DEF Demandables, Liaisons
    <3>7. ASSUME NEW r \in Rangs, AppelTraite(r) PROVE CompteInv'
        BY <1>2, <3>7, GrantFollows
    <3>8. ASSUME NEW r \in Rangs, AppelRepond(r) PROVE CompteInv'
        BY <1>2, <3>8, ReplyFollows
    <3>9. CASE RechargerCompte
      <4>1. /\ Lances = {} /\ magasin' = titulaire /\ heurtes' = FALSE
            /\ UNCHANGED <<titulaire, jetons, appels>>
          BY <3>9 DEF RechargerCompte
      <4>2. \A r \in Rangs : appels[r].quoi = "aucun"
          BY <1>2, <4>1, NoCallIsFree DEF Lances, CompteInv
      <4>3. CompteTyped'
          BY <1>2, <4>1 DEF CompteInv, CompteTyped
      <4> QED BY <4>1, <4>2, <4>3, ReloadFollows
    <3> QED BY <2>3, <3>1, <3>2, <3>3, <3>4, <3>5, <3>6, <3>7, <3>8, <3>9 DEF CompteNext
  <2>4. ASSUME SourcesNext PROVE SourcesInv'
      BY <1>2, <2>4, LoadFollows, AdditionFollows, RenamingFollows, RemovalFollows, ServiceFollows,
         AnswerFollows, FailureFollows DEF SourcesNext
  <2>5. CASE UNCHANGED reglagesVars
      BY <2>1, <2>2, <2>5 DEF reglagesVars, sourcesVars, compteVars
  <2> QED BY <1>2, <2>1, <2>2, <2>3, <2>4, <2>5 DEF ReglagesNext
<1>3. CompteInv /\ SourcesInv => SettingsAreHeld
  <2>1. SUFFICES ASSUME CompteInv, SourcesInv PROVE SettingsAreHeld
      OBVIOUS
  <2>2. ASSUME Lances = {}, ~heurtes PROVE magasin = titulaire
    <3>1. \A r \in Rangs : appels[r].quoi = "aucun"
        BY <2>1, <2>2, NoCallIsFree DEF Lances, CompteInv
    <3>2. magasin.nom = titulaire.nom /\ magasin.pseudo = titulaire.pseudo
          /\ magasin.jeton = titulaire.jeton /\ magasin.verifie = titulaire.verifie
        BY <2>1, <2>2, <3>1 DEF CompteInv, AccountFollows, NameFollows, LinkFollows, Liaisons
    <3> QED BY <2>1, <3>2, SameAccount DEF CompteInv, CompteTyped
  <2>3. ASSUME NEW s \in Suivies, Partis = {}, s \notin heurtees PROVE affichees[s] = suivi[s]
    <3>1. \A r \in Rangs : envois[r].quoi = "aucun"
        BY <2>1, <2>3, NoneIsFree DEF Partis, SourcesInv
    <3>2. SourceFollows(envois, s, affichees[s], suivi[s], retenues[s])
        BY <2>1, <2>3 DEF SourcesInv
    <3> QED BY <3>1, <3>2 DEF SourceFollows, GoneIsTold, LabelFollows, Calme, RemovalGranted
  <2> QED BY <2>2, <2>3 DEF SettingsAreHeld
<1> QED BY <1>1, <1>2, <1>3, PTL DEF ReglagesSpec

-----------------------------------------------------------------------------
(* The page of a playlist.  While nothing has crossed it has one request at *)
(* most, and ListeInv says for each kind what is still owed to the screen:  *)
(* nothing, a list being read, a mix already taken off, a title.            *)

LEMMA OneOff ==
  ASSUME NEW T, NEW s \in Seq(T), NEW i \in DOMAIN s
  PROVE  /\ RemoveAt(s, i) \in Seq(T) /\ Len(RemoveAt(s, i)) = Len(s) - 1
         /\ \A k \in 1..(Len(s) - 1) : RemoveAt(s, i)[k] = IF k < i THEN s[k] ELSE s[k + 1]
<1> DEFINE a == SubSeq(s, 1, i - 1)  b == SubSeq(s, i + 1, Len(s))
<1>0. Len(s) \in Nat /\ i \in 1..Len(s) /\ \A k \in 1..Len(s) : s[k] \in T
  BY LenProperties, ElementOfSeq
<1>1. a \in Seq(T) /\ Len(a) = i - 1 /\ \A k \in 1..(i - 1) : a[k] = s[k]
  <2>1. \A k \in 1..(i - 1) : s[k] \in T
    BY <1>0
  <2> QED BY <1>0, <2>1, SubSeqProperties
<1>2. b \in Seq(T) /\ Len(b) = Len(s) - i /\ \A k \in 1..(Len(s) - i) : b[k] = s[k + i]
  <2>1. \A k \in (i + 1)..Len(s) : s[k] \in T
    BY <1>0
  <2>2. b \in Seq(T) /\ Len(b) = (IF i + 1 <= Len(s) THEN Len(s) - (i + 1) + 1 ELSE 0)
        /\ \A k \in 1..(Len(s) - (i + 1) + 1) : b[k] = s[i + 1 + k - 1]
    BY <1>0, <2>1, SubSeqProperties
  <2>3. \A k \in 1..(Len(s) - i) : i + 1 + k - 1 = k + i
    BY <1>0
  <2> QED BY <1>0, <2>2, <2>3
<1> HIDE DEF a, b
<1>3. RemoveAt(s, i) = a \o b
  BY DEF RemoveAt, a, b
<1>4. a \o b \in Seq(T) /\ Len(a \o b) = Len(a) + Len(b)
      /\ \A k \in 1..(Len(a) + Len(b)) : (a \o b)[k] = IF k <= Len(a) THEN a[k] ELSE b[k - Len(a)]
  BY <1>1, <1>2, ConcatProperties
<1>5. Len(a) = i - 1 /\ Len(b) = Len(s) - i /\ Len(s) \in Nat /\ i \in 1..Len(s)
  BY <1>0, <1>1, <1>2
<1>6. Len(a) + Len(b) = Len(s) - 1
  BY <1>5
<1>7. ASSUME NEW k \in 1..(Len(s) - 1)
      PROVE  (a \o b)[k] = IF k < i THEN s[k] ELSE s[k + 1]
  <2>0. (a \o b)[k] = IF k <= i - 1 THEN a[k] ELSE b[k - (i - 1)]
    BY <1>4, <1>5, <1>6
  <2>1. CASE k < i
    <3>1. k \in 1..(i - 1) /\ k <= i - 1
      BY <1>5, <2>1
    <3> QED BY <1>1, <2>0, <2>1, <3>1
  <2>2. CASE ~(k < i)
    <3>1. k - (i - 1) \in 1..(Len(s) - i) /\ k - (i - 1) + i = k + 1 /\ ~(k <= i - 1)
      BY <1>5, <2>2
    <3> QED BY <1>2, <2>0, <2>2, <3>1
  <2> QED BY <2>1, <2>2
<1> QED BY <1>3, <1>4, <1>6, <1>7

LEMMA BackInPlace ==
  ASSUME NEW T, NEW s \in Seq(T), NEW i \in DOMAIN s, NEW r, r = RemoveAt(s, i)
  PROVE  InsertAt(r, IF i > Len(r) THEN Len(r) + 1 ELSE i, s[i]) = s
<1>0. Len(s) \in Nat /\ i \in 1..Len(s) /\ \A k \in 1..Len(s) : s[k] \in T
  BY LenProperties, ElementOfSeq
<1>1. r \in Seq(T) /\ Len(r) = Len(s) - 1
      /\ \A k \in 1..(Len(s) - 1) : r[k] = IF k < i THEN s[k] ELSE s[k + 1]
  BY OneOff
<1>2. (IF i > Len(r) THEN Len(r) + 1 ELSE i) = i
  BY <1>0, <1>1
<1> DEFINE a == SubSeq(r, 1, i - 1)  b == SubSeq(r, i, Len(r))  e == <<s[i]>>
<1>3. a \in Seq(T) /\ Len(a) = i - 1 /\ \A k \in 1..(i - 1) : a[k] = s[k]
  <2>1. \A k \in 1..(i - 1) : r[k] \in T /\ r[k] = s[k]
    BY <1>0, <1>1
  <2> QED BY <1>0, <1>1, <2>1, SubSeqProperties
<1>4. b \in Seq(T) /\ Len(b) = Len(s) - i /\ \A k \in 1..(Len(s) - i) : b[k] = s[k + i]
  <2>1. \A k \in i..Len(r) : r[k] \in T /\ r[k] = s[k + 1]
    BY <1>0, <1>1
  <2>2. b \in Seq(T) /\ Len(b) = (IF i <= Len(r) THEN Len(r) - i + 1 ELSE 0)
        /\ \A k \in 1..(Len(r) - i + 1) : b[k] = r[i + k - 1]
    BY <1>0, <1>1, <2>1, SubSeqProperties
  <2>3. \A k \in 1..(Len(s) - i) : i + k - 1 \in i..Len(r) /\ i + k - 1 + 1 = k + i
    BY <1>0, <1>1
  <2>4. Len(s) - i = Len(r) - i + 1
    BY <1>0, <1>1
  <2>5. ASSUME NEW k \in 1..(Len(s) - i)
        PROVE  b[k] = s[k + i]
    BY <2>1, <2>2, <2>3, <2>4
  <2> QED BY <1>0, <1>1, <2>2, <2>5
<1>5. e \in Seq(T) /\ Len(e) = 1 /\ e[1] = s[i]
  BY <1>0
<1> HIDE DEF a, b, e
<1>6. a \o e \in Seq(T) /\ Len(a \o e) = i
      /\ \A k \in 1..i : (a \o e)[k] = s[k]
  <2>1. a \o e \in Seq(T) /\ Len(a \o e) = Len(a) + Len(e)
        /\ \A k \in 1..(Len(a) + Len(e)) : (a \o e)[k] = IF k <= Len(a) THEN a[k] ELSE e[k - Len(a)]
    BY <1>3, <1>5, ConcatProperties
  <2>0. i \in Nat \ {0}
    BY <1>0
  <2>3. Len(a) = i - 1 /\ Len(e) = 1 /\ Len(a) + Len(e) = i
    BY <1>3, <1>5, <2>0
  <2>2. ASSUME NEW k \in 1..i
        PROVE  (a \o e)[k] = s[k]
    <3>0. (a \o e)[k] = IF k <= i - 1 THEN a[k] ELSE e[k - (i - 1)]
      BY <2>1, <2>3
    <3>1. CASE k < i
      <4>1. k \in 1..(i - 1) /\ k <= i - 1
        BY <2>0, <3>1
      <4> QED BY <1>3, <3>0, <4>1
    <3>2. CASE k = i
      <4>1. ~(k <= i - 1) /\ k - (i - 1) = 1
        BY <2>0, <3>2
      <4> QED BY <1>5, <3>0, <3>2, <4>1
    <3>3. k < i \/ k = i
      BY <2>0
    <3> QED BY <3>1, <3>2, <3>3
  <2> QED BY <2>1, <2>2, <2>3
<1> DEFINE c == a \o e
<1>7. c \in Seq(T) /\ Len(c) = i /\ \A k \in 1..i : c[k] = s[k]
  BY <1>6
<1> HIDE DEF c
<1>8. c \o b \in Seq(T) /\ Len(c \o b) = Len(s)
      /\ \A k \in 1..Len(s) : (c \o b)[k] = s[k]
  <2>4. b \in Seq(T) /\ c \in Seq(T)
    BY <1>4, <1>7
  <2>1. c \o b \in Seq(T) /\ Len(c \o b) = Len(c) + Len(b)
        /\ \A k \in 1..(Len(c) + Len(b)) : (c \o b)[k] = IF k <= Len(c) THEN c[k] ELSE b[k - Len(c)]
    BY <2>4, ConcatProperties
  <2>0. Len(b) = Len(s) - i /\ Len(c) = i /\ Len(s) \in Nat /\ i \in 1..Len(s)
    BY <1>0, <1>4, <1>7
  <2>2. Len(c) + Len(b) = Len(s)
    BY <2>0
  <2>3. ASSUME NEW k \in 1..Len(s)
        PROVE  (c \o b)[k] = s[k]
    <3>0. (c \o b)[k] = IF k <= i THEN c[k] ELSE b[k - i]
      BY <2>0, <2>1, <2>2
    <3>1. CASE k <= i
      <4>1. k \in 1..i
        BY <2>0, <3>1
      <4> QED BY <1>7, <3>0, <3>1, <4>1
    <3>2. CASE ~(k <= i)
      <4>1. k - i \in 1..(Len(s) - i) /\ k - i + i = k
        BY <2>0, <3>2
      <4> QED BY <1>4, <3>0, <3>2, <4>1
    <3> QED BY <3>1, <3>2
  <2> QED BY <2>1, <2>2, <2>3
<1>9. c \o b = s
  BY <1>0, <1>8, SeqEqual
<1> QED BY <1>2, <1>9 DEF InsertAt, a, b, c, e

\* Mixes of playlist p, each once.
Rangeable(p, s) == s \in Seq(Range(Rangee[p])) /\ IsInjective(s)
SansDemande == [x \in Postes |-> PosteLibre]
SeuleDemande(d, q) == [x \in Postes |-> IF x = d THEN q ELSE PosteLibre]
UneDemande(quoi, p, m, i, e, l) ==
  [quoi |-> quoi, de |-> p, mix |-> m, rang |-> i, etat |-> e, lu |-> l]
PageDe(p, t, m) == [id |-> p, titre |-> t, mixes |-> m, compte |-> Len(m)]
Indecis == {"partie", "refusee"}

\* Route r, lists te, titles ti, screen mo, absence ab, requests rq.
EnRepos(r, te, ti, mo, ab, rq) == rq = SansDemande /\ (ab \/ mo = PageDe(r, ti[r], te[r]))
EnLecture(d, r, te, ti, rq) ==
  \/ \E e \in Indecis : rq = SeuleDemande(d, UneDemande("charger", r, Aucune, 0, e, <<>>))
  \/ rq = SeuleDemande(d, UneDemande("charger", r, Aucune, 0, "faite", PageDe(r, ti[r], te[r])))
Retrait(d, r, te, ti, mo, rq) ==
  \E s \in Seq(Range(Rangee[r])) : \E i \in DOMAIN s :
    /\ IsInjective(s) /\ mo = PageDe(r, ti[r], RemoveAt(s, i))
    /\ \/ \E e \in Indecis : rq = SeuleDemande(d, UneDemande("retirer", r, s[i], i, e, <<>>)) /\ te[r] = s
       \/ rq = SeuleDemande(d, UneDemande("retirer", r, s[i], i, "faite", <<>>)) /\ te[r] = RemoveAt(s, i)
Retitrage(d, r, te, ti, mo, rq) ==
  \/ \E e \in Indecis : /\ rq = SeuleDemande(d, UneDemande("titrer", r, rq[d].mix, 0, e, <<>>))
                       /\ mo = PageDe(r, ti[r], te[r])
  \/ /\ rq = SeuleDemande(d, UneDemande("titrer", r, ti[r], 0, "faite", <<>>))
     /\ mo = PageDe(r, mo.titre, te[r])
PageSuivie(r, te, ti, mo, ab, rq) ==
  IF r = Aucune THEN rq = SansDemande
  ELSE \/ EnRepos(r, te, ti, mo, ab, rq)
       \/ \E d \in Postes : \/ EnLecture(d, r, te, ti, rq)
                            \/ Retrait(d, r, te, ti, mo, rq)
                            \/ Retitrage(d, r, te, ti, mo, rq)

ListeInv ==
  /\ requis = [x \in Postes |-> requis[x]]
  /\ route \in Playlistes \cup {Aucune}
  /\ tenue = [p \in Playlistes |-> tenue[p]] /\ \A p \in Playlistes : Rangeable(p, tenue[p])
  /\ intitule = [p \in Playlistes |-> intitule[p]]
  /\ croisees \in BOOLEAN
  /\ ~croisees => PageSuivie(route, tenue, intitule, montree, introuvable, requis)

LEMMA TakenOff ==
  ASSUME NEW p, NEW s, Rangeable(p, s), NEW m
  PROVE  Rangeable(p, Otee(s, m)) /\ \A i \in DOMAIN s : m = s[i] => Otee(s, m) = RemoveAt(s, i)
<1> DEFINE T == Range(Rangee[p])
<1>0. s \in Seq(T) /\ IsInjective(s) /\ Len(s) \in Nat /\ DOMAIN s = 1..Len(s)
  BY LenProperties DEF Rangeable
<1> HIDE DEF T
<1>1. ASSUME NEW i \in DOMAIN s
      PROVE  RemoveAt(s, i) \in Seq(T) /\ IsInjective(RemoveAt(s, i))
  <2> DEFINE r == RemoveAt(s, i)
  <2>1. r \in Seq(T) /\ Len(r) = Len(s) - 1
        /\ \A k \in 1..(Len(s) - 1) : r[k] = IF k < i THEN s[k] ELSE s[k + 1]
    BY <1>0, OneOff
  <2>2. DOMAIN r = 1..(Len(s) - 1)
    BY <2>1, LenProperties
  <2> HIDE DEF r
  <2>3. ASSUME NEW a \in 1..(Len(s) - 1), NEW b \in 1..(Len(s) - 1), r[a] = r[b]
        PROVE  a = b
    <3> DEFINE u == IF a < i THEN a ELSE a + 1  v == IF b < i THEN b ELSE b + 1
    <3>1. u \in DOMAIN s /\ v \in DOMAIN s
      BY <1>0
    <3>2. r[a] = s[u] /\ r[b] = s[v]
      BY <2>1
    <3>3. u = v
      BY <1>0, <2>3, <3>1, <3>2 DEF IsInjective
    <3> QED BY <1>0, <3>3
  <2>4. IsInjective(r)
    BY <2>2, <2>3 DEF IsInjective
  <2> QED BY <2>1, <2>4 DEF r
<1>2. CASE m \in Range(s)
  <2>1. PICK i \in DOMAIN s : s[i] = m
    BY <1>2 DEF Range
  <2> DEFINE c == CHOOSE k \in DOMAIN s : s[k] = m
  <2>2. c \in DOMAIN s /\ s[c] = m
    BY <2>1
  <2>3. Otee(s, m) = RemoveAt(s, c)
    BY <1>2 DEF Otee
  <2> HIDE DEF c
  <2>4. \A k \in DOMAIN s : m = s[k] => k = c
    BY <1>0, <2>2 DEF IsInjective
  <2> QED BY <1>1, <2>2, <2>3, <2>4 DEF Rangeable, T
<1>3. CASE m \notin Range(s)
  <2>1. \A i \in DOMAIN s : m # s[i]
    BY <1>3 DEF Range
  <2> QED BY <1>3, <2>1 DEF Otee
<1> QED BY <1>2, <1>3

LEMMA NoneTaken ==
  ASSUME requis = [x \in Postes |-> requis[x]], Occupes = {}
  PROVE  requis = SansDemande
<1>1. \A x \in Postes : requis[x] = PosteLibre
  BY DEF Occupes
<1> QED BY <1>1 DEF SansDemande

LEMMA FirstTaken ==
  ASSUME NEW rq, rq = SansDemande, NEW d \in Postes, NEW q
  PROVE  [rq EXCEPT ![d] = q] = SeuleDemande(d, q)
BY DEF SansDemande, SeuleDemande

LEMMA OnlyOne ==
  ASSUME NEW rq, NEW d \in Postes, NEW q, rq = SeuleDemande(d, q), NEW x \in Postes,
         rq[x].etat # "libre"
  PROVE  /\ x = d /\ rq[x] = q
         /\ \A v : [rq EXCEPT ![x] = v] = SeuleDemande(d, v)
         /\ [rq EXCEPT ![x] = PosteLibre] = SansDemande
<1>1. rq[x] = IF x = d THEN q ELSE PosteLibre
  BY DEF SeuleDemande
<1>2. x = d
  BY <1>1 DEF PosteLibre
<1> QED BY <1>1, <1>2 DEF SeuleDemande, SansDemande

LEMMA NotNone ==
  ASSUME NEW d \in Postes, NEW q, q.quoi # "aucun"
  PROVE  SeuleDemande(d, q) # SansDemande
<1>1. SeuleDemande(d, q)[d] = q /\ SansDemande[d] = PosteLibre
  BY DEF SeuleDemande, SansDemande
<1> QED BY <1>1 DEF PosteLibre

LEMMA AtRest ==
  ASSUME ListeInv, ~croisees, Visible, Occupes = {}
  PROVE  /\ requis = SansDemande /\ route \in Playlistes
         /\ montree = PageDe(route, intitule[route], tenue[route])
<1>1. requis = SansDemande /\ route \in Playlistes
  BY NoneTaken DEF ListeInv, Visible
<1>2. \A d \in Postes : /\ ~EnLecture(d, route, tenue, intitule, requis)
                        /\ ~Retrait(d, route, tenue, intitule, montree, requis)
                        /\ ~Retitrage(d, route, tenue, intitule, montree, requis)
  <2>1. \A p, m, i, e, l : /\ UneDemande("charger", p, m, i, e, l).quoi # "aucun"
                           /\ UneDemande("retirer", p, m, i, e, l).quoi # "aucun"
                           /\ UneDemande("titrer", p, m, i, e, l).quoi # "aucun"
    BY DEF UneDemande
  <2>2. \A d \in Postes : \A p, m, i, e, l :
          /\ requis # SeuleDemande(d, UneDemande("charger", p, m, i, e, l))
          /\ requis # SeuleDemande(d, UneDemande("retirer", p, m, i, e, l))
          /\ requis # SeuleDemande(d, UneDemande("titrer", p, m, i, e, l))
    BY <1>1, <2>1, NotNone
  <2> QED BY <2>2 DEF EnLecture, Retrait, Retitrage
<1>3. EnRepos(route, tenue, intitule, montree, introuvable, requis)
  BY <1>1, <1>2 DEF ListeInv, PageSuivie, Visible
<1> QED BY <1>1, <1>3 DEF EnRepos, Visible

LEMMA GoesThere ==
  ASSUME ListeInv, NEW p \in Playlistes, AllerA(p)
  PROVE  ListeInv'
<1>1. PICK d \in Postes :
        Poser(d, Emise("charger", p, Aucune, 0))
  BY DEF AllerA
<1> DEFINE q == UneDemande("charger", p, Aucune, 0, "partie", <<>>)
<1>2. Emise("charger", p, Aucune, 0) = q
  BY DEF Emise, UneDemande
<1> HIDE DEF q
<1>3. requis' = [requis EXCEPT ![d] = q]
  BY <1>1, <1>2 DEF Poser
<1>4. ASSUME ~croisees'
      PROVE  EnLecture(d, p, tenue, intitule, requis')
  <2>1. Occupes = {}
    BY <1>4 DEF AllerA
  <2>2. requis = SansDemande
    BY <2>1, NoneTaken DEF ListeInv
  <2>3. requis' = SeuleDemande(d, q)
    BY <1>3, <2>2, FirstTaken
  <2> QED BY <2>3 DEF EnLecture, Indecis, q
<1> QED BY <1>3, <1>4, PagePlaylistAssumption DEF ListeInv, AllerA, PageSuivie

LEMMA TakesOff ==
  ASSUME ListeInv, NEW i \in DOMAIN montree.mixes, RetirerDeLaListe(i)
  PROVE  ListeInv'
<1>1. PICK d \in Postes :
        Poser(d, Emise("retirer", montree.id, montree.mixes[i], i))
  BY DEF RetirerDeLaListe
<1> DEFINE q == UneDemande("retirer", montree.id, montree.mixes[i], i, "partie", <<>>)
<1>2. Emise("retirer", montree.id, montree.mixes[i], i) = q
  BY DEF Emise, UneDemande
<1> HIDE DEF q
<1>3. requis' = [requis EXCEPT ![d] = q]
  BY <1>1, <1>2 DEF Poser
<1>4. ASSUME ~croisees'
      PROVE  Retrait(d, route, tenue, intitule, montree', requis') /\ route # Aucune
  <2>1. Occupes = {} /\ ~croisees /\ Visible
    BY <1>4 DEF RetirerDeLaListe, Agir
  <2> DEFINE s == tenue[route]
  <2>2. requis = SansDemande /\ route \in Playlistes /\ montree = PageDe(route, intitule[route], s)
    BY <2>1, AtRest
  <2>3. s \in Seq(Range(Rangee[route])) /\ IsInjective(s)
    BY <2>2 DEF ListeInv, Rangeable
  <2>4. montree.id = route /\ montree.mixes = s /\ montree.compte = Len(s)
    BY <2>2 DEF PageDe
  <2> HIDE DEF s
  <2>5. requis' = SeuleDemande(d, UneDemande("retirer", route, s[i], i, "partie", <<>>))
    BY <1>3, <2>2, <2>4, FirstTaken DEF q
  <2>6. Len(RemoveAt(s, i)) = Len(s) - 1
    BY <2>3, <2>4, OneOff
  <2>7. montree' = [montree EXCEPT !.mixes = RemoveAt(s, i), !.compte = Len(s) - 1]
    BY <2>4 DEF RetirerDeLaListe
  <2>8. montree' = PageDe(route, intitule[route], RemoveAt(s, i))
    BY <2>2, <2>6, <2>7 DEF PageDe
  <2>9. i \in DOMAIN s /\ tenue[route] = s /\ "partie" \in Indecis /\ route # Aucune
    BY <2>2, <2>4, PagePlaylistAssumption DEF s, Indecis
  <2> QED BY <2>3, <2>5, <2>8, <2>9 DEF Retrait
<1> QED BY <1>3, <1>4 DEF ListeInv, RetirerDeLaListe, PageSuivie

LEMMA SendsTitle ==
  ASSUME ListeInv, Enregistrer
  PROVE  ListeInv'
<1>1. PICK d \in Postes :
        Poser(d, Emise("titrer", montree.id, saisie, 0))
  BY DEF Enregistrer
<1> DEFINE q == UneDemande("titrer", montree.id, saisie, 0, "partie", <<>>)
<1>2. Emise("titrer", montree.id, saisie, 0) = q
  BY DEF Emise, UneDemande
<1> HIDE DEF q
<1>3. requis' = [requis EXCEPT ![d] = q]
  BY <1>1, <1>2 DEF Poser
<1>4. ASSUME ~croisees'
      PROVE  Retitrage(d, route, tenue, intitule, montree, requis') /\ route # Aucune
  <2>1. Occupes = {} /\ ~croisees /\ Visible
    BY <1>4 DEF Enregistrer, Agir
  <2>2. requis = SansDemande /\ route \in Playlistes
        /\ montree = PageDe(route, intitule[route], tenue[route])
    BY <2>1, AtRest
  <2>3. montree.id = route
    BY <2>2 DEF PageDe
  <2>4. requis' = SeuleDemande(d, UneDemande("titrer", route, saisie, 0, "partie", <<>>))
    BY <1>3, <2>2, <2>3, FirstTaken DEF q
  <2>5. requis'[d] = UneDemande("titrer", route, saisie, 0, "partie", <<>>)
    BY <2>4 DEF SeuleDemande
  <2>6. requis'[d].mix = saisie
    BY <2>5 DEF UneDemande
  <2> QED BY <2>2, <2>4, <2>6, PagePlaylistAssumption DEF Retitrage, Indecis
<1> QED BY <1>3, <1>4 DEF ListeInv, Enregistrer, PageSuivie

\* What the state says of the request d that has been sent.
LEMMA TheRequest ==
  ASSUME ListeInv, ~croisees, NEW d \in Postes, requis[d].etat # "libre"
  PROVE  /\ route \in Playlistes /\ route # Aucune
         /\ \/ EnLecture(d, route, tenue, intitule, requis)
            \/ Retrait(d, route, tenue, intitule, montree, requis)
            \/ Retitrage(d, route, tenue, intitule, montree, requis)
<1>1. requis # SansDemande
  BY DEF SansDemande, PosteLibre
<1>2. route # Aucune /\ route \in Playlistes
  BY <1>1 DEF ListeInv, PageSuivie
<1>3. PICK x \in Postes : \/ EnLecture(x, route, tenue, intitule, requis)
                         \/ Retrait(x, route, tenue, intitule, montree, requis)
                         \/ Retitrage(x, route, tenue, intitule, montree, requis)
  BY <1>1, <1>2 DEF ListeInv, PageSuivie, EnRepos
<1>4. ASSUME NEW q, requis = SeuleDemande(x, q)
      PROVE  d = x
  BY <1>4 DEF SeuleDemande, PosteLibre
<1>5. \E q : requis = SeuleDemande(x, q)
  BY <1>3 DEF EnLecture, Retrait, Retitrage
<1> QED BY <1>2, <1>3, <1>4, <1>5

LEMMA Fields ==
  ASSUME NEW a, NEW p, NEW m, NEW i, NEW e, NEW l
  PROVE  /\ UneDemande(a, p, m, i, e, l).quoi = a /\ UneDemande(a, p, m, i, e, l).de = p
         /\ UneDemande(a, p, m, i, e, l).mix = m /\ UneDemande(a, p, m, i, e, l).rang = i
         /\ UneDemande(a, p, m, i, e, l).etat = e /\ UneDemande(a, p, m, i, e, l).lu = l
BY DEF UneDemande

LEMMA AnsweredOnly ==
  ASSUME NEW a, NEW p, NEW m, NEW i, NEW e, NEW l, NEW v
  PROVE  [UneDemande(a, p, m, i, e, l) EXCEPT !.etat = v] = UneDemande(a, p, m, i, v, l)
BY DEF UneDemande

LEMMA ReadOnly ==
  ASSUME NEW a, NEW p, NEW m, NEW i, NEW e, NEW l, NEW v
  PROVE  [UneDemande(a, p, m, i, e, l) EXCEPT !.lu = v] = UneDemande(a, p, m, i, e, v)
BY DEF UneDemande

LEMMA AnsweredWith ==
  ASSUME NEW a, NEW p, NEW m, NEW i, NEW e, NEW l, NEW v, NEW w
  PROVE  Repondue(UneDemande(a, p, m, i, e, l), v, w) = UneDemande(a, p, m, i, v, w)
<1>1. [UneDemande(a, p, m, i, e, l) EXCEPT !.etat = v] = UneDemande(a, p, m, i, v, l)
  BY AnsweredOnly
<1>2. [UneDemande(a, p, m, i, v, l) EXCEPT !.lu = w] = UneDemande(a, p, m, i, v, w)
  BY ReadOnly
<1>3. [UneDemande(a, p, m, i, e, l) EXCEPT !.etat = v, !.lu = w]
        = [[UneDemande(a, p, m, i, e, l) EXCEPT !.etat = v] EXCEPT !.lu = w]
  OBVIOUS
<1> QED BY <1>1, <1>2, <1>3 DEF Repondue

LEMMA ListsKept ==
  ASSUME ListeInv, NEW d \in Postes, ServirDemande(d)
  PROVE  /\ requis' = [x \in Postes |-> requis'[x]]
         /\ tenue' = [p \in Playlistes |-> tenue'[p]] /\ \A p \in Playlistes : Rangeable(p, tenue'[p])
         /\ intitule' = [p \in Playlistes |-> intitule'[p]]
<1>1. requis' = [x \in Postes |-> requis'[x]]
  BY DEF ListeInv, ServirDemande
<1>2. intitule' = [p \in Playlistes |-> intitule'[p]]
  BY DEF ListeInv, ServirDemande
<1>3. tenue' = tenue \/ tenue' = [tenue EXCEPT ![requis[d].de] = Otee(@, requis[d].mix)]
  BY DEF ServirDemande
<1>4. CASE tenue' = tenue
  BY <1>1, <1>2, <1>4 DEF ListeInv
<1>5. CASE tenue' = [tenue EXCEPT ![requis[d].de] = Otee(@, requis[d].mix)]
  <2>1. tenue' = [p \in Playlistes |-> tenue'[p]]
    BY <1>5 DEF ListeInv
  <2>2. ASSUME NEW p \in Playlistes
        PROVE  Rangeable(p, tenue'[p])
    <3>1. tenue'[p] = tenue[p] \/ tenue'[p] = Otee(tenue[p], requis[d].mix)
      BY <1>5 DEF ListeInv
    <3> QED BY <3>1, TakenOff DEF ListeInv
  <2> QED BY <1>1, <1>2, <2>1, <2>2
<1> QED BY <1>3, <1>4, <1>5

LEMMA ServesAsked ==
  ASSUME ListeInv, NEW d \in Postes, ServirDemande(d), ~croisees
  PROVE  PageSuivie(route', tenue', intitule', montree', introuvable', requis')
<1> DEFINE r == route
<1>0. /\ requis[d].etat = "partie" /\ requis[d].etat # "libre"
      /\ route' = route /\ montree' = montree /\ introuvable' = introuvable
  BY DEF ServirDemande
<1>1. r \in Playlistes /\ r # Aucune /\ tenue = [p \in Playlistes |-> tenue[p]]
      /\ intitule = [p \in Playlistes |-> intitule[p]]
  BY <1>0, TheRequest DEF ListeInv
<1> HIDE DEF r
<1>2. ASSUME NEW q, requis = SeuleDemande(d, q)
      PROVE  requis[d] = q /\ \A v : [requis EXCEPT ![d] = v] = SeuleDemande(d, v)
  BY <1>0, <1>2, OnlyOne
<1>3. CASE EnLecture(d, r, tenue, intitule, requis)
  <2> DEFINE q == UneDemande("charger", r, Aucune, 0, "partie", <<>>)
  <2>1. requis = SeuleDemande(d, q)
    <3>1. \A e : requis = SeuleDemande(d, UneDemande("charger", r, Aucune, 0, e, <<>>)) => e = "partie"
      BY <1>0, <1>2, Fields
    <3>2. requis # SeuleDemande(d, UneDemande("charger", r, Aucune, 0, "faite", PageDe(r, intitule[r], tenue[r])))
      BY <1>0, <1>2, Fields
    <3> QED BY <1>3, <3>1, <3>2 DEF EnLecture
  <2>2. requis[d] = q /\ \A v : [requis EXCEPT ![d] = v] = SeuleDemande(d, v)
    BY <1>2, <2>1
  <2>5. q.quoi = "charger" /\ q.de = r
    BY Fields
  <2>6. /\ Repondue(q, "refusee", <<>>) = UneDemande("charger", r, Aucune, 0, "refusee", <<>>)
        /\ \A l : Repondue(q, "faite", l) = UneDemande("charger", r, Aucune, 0, "faite", l)
    BY AnsweredWith
  <2> HIDE DEF q
  <2>3. CASE requis' = [requis EXCEPT ![d] = Repondue(requis[d], "refusee", <<>>)] /\ UNCHANGED <<tenue, intitule>>
    <3>1. requis' = SeuleDemande(d, UneDemande("charger", r, Aucune, 0, "refusee", <<>>))
      BY <2>2, <2>3, <2>6
    <3> QED BY <1>0, <1>1, <2>3, <3>1 DEF EnLecture, PageSuivie, Indecis, r
  <2>4. CASE /\ requis' = [requis EXCEPT ![d] = Repondue(requis[d], "faite", Ecran(r))]
             /\ UNCHANGED <<tenue, intitule>>
    <3>1. requis' = SeuleDemande(d, UneDemande("charger", r, Aucune, 0, "faite", Ecran(r)))
      BY <2>2, <2>4, <2>6
    <3>2. Ecran(r) = PageDe(r, intitule[r], tenue[r])
      BY DEF Ecran, PageDe
    <3> QED BY <1>0, <1>1, <2>4, <3>1, <3>2 DEF EnLecture, PageSuivie, r
  <2> QED BY <2>2, <2>3, <2>4, <2>5 DEF ServirDemande
<1>4. CASE Retrait(d, r, tenue, intitule, montree, requis)
  <2>0. PICK s \in Seq(Range(Rangee[r])) : \E i \in DOMAIN s :
          /\ IsInjective(s) /\ montree = PageDe(r, intitule[r], RemoveAt(s, i))
          /\ \/ \E e \in Indecis : /\ requis = SeuleDemande(d, UneDemande("retirer", r, s[i], i, e, <<>>))
                                   /\ tenue[r] = s
             \/ /\ requis = SeuleDemande(d, UneDemande("retirer", r, s[i], i, "faite", <<>>))
                /\ tenue[r] = RemoveAt(s, i)
    BY <1>4 DEF Retrait
  <2>1. PICK i \in DOMAIN s :
          /\ IsInjective(s) /\ montree = PageDe(r, intitule[r], RemoveAt(s, i))
          /\ \/ \E e \in Indecis : /\ requis = SeuleDemande(d, UneDemande("retirer", r, s[i], i, e, <<>>))
                                   /\ tenue[r] = s
             \/ /\ requis = SeuleDemande(d, UneDemande("retirer", r, s[i], i, "faite", <<>>))
                /\ tenue[r] = RemoveAt(s, i)
    BY <2>0
  <2> DEFINE q == UneDemande("retirer", r, s[i], i, "partie", <<>>)
  <2>2. requis = SeuleDemande(d, q) /\ tenue[r] = s
    <3>1. \A e : requis = SeuleDemande(d, UneDemande("retirer", r, s[i], i, e, <<>>)) => e = "partie"
      BY <1>0, <1>2, Fields
    <3>2. "faite" # "partie"
      OBVIOUS
    <3> QED BY <2>1, <3>1, <3>2
  <2>3. requis[d] = q /\ \A v : [requis EXCEPT ![d] = v] = SeuleDemande(d, v)
    BY <1>2, <2>2
  <2>6. q.quoi = "retirer" /\ q.de = r /\ q.mix = s[i]
    BY Fields
  <2>7. /\ Repondue(q, "refusee", <<>>) = UneDemande("retirer", r, s[i], i, "refusee", <<>>)
        /\ \A l : Repondue(q, "faite", l) = UneDemande("retirer", r, s[i], i, "faite", l)
    BY AnsweredWith
  <2> HIDE DEF q
  <2>4. CASE requis' = [requis EXCEPT ![d] = Repondue(requis[d], "refusee", <<>>)] /\ UNCHANGED <<tenue, intitule>>
    <3>1. requis' = SeuleDemande(d, UneDemande("retirer", r, s[i], i, "refusee", <<>>))
      BY <2>3, <2>4, <2>7
    <3>2. Retrait(d, r, tenue', intitule', montree', requis')
      BY <1>0, <2>0, <2>1, <2>2, <2>4, <3>1 DEF Retrait, Indecis
    <3> QED BY <1>0, <1>1, <3>2 DEF PageSuivie, r
  <2>5. CASE /\ requis' = [requis EXCEPT ![d] = Repondue(requis[d], "faite", <<>>)]
             /\ tenue' = [tenue EXCEPT ![r] = Otee(@, s[i])] /\ intitule' = intitule
    <3>1. requis' = SeuleDemande(d, UneDemande("retirer", r, s[i], i, "faite", <<>>))
      BY <2>3, <2>5, <2>7
    <3>2. tenue'[r] = Otee(s, s[i])
      BY <1>1, <2>2, <2>5
    <3>3. Otee(s, s[i]) = RemoveAt(s, i)
      BY <2>0, <2>1, TakenOff DEF Rangeable
    <3>4. Retrait(d, r, tenue', intitule', montree', requis')
      BY <1>0, <2>0, <2>1, <2>5, <3>1, <3>2, <3>3 DEF Retrait
    <3> QED BY <1>0, <1>1, <3>4 DEF PageSuivie, r
  <2> QED BY <2>3, <2>4, <2>5, <2>6 DEF ServirDemande
<1>5. CASE Retitrage(d, r, tenue, intitule, montree, requis)
  <2> DEFINE t == requis[d].mix
  <2> DEFINE q == UneDemande("titrer", r, t, 0, "partie", <<>>)
  <2>1. requis = SeuleDemande(d, q) /\ montree = PageDe(r, intitule[r], tenue[r])
    <3>1. \A e, m : requis = SeuleDemande(d, UneDemande("titrer", r, m, 0, e, <<>>)) => e = "partie"
      BY <1>0, <1>2, Fields
    <3>2. "faite" # "partie"
      OBVIOUS
    <3> QED BY <1>5, <3>1, <3>2 DEF Retitrage
  <2> HIDE DEF t
  <2>2. requis[d] = q /\ \A v : [requis EXCEPT ![d] = v] = SeuleDemande(d, v)
    BY <1>2, <2>1
  <2>5. q.quoi = "titrer" /\ q.de = r /\ q.mix = t
    BY Fields
  <2>6. /\ Repondue(q, "refusee", <<>>) = UneDemande("titrer", r, t, 0, "refusee", <<>>)
        /\ \A l : Repondue(q, "faite", l) = UneDemande("titrer", r, t, 0, "faite", l)
    BY AnsweredWith
  <2> HIDE DEF q
  <2>3. CASE requis' = [requis EXCEPT ![d] = Repondue(requis[d], "refusee", <<>>)] /\ UNCHANGED <<tenue, intitule>>
    <3>1. requis' = SeuleDemande(d, UneDemande("titrer", r, t, 0, "refusee", <<>>))
      BY <2>2, <2>3, <2>6
    <3>2. requis'[d].mix = t
      <4>1. requis'[d] = UneDemande("titrer", r, t, 0, "refusee", <<>>)
        BY <3>1 DEF SeuleDemande
      <4> QED BY <4>1, Fields
    <3>3. Retitrage(d, r, tenue', intitule', montree', requis')
      BY <1>0, <2>1, <2>3, <3>1, <3>2 DEF Retitrage, Indecis
    <3> QED BY <1>0, <1>1, <3>3 DEF PageSuivie, r
  <2>4. CASE /\ requis' = [requis EXCEPT ![d] = Repondue(requis[d], "faite", <<>>)]
             /\ tenue' = tenue /\ intitule' = [intitule EXCEPT ![r] = t]
    <3>1. requis' = SeuleDemande(d, UneDemande("titrer", r, t, 0, "faite", <<>>))
      BY <2>2, <2>4, <2>6
    <3>2. intitule'[r] = t
      BY <1>1, <2>4
    <3>3. montree' = PageDe(r, montree'.titre, tenue'[r])
      BY <1>0, <2>1, <2>4 DEF PageDe
    <3>4. Retitrage(d, r, tenue', intitule', montree', requis')
      BY <3>1, <3>2, <3>3 DEF Retitrage
    <3> QED BY <1>0, <1>1, <3>4 DEF PageSuivie, r
  <2> QED BY <2>2, <2>3, <2>4, <2>5 DEF ServirDemande
<1> QED BY <1>0, <1>3, <1>4, <1>5, TheRequest DEF r

\* The request d has its answer and is the only one.
LEMMA Answer ==
  ASSUME ListeInv, ~croisees, NEW d \in Postes, requis[d].etat \in {"faite", "refusee"}, Oublier(d)
  PROVE  /\ requis' = SansDemande /\ route \in Playlistes /\ route # Aucune
         /\ requis[d].quoi = "charger" => EnLecture(d, route, tenue, intitule, requis)
         /\ requis[d].quoi = "retirer" => Retrait(d, route, tenue, intitule, montree, requis)
         /\ requis[d].quoi = "titrer" => Retitrage(d, route, tenue, intitule, montree, requis)
<1>1. requis[d].etat # "libre"
  OBVIOUS
<1>2. /\ route \in Playlistes /\ route # Aucune
      /\ \/ EnLecture(d, route, tenue, intitule, requis)
         \/ Retrait(d, route, tenue, intitule, montree, requis)
         \/ Retitrage(d, route, tenue, intitule, montree, requis)
  BY <1>1, TheRequest
<1>3. \A q : requis = SeuleDemande(d, q) => requis[d] = q /\ requis' = SansDemande
  BY <1>1, OnlyOne DEF Oublier
<1>4. ASSUME EnLecture(d, route, tenue, intitule, requis)
      PROVE  requis' = SansDemande /\ requis[d].quoi = "charger"
  <2>1. PICK e, l : requis = SeuleDemande(d, UneDemande("charger", route, Aucune, 0, e, l))
    BY <1>4 DEF EnLecture
  <2> QED BY <1>3, <2>1, Fields
<1>5. ASSUME Retrait(d, route, tenue, intitule, montree, requis)
      PROVE  requis' = SansDemande /\ requis[d].quoi = "retirer"
  <2>1. PICK m, i, e, l : requis = SeuleDemande(d, UneDemande("retirer", route, m, i, e, l))
    BY <1>5 DEF Retrait
  <2> QED BY <1>3, <2>1, Fields
<1>6. ASSUME Retitrage(d, route, tenue, intitule, montree, requis)
      PROVE  requis' = SansDemande /\ requis[d].quoi = "titrer"
  <2>1. PICK m, e, l : requis = SeuleDemande(d, UneDemande("titrer", route, m, 0, e, l))
    BY <1>6 DEF Retitrage
  <2> QED BY <1>3, <2>1, Fields
<1>7. "charger" # "retirer" /\ "charger" # "titrer" /\ "retirer" # "titrer"
  OBVIOUS
<1> QED BY <1>2, <1>4, <1>5, <1>6, <1>7

LEMMA ListComes ==
  ASSUME ListeInv, ~croisees, NEW d \in Postes, ListeArrive(d)
  PROVE  PageSuivie(route, tenue, intitule, montree', introuvable', requis')
<1>1. requis[d].quoi = "charger" /\ requis[d].etat \in {"faite", "refusee"} /\ Oublier(d)
  BY DEF ListeArrive
<1>2. requis' = SansDemande /\ route # Aucune /\ EnLecture(d, route, tenue, intitule, requis)
  BY <1>1, Answer
<1>3. CASE requis[d].etat = "refusee"
  <2>1. introuvable'
    BY <1>3 DEF ListeArrive
  <2> QED BY <1>2, <2>1 DEF PageSuivie, EnRepos
<1>4. CASE requis[d].etat = "faite"
  <2>1. \A q : requis = SeuleDemande(d, q) => requis[d] = q
    BY DEF SeuleDemande
  <2>2. \A e \in Indecis : requis # SeuleDemande(d, UneDemande("charger", route, Aucune, 0, e, <<>>))
    <3>1. \A e : requis = SeuleDemande(d, UneDemande("charger", route, Aucune, 0, e, <<>>)) => e = "faite"
      BY <1>4, <2>1, Fields
    <3> QED BY <3>1 DEF Indecis
  <2>3. requis = SeuleDemande(d, UneDemande("charger", route, Aucune, 0, "faite",
                                  PageDe(route, intitule[route], tenue[route])))
    BY <1>2, <2>2 DEF EnLecture
  <2>4. requis[d] = UneDemande("charger", route, Aucune, 0, "faite",
                            PageDe(route, intitule[route], tenue[route]))
    BY <2>1, <2>3
  <2>5. requis[d].lu = PageDe(route, intitule[route], tenue[route])
    BY <2>4, Fields
  <2> QED BY <1>2, <1>4, <2>5 DEF PageSuivie, EnRepos, ListeArrive
<1> QED BY <1>1, <1>3, <1>4

LEMMA RemovalEnds ==
  ASSUME ListeInv, ~croisees', NEW d \in Postes, RetraitRepond(d)
  PROVE  PageSuivie(route, tenue, intitule, montree', introuvable, requis')
<1> DEFINE r == route  q == requis[d]
<1>1. /\ q.quoi = "retirer" /\ q.etat \in {"faite", "refusee"} /\ Oublier(d) /\ ~croisees
      /\ \/ q.etat = "faite" /\ montree' = montree
         \/ Remettre(q) /\ q.etat = "refusee"
  <2>0. croisees \in BOOLEAN /\ "faite" # "refusee"
    BY DEF ListeInv
  <2>1. q.quoi = "retirer" /\ q.etat \in {"faite", "refusee"} /\ Oublier(d)
    BY DEF RetraitRepond
  <2>2. CASE q.etat = "faite" /\ UNCHANGED <<montree, croisees>>
    BY <2>1, <2>2
  <2>3. CASE Remettre(q) /\ croisees' = (croisees \/ q.etat = "faite")
    <3>1. ~croisees /\ q.etat # "faite"
      BY <2>0, <2>3
    <3> QED BY <2>1, <2>3, <3>1
  <2> QED BY <2>2, <2>3 DEF RetraitRepond
<1>2. requis' = SansDemande /\ r # Aucune /\ Retrait(d, r, tenue, intitule, montree, requis)
  BY <1>1, Answer
<1>0. \A v : requis = SeuleDemande(d, v) => q = v
  BY DEF SeuleDemande
<1> HIDE DEF r, q
<1>3. PICK s \in Seq(Range(Rangee[r])) : \E i \in DOMAIN s :
        /\ IsInjective(s) /\ montree = PageDe(r, intitule[r], RemoveAt(s, i))
        /\ \/ \E e \in Indecis : /\ requis = SeuleDemande(d, UneDemande("retirer", r, s[i], i, e, <<>>))
                                 /\ tenue[r] = s
           \/ /\ requis = SeuleDemande(d, UneDemande("retirer", r, s[i], i, "faite", <<>>))
              /\ tenue[r] = RemoveAt(s, i)
  BY <1>2 DEF Retrait
<1>4. PICK i \in DOMAIN s :
        /\ montree = PageDe(r, intitule[r], RemoveAt(s, i))
        /\ \/ \E e \in Indecis : /\ requis = SeuleDemande(d, UneDemande("retirer", r, s[i], i, e, <<>>))
                                 /\ tenue[r] = s
           \/ /\ requis = SeuleDemande(d, UneDemande("retirer", r, s[i], i, "faite", <<>>))
              /\ tenue[r] = RemoveAt(s, i)
  BY <1>3
<1>5. \A e : requis = SeuleDemande(d, UneDemande("retirer", r, s[i], i, e, <<>>))
             => q.etat = e /\ q.rang = i /\ q.mix = s[i]
  BY <1>0, Fields
<1>6. CASE q.etat = "faite" /\ montree' = montree
  <2>1. tenue[r] = RemoveAt(s, i)
    BY <1>4, <1>5, <1>6 DEF Indecis
  <2> QED BY <1>2, <1>4, <1>6, <2>1 DEF PageSuivie, EnRepos, r
<1>7. CASE Remettre(q) /\ q.etat = "refusee"
  <2> DEFINE t == RemoveAt(s, i)
  <2>1. tenue[r] = s /\ q.rang = i /\ q.mix = s[i]
    <3>1. "faite" # "refusee"
      OBVIOUS
    <3> QED BY <1>4, <1>5, <1>7, <3>1
  <2>2. Len(t) = Len(s) - 1 /\ Len(s) \in Nat
    BY <1>3, <1>4, OneOff, LenProperties
  <2>3. montree.mixes = t /\ montree.compte = Len(t)
    BY <1>4 DEF PageDe
  <2> HIDE DEF t
  <2>4. InsertAt(t, IF i > Len(t) THEN Len(t) + 1 ELSE i, s[i]) = s
    BY <1>3, <1>4, BackInPlace DEF t
  <2>5. montree' = [montree EXCEPT !.mixes = s, !.compte = Len(s)]
    <3>1. montree' = [montree EXCEPT
            !.mixes = InsertAt(montree.mixes, IF i > Len(montree.mixes) THEN Len(montree.mixes) + 1
                                              ELSE i, s[i]),
            !.compte = montree.compte + 1]
      BY <1>7, <2>1 DEF Remettre
    <3>2. Len(t) + 1 = Len(s)
      BY <2>2
    <3> QED BY <2>3, <2>4, <3>1, <3>2
  <2>6. montree' = PageDe(r, intitule[r], s)
    BY <1>4, <2>5 DEF PageDe
  <2> QED BY <1>2, <2>1, <2>6 DEF PageSuivie, EnRepos, r
<1> QED BY <1>1, <1>6, <1>7

LEMMA TitleEnds ==
  ASSUME ListeInv, ~croisees', NEW d \in Postes, TitreRepond(d)
  PROVE  PageSuivie(route, tenue, intitule, montree', introuvable, requis')
<1> DEFINE r == route  q == requis[d]
<1>1. /\ q.quoi = "titrer" /\ q.etat \in {"faite", "refusee"} /\ Oublier(d) /\ ~croisees
      /\ \/ q.etat = "faite" /\ montree' = [montree EXCEPT !.titre = q.mix]
         \/ q.etat = "refusee" /\ montree' = montree
  <2>0. croisees \in BOOLEAN /\ "faite" # "refusee"
    BY DEF ListeInv
  <2>1. q.quoi = "titrer" /\ q.etat \in {"faite", "refusee"} /\ Oublier(d)
    BY DEF TitreRepond
  <2>2. CASE q.etat = "faite" /\ montree' = [montree EXCEPT !.titre = q.mix] /\ UNCHANGED croisees
    BY <2>1, <2>2
  <2>3. CASE croisees' = (croisees \/ q.etat = "faite") /\ montree' = montree
    <3>1. ~croisees /\ q.etat # "faite"
      BY <2>0, <2>3
    <3> QED BY <2>1, <2>3, <3>1
  <2> QED BY <2>2, <2>3 DEF TitreRepond
<1>2. requis' = SansDemande /\ r # Aucune /\ Retitrage(d, r, tenue, intitule, montree, requis)
  BY <1>1, Answer
<1>0. \A v : requis = SeuleDemande(d, v) => q = v
  BY DEF SeuleDemande
<1> HIDE DEF r, q
<1>5. \A m, e : requis = SeuleDemande(d, UneDemande("titrer", r, m, 0, e, <<>>)) => q.etat = e /\ q.mix = m
  BY <1>0, Fields
<1>6. "faite" # "refusee" /\ "faite" \notin Indecis
  BY DEF Indecis
<1>7. CASE q.etat = "faite" /\ montree' = [montree EXCEPT !.titre = q.mix]
  <2>1. requis = SeuleDemande(d, UneDemande("titrer", r, intitule[r], 0, "faite", <<>>))
        /\ montree = PageDe(r, montree.titre, tenue[r])
    BY <1>2, <1>5, <1>6, <1>7 DEF Retitrage
  <2>2. q.mix = intitule[r]
    BY <1>5, <2>1
  <2>3. montree' = PageDe(r, intitule[r], tenue[r])
    BY <1>7, <2>1, <2>2 DEF PageDe
  <2> QED BY <1>2, <2>3 DEF PageSuivie, EnRepos, r
<1>8. CASE q.etat = "refusee" /\ montree' = montree
  <2>1. montree = PageDe(r, intitule[r], tenue[r])
    BY <1>2, <1>5, <1>6, <1>8 DEF Retitrage
  <2> QED BY <1>2, <1>8, <2>1 DEF PageSuivie, EnRepos, r
<1> QED BY <1>1, <1>7, <1>8

LEMMA PagesOfAList ==
  ASSUME ListeInv, [PagePlaylistNext]_pagePlaylistVars
  PROVE  ListeInv'
<1>1. ASSUME NEW p \in Playlistes, AllerA(p)
      PROVE  ListeInv'
  BY <1>1, GoesThere
<1>2. CASE FermerPlaylist
  <2>1. requis = SansDemande
    BY <1>2, NoneTaken DEF ListeInv, FermerPlaylist
  <2> QED BY <1>2, <2>1 DEF ListeInv, FermerPlaylist, PageSuivie
<1>3. CASE Editer
  BY <1>3 DEF ListeInv, Editer
<1>4. CASE Enregistrer
  BY <1>4, SendsTitle
<1>5. ASSUME NEW i \in DOMAIN montree.mixes, RetirerDeLaListe(i)
      PROVE  ListeInv'
  BY <1>5, TakesOff
<1>6. ASSUME NEW d \in Postes, ServirDemande(d)
      PROVE  ListeInv'
  <2>1. route' = route /\ (croisees' <=> croisees)
    BY <1>6 DEF ServirDemande
  <2> QED BY <1>6, <2>1, ListsKept, ServesAsked DEF ListeInv
<1>7. ASSUME NEW d \in Postes, ListeArrive(d) \/ RetraitRepond(d) \/ TitreRepond(d)
      PROVE  ListeInv'
  <2>1. /\ requis' = [requis EXCEPT ![d] = PosteLibre]
        /\ UNCHANGED <<route, tenue, intitule>> /\ (croisees => croisees')
        /\ croisees' \in BOOLEAN
    BY <1>7 DEF ListeArrive, RetraitRepond, TitreRepond, Oublier, ListeInv
  <2>2. requis' = [x \in Postes |-> requis'[x]]
    BY <2>1 DEF ListeInv
  <2>3. ~croisees' => PageSuivie(route, tenue, intitule, montree', introuvable', requis')
    BY <1>7, <2>1, ListComes, RemovalEnds, TitleEnds DEF RetraitRepond, TitreRepond
  <2> QED BY <2>1, <2>2, <2>3 DEF ListeInv
<1>8. CASE UNCHANGED pagePlaylistVars
  BY <1>8 DEF pagePlaylistVars, ListeInv
<1> QED BY <1>1, <1>2, <1>3, <1>4, <1>5, <1>6, <1>7, <1>8 DEF PagePlaylistNext

\* A page at rest, that no two requests, no navigation and no lost answer has
\* crossed, shows its playlist as the server has it: order, count and title,
\* whatever was refused and came back on the screen.
THEOREM PlaylistShownIsHeldAlways == PagePlaylistSpec => []PlaylistShownIsHeld
<1>1. PagePlaylistInit => ListeInv
  BY PagePlaylistAssumption DEF PagePlaylistInit, ListeInv, PageSuivie, SansDemande, Rangeable
<1>2. ListeInv /\ [PagePlaylistNext]_pagePlaylistVars => ListeInv'
  BY PagesOfAList
<1>3. ListeInv => PlaylistShownIsHeld
  BY AtRest DEF PlaylistShownIsHeld, Ecran, PageDe
<1> QED BY <1>1, <1>2, <1>3, PTL DEF PagePlaylistSpec

(***************************************************************************)
(* The comments under a mix.  The number counts what the page shows and    *)
(* what the base has, less what the server has written and not yet         *)
(* answered: it is that set each step changes as the number does.  What    *)
(* both the page and the base have is in the same place in each.           *)
(***************************************************************************)

Quois == {"aucun", "poster", "repondre", "effacer", "oter"}
Courrier == [quoi : Quois, sur : Paroles \cup {Tete}, rendu : Paroles \cup {Tete, Refusee}]

\* What the page shows, and what the server has written of which the page has
\* not had the answer.
Vus(f) == DOMAIN f \cup {r \in Paroles : \E c \in DOMAIN f : r \in f[c]}
Nes(po) == {n \in Paroles :
              \E g \in Guichets : po[g].quoi \in {"poster", "repondre"} /\ po[g].rendu = n}
Comptees(te, f, po) == Vus(f) \cup (DOMAIN te \ Nes(po))

\* What a step makes of the page, and of the base.
Jointe(f, f1, m) ==
  /\ f1 = [c \in DOMAIN f1 |-> f1[c]] /\ DOMAIN f1 = DOMAIN f \cup {m}
  /\ \A c \in DOMAIN f1 : f1[c] = IF c = m THEN {} ELSE f[c]
Privee(f, f1, x) ==
  /\ f1 = [c \in DOMAIN f1 |-> f1[c]] /\ DOMAIN f1 = DOMAIN f
  /\ \A c \in DOMAIN f1 : f1[c] = f[c] \ {x}
Augmentee(te, te1, m, parent) ==
  /\ te1 = [c \in DOMAIN te1 |-> te1[c]] /\ DOMAIN te1 = DOMAIN te \cup {m}
  /\ \A c \in DOMAIN te1 : te1[c] = IF c = m THEN parent ELSE te[c]
Diminuee(te, te1, x) ==
  /\ te1 = [c \in DOMAIN te1 |-> te1[c]] /\ DOMAIN te1 \subseteq DOMAIN te
  /\ \A c \in DOMAIN te : c \in DOMAIN te1 <=> ~(c = x \/ te[c] = x)
  /\ \A c \in DOMAIN te1 : te1[c] = te[c]

\* The base: a reply stands under a comment that answers none.
FilEnBase(te, d) ==
  /\ te = [c \in DOMAIN te |-> te[c]]
  /\ DOMAIN te \subseteq Paroles /\ IsFiniteSet(DOMAIN te)
  /\ \A c \in DOMAIN te :
       c <= d /\ (te[c] # Tete => te[c] \in DOMAIN te /\ te[te[c]] = Tete)

\* The page: an id has one place.
FilMontre(f, d) ==
  /\ f = [c \in DOMAIN f |-> f[c]] /\ IsFiniteSet(Vus(f))
  /\ \A c \in DOMAIN f : /\ c \in Paroles /\ c <= d /\ f[c] \subseteq Paroles
                         /\ \A r \in f[c] : r <= d /\ r \notin DOMAIN f
  /\ \A c, e \in DOMAIN f : \A r \in f[c] : r \in f[e] => c = e

\* The page and the base: what both have is in the same place, a reply is
\* missing only before its answer, and something gone still shows only before
\* the answer to its deletion.
Parti(c, po) ==
  \E g \in Guichets : po[g].quoi = "effacer" /\ po[g].sur = c /\ po[g].rendu = c
Ote(r, po) == \E g \in Guichets : po[g].quoi = "oter" /\ po[g].sur = r /\ po[g].rendu = r
FilAccorde(te, f, po) ==
  \A c \in DOMAIN f :
    /\ c \in DOMAIN te => te[c] = Tete
    /\ c \notin DOMAIN te => Parti(c, po)
    /\ \A r \in f[c] : /\ r \in DOMAIN te => te[r] = c
                       /\ r \notin DOMAIN te => Parti(c, po) \/ Ote(r, po)
    /\ \A y \in DOMAIN te : te[y] = c => y \in f[c] \cup Nes(po)

\* A request: what it names is old, and its answer is news to the page.
Visee(q, d, po) == q.sur \in Paroles /\ q.sur <= d /\ q.sur \notin Nes(po)
UneParole(q, te, f, d, po) ==
  /\ q.quoi = "aucun" => q = Chome
  /\ q.quoi = "poster" =>
       /\ q.sur = Tete /\ q.rendu # Refusee
       /\ q.rendu \in Paroles =>
            /\ q.rendu \in DOMAIN te \ Vus(f) /\ te[q.rendu] = Tete
            /\ \A y \in DOMAIN te : te[y] # q.rendu
  /\ q.quoi = "repondre" =>
       /\ Visee(q, d, po) /\ (q.sur \in DOMAIN te => q.sur \in DOMAIN f)
       /\ q.rendu \in Paroles =>
            /\ q.rendu \notin Vus(f) /\ q.rendu <= d
            /\ IF q.rendu \in DOMAIN te THEN te[q.rendu] = q.sur ELSE q.sur \notin DOMAIN te
  /\ q.quoi = "effacer" =>
       /\ Visee(q, d, po) /\ (q.sur \in DOMAIN te => q.sur \in DOMAIN f)
       /\ q.rendu \in Paroles => q.rendu = q.sur /\ q.sur \notin DOMAIN te
  /\ q.quoi = "oter" =>
       /\ Visee(q, d, po) /\ (q.sur \in DOMAIN te => \E c \in DOMAIN f : q.sur \in f[c])
       /\ q.rendu \in Paroles => q.rendu = q.sur /\ q.sur \notin DOMAIN te
Distinctes(po) ==
  \A g, h \in Guichets : g # h /\ {po[g].quoi, po[h].quoi} \subseteq {"poster", "repondre"}
                           /\ po[g].rendu \in Paroles => po[g].rendu # po[h].rendu

\* Before the list is shown only comments are posted, and it has them as the
\* base has.
FilAmorce(am, te, po) ==
  /\ am.etat \in {"envoye", "lu", "fini"}
  /\ am.etat # "fini" => \A g \in Guichets : po[g].quoi \in {"aucun", "poster"}
  /\ am.etat = "lu" =>
       /\ am.lu = [c \in DOMAIN am.lu |-> am.lu[c]]
       /\ \A c \in DOMAIN am.lu : /\ c \in DOMAIN te /\ te[c] = Tete
                                  /\ am.lu[c] = {y \in DOMAIN te : te[y] = c}

FilSuivi(te, d, am, f, n, po) ==
  /\ d \in Nat /\ po \in [Guichets -> Courrier]
  /\ FilEnBase(te, d) /\ FilMontre(f, d) /\ FilAccorde(te, f, po)
  /\ \A g \in Guichets : UneParole(po[g], te, f, d, po)
  /\ Distinctes(po) /\ FilAmorce(am, te, po)
  /\ n = Cardinality(Comptees(te, f, po))

FilInv ==
  ecartee \in BOOLEAN /\ (~ecartee => FilSuivi(tenues, donnees, amorce, auFil, total, postes))

\* A request that asks the server for a new comment, once written.
Neuve(q) == q.quoi \in {"poster", "repondre"} /\ q.rendu \in Paroles

LEMMA OnePost ==
  ASSUME NEW po \in [Guichets -> Courrier], NEW g \in Guichets, NEW q \in Courrier,
         NEW po1, po1 = [po EXCEPT ![g] = q]
  PROVE  /\ po1 \in [Guichets -> Courrier]
         /\ \A h \in Guichets : po1[h] = IF h = g THEN q ELSE po[h]
OBVIOUS

LEMMA NoNews ==
  ASSUME NEW po \in [Guichets -> Courrier], NEW g \in Guichets, NEW q \in Courrier,
         NEW po1, po1 = [po EXCEPT ![g] = q], ~Neuve(q), ~Neuve(po[g])
  PROVE  Nes(po1) = Nes(po)
<1>1. \A h \in Guichets : po1[h] = IF h = g THEN q ELSE po[h]
  BY OnePost
<1>2. ASSUME NEW n \in Paroles, NEW h \in Guichets, po1[h].quoi \in {"poster", "repondre"}, po1[h].rendu = n
      PROVE  n \in Nes(po)
  <2>1. h # g
    BY <1>1, <1>2 DEF Neuve
  <2> QED BY <1>1, <1>2, <2>1 DEF Nes
<1>3. ASSUME NEW n \in Paroles, NEW h \in Guichets, po[h].quoi \in {"poster", "repondre"}, po[h].rendu = n
      PROVE  n \in Nes(po1)
  <2>1. h # g
    BY <1>3 DEF Neuve
  <2> QED BY <1>1, <1>3, <2>1 DEF Nes
<1> QED BY <1>2, <1>3 DEF Nes

LEMMA OneNewer ==
  ASSUME NEW po \in [Guichets -> Courrier], NEW g \in Guichets, NEW q \in Courrier,
         NEW po1, po1 = [po EXCEPT ![g] = q], Neuve(q), ~Neuve(po[g])
  PROVE  Nes(po1) = Nes(po) \cup {q.rendu}
<1>1. \A h \in Guichets : po1[h] = IF h = g THEN q ELSE po[h]
  BY OnePost
<1>2. ASSUME NEW n \in Paroles, NEW h \in Guichets, po1[h].quoi \in {"poster", "repondre"}, po1[h].rendu = n
      PROVE  n \in Nes(po) \cup {q.rendu}
  BY <1>1, <1>2 DEF Nes
<1>3. ASSUME NEW n \in Paroles, NEW h \in Guichets, po[h].quoi \in {"poster", "repondre"}, po[h].rendu = n
      PROVE  n \in Nes(po1)
  <2>1. h # g
    BY <1>3 DEF Neuve
  <2> QED BY <1>1, <1>3, <2>1 DEF Nes
<1>4. q.rendu \in Nes(po1)
  BY <1>1 DEF Nes, Neuve
<1> QED BY <1>2, <1>3, <1>4 DEF Nes

LEMMA OneKnown ==
  ASSUME NEW po \in [Guichets -> Courrier], NEW g \in Guichets, NEW q \in Courrier,
         NEW po1, po1 = [po EXCEPT ![g] = q], ~Neuve(q), Neuve(po[g]), Distinctes(po)
  PROVE  Nes(po1) = Nes(po) \ {po[g].rendu}
<1>1. \A h \in Guichets : po1[h] = IF h = g THEN q ELSE po[h]
  BY OnePost
<1>2. ASSUME NEW n \in Paroles, NEW h \in Guichets, po1[h].quoi \in {"poster", "repondre"}, po1[h].rendu = n
      PROVE  n \in Nes(po) /\ n # po[g].rendu
  <2>1. h # g
    BY <1>1, <1>2 DEF Neuve
  <2>2. po[h].quoi \in {"poster", "repondre"} /\ po[h].rendu = n
    BY <1>1, <1>2, <2>1
  <2>3. n # po[g].rendu
    BY <2>1, <2>2 DEF Distinctes, Neuve
  <2> QED BY <2>2, <2>3 DEF Nes
<1>3. ASSUME NEW n \in Paroles, NEW h \in Guichets, po[h].quoi \in {"poster", "repondre"}, po[h].rendu = n,
             n # po[g].rendu
      PROVE  n \in Nes(po1)
  <2>1. h # g
    BY <1>3
  <2> QED BY <1>1, <1>3, <2>1 DEF Nes
<1> QED BY <1>2, <1>3 DEF Nes

\* What is said of a request goes on when the page and the requests change,
\* if nothing the base still has goes from the page.
LEMMA StillAsked ==
  ASSUME NEW q, NEW te, NEW f, NEW f1, NEW d, NEW po, NEW po1, UneParole(q, te, f, d, po),
         Nes(po1) \subseteq Nes(po),
         Neuve(q) => q.rendu \notin Vus(f1),
         \A c \in DOMAIN f : c \in DOMAIN te => c \in DOMAIN f1,
         \A c \in DOMAIN f : \A r \in f[c] : r \in DOMAIN te => \E e \in DOMAIN f1 : r \in f1[e]
  PROVE  UneParole(q, te, f1, d, po1)
<1>1. Visee(q, d, po) => Visee(q, d, po1)
  BY DEF Visee
<1> QED BY <1>1 DEF UneParole, Neuve

\* An answer the page has nothing to do with.
LEMMA NothingToShow ==
  ASSUME NEW te, NEW d, NEW am, NEW f, NEW n, NEW po, FilSuivi(te, d, am, f, n, po),
         NEW g \in Guichets, NEW po1, po1 = [po EXCEPT ![g] = Chome],
         Neuve(po[g]) => po[g].quoi = "repondre" /\ po[g].rendu \notin DOMAIN te,
         po[g].quoi = "effacer" /\ po[g].rendu \in Paroles => po[g].sur \notin DOMAIN f,
         po[g].quoi = "oter" /\ po[g].rendu \in Paroles => \A c \in DOMAIN f : po[g].sur \notin f[c]
  PROVE  FilSuivi(te, d, am, f, n, po1)
<1>1. /\ Chome \in Courrier /\ ~Neuve(Chome) /\ Chome.quoi = "aucun" /\ po \in [Guichets -> Courrier]
      /\ Chome.quoi \notin {"poster", "repondre", "effacer", "oter"}
  BY DEF Chome, Courrier, Quois, Neuve, FilSuivi
<1>2. po1 \in [Guichets -> Courrier] /\ \A h \in Guichets : po1[h] = IF h = g THEN Chome ELSE po[h]
  BY <1>1, OnePost
<1>3. /\ Nes(po1) \subseteq Nes(po) /\ DOMAIN te \cap Nes(po1) = DOMAIN te \cap Nes(po)
  <2>1. CASE Neuve(po[g])
    <3>1. Nes(po1) = Nes(po) \ {po[g].rendu}
      BY <1>1, <2>1, OneKnown DEF FilSuivi
    <3> QED BY <2>1, <3>1
  <2>2. CASE ~Neuve(po[g])
    BY <1>1, <2>2, NoNews
  <2> QED BY <2>1, <2>2
<1>4. ASSUME NEW h \in Guichets
      PROVE  UneParole(po1[h], te, f, d, po1)
  <2>1. CASE h = g
    BY <1>1, <1>2, <2>1 DEF UneParole
  <2>2. CASE h # g
    <3>1. po1[h] = po[h] /\ UneParole(po[h], te, f, d, po)
      BY <1>2, <2>2 DEF FilSuivi
    <3>2. Neuve(po[h]) => po[h].rendu \notin Vus(f)
      BY <3>1 DEF UneParole, Neuve
    <3>3. \A c \in DOMAIN f : \A r \in f[c] : r \in DOMAIN te => \E e \in DOMAIN f : r \in f[e]
      OBVIOUS
    <3>4. UneParole(po[h], te, f, d, po1)
      BY <1>3, <3>1, <3>2, <3>3, StillAsked
    <3> QED BY <3>1, <3>4
  <2> QED BY <2>1, <2>2
<1>5. Distinctes(po1)
  BY <1>1, <1>2 DEF Distinctes, FilSuivi
<1>6. FilAmorce(am, te, po1)
  BY <1>1, <1>2 DEF FilAmorce, FilSuivi
<1>7. FilMontre(f, d) /\ FilEnBase(te, d)
  BY DEF FilSuivi
<1>8. ASSUME NEW c \in DOMAIN f, Parti(c, po)
      PROVE  Parti(c, po1)
  <2>1. PICK h \in Guichets : po[h].quoi = "effacer" /\ po[h].sur = c /\ po[h].rendu = c
    BY <1>8 DEF Parti
  <2>2. c \in Paroles
    BY <1>7 DEF FilMontre
  <2>3. h # g
    BY <2>1, <2>2
  <2> QED BY <1>2, <2>1, <2>3 DEF Parti
<1>9. ASSUME NEW c \in DOMAIN f, NEW r \in f[c], Ote(r, po)
      PROVE  Ote(r, po1)
  <2>1. PICK h \in Guichets : po[h].quoi = "oter" /\ po[h].sur = r /\ po[h].rendu = r
    BY <1>9 DEF Ote
  <2>2. r \in Paroles
    BY <1>7 DEF FilMontre
  <2>3. h # g
    BY <2>1, <2>2
  <2> QED BY <1>2, <2>1, <2>3 DEF Ote
<1>10. FilAccorde(te, f, po1)
  <2>1. FilAccorde(te, f, po)
    BY DEF FilSuivi
  <2> QED BY <1>3, <1>8, <1>9, <2>1 DEF FilAccorde
<1>11. Comptees(te, f, po1) = Comptees(te, f, po)
  BY <1>3 DEF Comptees
<1> QED BY <1>2, <1>4, <1>5, <1>6, <1>7, <1>10, <1>11 DEF FilSuivi

\* A comment or a reply the page learns of.  Where it goes is f1.
LEMMA OneMore ==
  ASSUME NEW te, NEW d, NEW am, NEW f, NEW n, NEW po, FilSuivi(te, d, am, f, n, po),
         NEW g \in Guichets, NEW po1, po1 = [po EXCEPT ![g] = Chome], Neuve(po[g]),
         NEW f1, FilMontre(f1, d), Vus(f1) = Vus(f) \cup {po[g].rendu},
         DOMAIN f \subseteq DOMAIN f1, \A c \in DOMAIN f : f[c] \subseteq f1[c],
         FilAccorde(te, f1, po1)
  PROVE  FilSuivi(te, d, am, f1, n + 1, po1)
<1> DEFINE m == po[g].rendu
<1>1. /\ Chome \in Courrier /\ ~Neuve(Chome) /\ Chome.quoi = "aucun" /\ po \in [Guichets -> Courrier]
      /\ Chome.quoi \notin {"poster", "repondre", "effacer", "oter"}
  BY DEF Chome, Courrier, Quois, Neuve, FilSuivi
<1>2. po1 \in [Guichets -> Courrier] /\ \A h \in Guichets : po1[h] = IF h = g THEN Chome ELSE po[h]
  BY <1>1, OnePost
<1>3. Nes(po1) = Nes(po) \ {m}
  BY <1>1, OneKnown DEF FilSuivi
<1>4. ASSUME NEW h \in Guichets
      PROVE  UneParole(po1[h], te, f1, d, po1)
  <2>1. CASE h = g
    BY <1>1, <1>2, <2>1 DEF UneParole
  <2>2. CASE h # g
    <3>1. po1[h] = po[h] /\ UneParole(po[h], te, f, d, po)
      BY <1>2, <2>2 DEF FilSuivi
    <3>2. Neuve(po[h]) => po[h].rendu \notin Vus(f)
      BY <3>1 DEF UneParole, Neuve
    <3>3. Neuve(po[h]) => po[h].rendu # m
      BY <2>2 DEF FilSuivi, Distinctes, Neuve
    <3>4. Neuve(po[h]) => po[h].rendu \notin Vus(f1)
      BY <3>2, <3>3
    <3>5. \A c \in DOMAIN f : c \in DOMAIN te => c \in DOMAIN f1
      OBVIOUS
    <3>6. \A c \in DOMAIN f : \A r \in f[c] : r \in DOMAIN te => \E e \in DOMAIN f1 : r \in f1[e]
      OBVIOUS
    <3>7. Nes(po1) \subseteq Nes(po)
      BY <1>3
    <3>8. UneParole(po[h], te, f1, d, po1)
      BY <3>1, <3>4, <3>5, <3>6, <3>7, StillAsked
    <3> QED BY <3>1, <3>8
  <2> QED BY <2>1, <2>2
<1>5. Distinctes(po1)
  BY <1>1, <1>2 DEF Distinctes, FilSuivi
<1>6. FilAmorce(am, te, po1)
  BY <1>1, <1>2 DEF FilAmorce, FilSuivi
<1>7. UneParole(po[g], te, f, d, po) /\ IsFiniteSet(DOMAIN te) /\ IsFiniteSet(Vus(f))
  BY DEF FilSuivi, FilEnBase, FilMontre
<1>8. m \in Nes(po) /\ m \notin Vus(f)
  BY <1>7 DEF Neuve, UneParole, Nes
<1> DEFINE K == Comptees(te, f, po)
<1>9. Comptees(te, f1, po1) = K \cup {m} /\ m \notin K
  BY <1>3, <1>8 DEF Comptees
<1>10. IsFiniteSet(K)
  <2>1. IsFiniteSet(DOMAIN te \ Nes(po))
    BY <1>7, FS_Difference
  <2> QED BY <1>7, <2>1, FS_Union DEF Comptees
<1>11. Cardinality(K \cup {m}) = n + 1
  <2> HIDE DEF K, m
  <2>1. n = Cardinality(K)
    BY DEF FilSuivi, K
  <2> QED BY <1>9, <1>10, <2>1, FS_AddElement
<1> QED BY <1>2, <1>4, <1>5, <1>6, <1>9, <1>11 DEF FilSuivi

\* What leaves the page, as the base let it go.
LEMMA SomeLess ==
  ASSUME NEW te, NEW d, NEW am, NEW f, NEW n, NEW po, FilSuivi(te, d, am, f, n, po),
         NEW g \in Guichets, NEW po1, po1 = [po EXCEPT ![g] = Chome], ~Neuve(po[g]),
         NEW f1, FilMontre(f1, d), NEW S, IsFiniteSet(S), S \subseteq Vus(f), Vus(f1) = Vus(f) \ S,
         S \cap DOMAIN te = {},
         \A c \in DOMAIN f : c \in DOMAIN te => c \in DOMAIN f1,
         \A c \in DOMAIN f : \A r \in f[c] : r \in DOMAIN te => \E e \in DOMAIN f1 : r \in f1[e],
         FilAccorde(te, f1, po1)
  PROVE  FilSuivi(te, d, am, f1, n - Cardinality(S), po1)
<1>1. /\ Chome \in Courrier /\ ~Neuve(Chome) /\ Chome.quoi = "aucun" /\ po \in [Guichets -> Courrier]
      /\ Chome.quoi \notin {"poster", "repondre", "effacer", "oter"}
  BY DEF Chome, Courrier, Quois, Neuve, FilSuivi
<1>2. po1 \in [Guichets -> Courrier] /\ \A h \in Guichets : po1[h] = IF h = g THEN Chome ELSE po[h]
  BY <1>1, OnePost
<1>3. Nes(po1) = Nes(po)
  BY <1>1, NoNews
<1>4. ASSUME NEW h \in Guichets
      PROVE  UneParole(po1[h], te, f1, d, po1)
  <2>1. CASE h = g
    BY <1>1, <1>2, <2>1 DEF UneParole
  <2>2. CASE h # g
    <3>1. po1[h] = po[h] /\ UneParole(po[h], te, f, d, po)
      BY <1>2, <2>2 DEF FilSuivi
    <3>2. Neuve(po[h]) => po[h].rendu \notin Vus(f1)
      BY <3>1 DEF UneParole, Neuve
    <3> QED BY <1>3, <3>1, <3>2, StillAsked
  <2> QED BY <2>1, <2>2
<1>5. Distinctes(po1)
  BY <1>1, <1>2 DEF Distinctes, FilSuivi
<1>6. FilAmorce(am, te, po1)
  BY <1>1, <1>2 DEF FilAmorce, FilSuivi
<1>7. IsFiniteSet(DOMAIN te) /\ IsFiniteSet(Vus(f))
  BY DEF FilSuivi, FilEnBase, FilMontre
<1> DEFINE K == Comptees(te, f, po)
<1>8. Comptees(te, f1, po1) = K \ S /\ K \cap S = S
  BY <1>3 DEF Comptees
<1>9. IsFiniteSet(K)
  <2>1. IsFiniteSet(DOMAIN te \ Nes(po))
    BY <1>7, FS_Difference
  <2> QED BY <1>7, <2>1, FS_Union DEF Comptees
<1>10. Cardinality(K \ S) = n - Cardinality(S)
  <2> HIDE DEF K
  <2>1. n = Cardinality(K)
    BY DEF FilSuivi, K
  <2> QED BY <1>8, <1>9, <2>1, FS_Difference
<1> QED BY <1>2, <1>4, <1>5, <1>6, <1>8, <1>10 DEF FilSuivi

LEMMA SameAsked ==
  ASSUME NEW q, NEW te, NEW f, NEW d, NEW po, NEW po1, UneParole(q, te, f, d, po),
         Nes(po1) \subseteq Nes(po)
  PROVE  UneParole(q, te, f, d, po1)
<1>1. Visee(q, d, po) => Visee(q, d, po1)
  BY DEF Visee
<1> QED BY <1>1 DEF UneParole

\* What is said to be gone stays so while the request that took it is there.
LEMMA StillGone ==
  ASSUME NEW po \in [Guichets -> Courrier], NEW g \in Guichets, NEW q \in Courrier,
         NEW po1, po1 = [po EXCEPT ![g] = q], NEW c \in Paroles, Parti(c, po),
         po[g].quoi = "effacer" => po[g].rendu # c
  PROVE  Parti(c, po1)
<1>1. PICK h \in Guichets : po[h].quoi = "effacer" /\ po[h].sur = c /\ po[h].rendu = c
  BY DEF Parti
<1>2. h # g /\ po1[h] = po[h]
  BY <1>1, OnePost
<1> QED BY <1>1, <1>2 DEF Parti

LEMMA StillTaken ==
  ASSUME NEW po \in [Guichets -> Courrier], NEW g \in Guichets, NEW q \in Courrier,
         NEW po1, po1 = [po EXCEPT ![g] = q], NEW c \in Paroles, Ote(c, po),
         po[g].quoi = "oter" => po[g].rendu # c
  PROVE  Ote(c, po1)
<1>1. PICK h \in Guichets : po[h].quoi = "oter" /\ po[h].sur = c /\ po[h].rendu = c
  BY DEF Ote
<1>2. h # g /\ po1[h] = po[h]
  BY <1>1, OnePost
<1> QED BY <1>1, <1>2 DEF Ote

\* ParolePostee: the comment joins the list, and has no reply yet.
LEMMA PostShown ==
  ASSUME NEW te, NEW d, NEW am, NEW f, NEW n, NEW po, FilSuivi(te, d, am, f, n, po),
         NEW g \in Guichets, po[g].quoi = "poster", po[g].rendu # Tete,
         NEW po1, po1 = [po EXCEPT ![g] = Chome],
         NEW f1, Jointe(f, f1, po[g].rendu)
  PROVE  FilSuivi(te, d, am, f1, n + 1, po1)
<1> DEFINE m == po[g].rendu
<1>1. /\ FilMontre(f, d) /\ FilEnBase(te, d) /\ FilAccorde(te, f, po) /\ Distinctes(po)
      /\ po \in [Guichets -> Courrier] /\ UneParole(po[g], te, f, d, po) /\ Chome \in Courrier
      /\ ~Neuve(Chome)
  BY DEF FilSuivi, Chome, Courrier, Quois, Neuve
<1>2. m \in Paroles /\ Neuve(po[g])
  BY <1>1 DEF UneParole, Courrier, Neuve
<1>3. m \in DOMAIN te /\ m \notin Vus(f) /\ te[m] = Tete /\ \A y \in DOMAIN te : te[y] # m
  BY <1>1, <1>2 DEF UneParole
<1>4. /\ DOMAIN f1 = DOMAIN f \cup {m} /\ m \notin DOMAIN f /\ f1[m] = {}
      /\ \A c \in DOMAIN f : c # m /\ f1[c] = f[c]
  BY <1>3 DEF Vus, Jointe
<1>5. Vus(f1) = Vus(f) \cup {m}
  BY <1>2, <1>4 DEF Vus
<1>6. FilMontre(f1, d)
  <2>1. IsFiniteSet(Vus(f1))
    <3>1. IsFiniteSet(Vus(f))
      BY <1>1 DEF FilMontre
    <3>2. IsFiniteSet(Vus(f) \cup {m})
      BY <3>1, FS_AddElement
    <3> QED BY <1>5, <3>2
  <2>2. m <= d
    BY <1>1, <1>3 DEF FilEnBase
  <2>3. \A c \in DOMAIN f : m \notin f[c]
    BY <1>2, <1>3 DEF Vus
  <2>4. f1 = [c \in DOMAIN f1 |-> f1[c]]
    BY DEF Jointe
  <2> HIDE DEF m
  <2> QED BY <1>1, <1>2, <1>4, <2>1, <2>2, <2>3, <2>4 DEF FilMontre
<1>7. Nes(po1) = Nes(po) \ {m}
  <2>1. Nes(po1) = Nes(po) \ {po[g].rendu}
    BY <1>1, <1>2, OneKnown
  <2> QED BY <2>1
<1>8. FilAccorde(te, f1, po1)
  <2>1. \A c \in Paroles : (Parti(c, po) => Parti(c, po1)) /\ (Ote(c, po) => Ote(c, po1))
    BY <1>1, StillGone, StillTaken
  <2>2. ASSUME NEW c \in DOMAIN f
        PROVE  /\ c \in DOMAIN te => te[c] = Tete
               /\ c \notin DOMAIN te => Parti(c, po1)
               /\ \A r \in f[c] : /\ r \in DOMAIN te => te[r] = c
                                  /\ r \notin DOMAIN te => Parti(c, po1) \/ Ote(r, po1)
    BY <1>1, <2>1 DEF FilAccorde, FilMontre
  <2>3. ASSUME NEW c \in DOMAIN f, NEW y \in DOMAIN te, te[y] = c
        PROVE  y \in f[c] \cup Nes(po1)
    <3>1. c \in Paroles
      BY <1>1 DEF FilMontre
    <3>2. y # m
      BY <1>3, <2>3, <3>1, FilAssumption
    <3> QED BY <1>1, <1>7, <2>3, <3>2 DEF FilAccorde
  <2> HIDE DEF m
  <2> QED BY <1>3, <1>4, <2>2, <2>3 DEF FilAccorde
<1>9. DOMAIN f \subseteq DOMAIN f1 /\ \A c \in DOMAIN f : f[c] \subseteq f1[c]
  BY <1>4
<1> QED BY <1>2, <1>5, <1>6, <1>8, <1>9, OneMore

\* ReponsePostee, heard: the reply joins those of its comment.
LEMMA ReplyShown ==
  ASSUME NEW te, NEW d, NEW am, NEW f, NEW n, NEW po, FilSuivi(te, d, am, f, n, po),
         NEW g \in Guichets, po[g].quoi = "repondre", po[g].rendu \notin {Tete, Refusee},
         po[g].sur \in DOMAIN f,
         NEW po1, po1 = [po EXCEPT ![g] = Chome],
         NEW f1, f1 = [f EXCEPT ![po[g].sur] = @ \cup {po[g].rendu}]
  PROVE  FilSuivi(te, d, am, f1, n + 1, po1)
<1> DEFINE m == po[g].rendu
           s == po[g].sur
<1>1. /\ FilMontre(f, d) /\ FilEnBase(te, d) /\ FilAccorde(te, f, po) /\ Distinctes(po)
      /\ po \in [Guichets -> Courrier] /\ UneParole(po[g], te, f, d, po) /\ Chome \in Courrier
      /\ ~Neuve(Chome)
  BY DEF FilSuivi, Chome, Courrier, Quois, Neuve
<1>2. m \in Paroles /\ Neuve(po[g])
  BY <1>1 DEF Courrier, Neuve
<1>3. m \notin Vus(f) /\ m <= d /\ IF m \in DOMAIN te THEN te[m] = s ELSE s \notin DOMAIN te
  BY <1>1, <1>2 DEF UneParole
<1>4. DOMAIN f1 = DOMAIN f /\ \A c \in DOMAIN f : f1[c] = IF c = s THEN f[c] \cup {m} ELSE f[c]
  BY <1>1 DEF FilMontre
<1>5. Vus(f1) = Vus(f) \cup {m}
  BY <1>2, <1>4 DEF Vus
<1>6. FilMontre(f1, d)
  <2>1. IsFiniteSet(Vus(f1))
    <3>1. IsFiniteSet(Vus(f))
      BY <1>1 DEF FilMontre
    <3>2. IsFiniteSet(Vus(f) \cup {m})
      BY <3>1, FS_AddElement
    <3> QED BY <1>5, <3>2
  <2>2. m \notin DOMAIN f /\ \A c \in DOMAIN f : m \notin f[c]
    BY <1>2, <1>3 DEF Vus
  <2>3. f1 = [c \in DOMAIN f1 |-> f1[c]]
    BY <1>1 DEF FilMontre
  <2>4. \A c \in DOMAIN f : /\ c \in Paroles /\ c <= d
                            /\ \A r \in f[c] : r \in Paroles /\ r <= d /\ r \notin DOMAIN f
    BY <1>1 DEF FilMontre
  <2>5. \A c, e \in DOMAIN f : \A r \in f[c] : r \in f[e] => c = e
    BY <1>1 DEF FilMontre
  <2> HIDE DEF m, s
  <2>6. ASSUME NEW c \in DOMAIN f1, NEW r \in f1[c]
        PROVE  r \in Paroles /\ r <= d /\ r \notin DOMAIN f1
    <3>1. c \in DOMAIN f /\ (r = m \/ r \in f[c])
      BY <1>4
    <3> QED BY <1>2, <1>3, <1>4, <2>2, <2>4, <3>1
  <2>7. ASSUME NEW c \in DOMAIN f1, NEW e \in DOMAIN f1, NEW r \in f1[c], r \in f1[e]
        PROVE  c = e
    <3>1. /\ c \in DOMAIN f /\ e \in DOMAIN f
          /\ f1[c] = IF c = s THEN f[c] \cup {m} ELSE f[c]
          /\ f1[e] = IF e = s THEN f[e] \cup {m} ELSE f[e]
      BY <1>4
    <3>2. r \in f1[c] /\ r \in f1[e]
      BY <2>7
    <3>3. r \in f[c] \/ (r = m /\ c = s)
      BY <3>1, <3>2
    <3>4. r \in f[e] \/ (r = m /\ e = s)
      BY <3>1, <3>2
    <3> QED BY <2>2, <2>5, <3>1, <3>3, <3>4
  <2> QED BY <1>4, <2>1, <2>3, <2>4, <2>6, <2>7 DEF FilMontre
<1>7. Nes(po1) = Nes(po) \ {m}
  <2>1. Nes(po1) = Nes(po) \ {po[g].rendu}
    BY <1>1, <1>2, OneKnown
  <2> QED BY <2>1
<1>8. FilAccorde(te, f1, po1)
  <2>1. \A c \in Paroles : (Parti(c, po) => Parti(c, po1)) /\ (Ote(c, po) => Ote(c, po1))
    BY <1>1, StillGone, StillTaken
  <2>2. ASSUME NEW c \in DOMAIN f
        PROVE  /\ c \in DOMAIN te => te[c] = Tete
               /\ c \notin DOMAIN te => Parti(c, po1)
               /\ \A r \in f[c] : /\ r \in DOMAIN te => te[r] = c
                                  /\ r \notin DOMAIN te => Parti(c, po1) \/ Ote(r, po1)
    BY <1>1, <2>1 DEF FilAccorde, FilMontre
  <2>3. ASSUME NEW c \in DOMAIN f, NEW y \in DOMAIN te, te[y] = c
        PROVE  y \in f1[c] \cup Nes(po1)
    <3>1. y \in f[c] \cup Nes(po)
      BY <1>1, <2>3 DEF FilAccorde
    <3> QED BY <1>3, <1>4, <1>7, <2>3, <3>1
  <2> HIDE DEF m, s
  <2>4. ASSUME NEW c \in DOMAIN f1, NEW r \in f1[c]
        PROVE  /\ r \in DOMAIN te => te[r] = c
               /\ r \notin DOMAIN te => Parti(c, po1) \/ Ote(r, po1)
    <3>1. CASE r \in f[c]
      BY <1>4, <2>2, <3>1
    <3>2. CASE r \notin f[c]
      <4>1. r = m /\ c = s
        BY <1>4, <2>4, <3>2
      <4> QED BY <1>3, <1>4, <2>2, <4>1
    <3> QED BY <3>1, <3>2
  <2> QED BY <1>3, <1>4, <2>2, <2>3, <2>4 DEF FilAccorde
<1>9. DOMAIN f \subseteq DOMAIN f1 /\ \A c \in DOMAIN f : f[c] \subseteq f1[c]
  BY <1>4
<1> QED BY <1>2, <1>5, <1>6, <1>8, <1>9, OneMore

\* FilEfface, heard: the comment leaves the page with its replies, which the
\* base no longer has either.
LEMMA ThreadGone ==
  ASSUME NEW te, NEW d, NEW am, NEW f, NEW n, NEW po, FilSuivi(te, d, am, f, n, po),
         NEW g \in Guichets, po[g].quoi = "effacer", po[g].rendu \notin {Tete, Refusee},
         NEW c, c = po[g].sur, c \in DOMAIN f,
         NEW po1, po1 = [po EXCEPT ![g] = Chome],
         NEW f1, f1 = [e \in DOMAIN f \ {c} |-> f[e]]
  PROVE  FilSuivi(te, d, am, f1, n - (1 + Cardinality(f[c])), po1)
<1> DEFINE S == f[c] \cup {c}
<1>1. /\ FilMontre(f, d) /\ FilEnBase(te, d) /\ FilAccorde(te, f, po)
      /\ po \in [Guichets -> Courrier] /\ UneParole(po[g], te, f, d, po) /\ Chome \in Courrier
      /\ ~Neuve(Chome) /\ ~Neuve(po[g]) /\ c \in Paroles
  BY DEF FilSuivi, FilMontre, Chome, Courrier, Quois, Neuve
<1>2. po[g].rendu = c /\ c \notin DOMAIN te
  BY <1>1 DEF UneParole, Courrier
<1>3. DOMAIN f1 = DOMAIN f \ {c} /\ \A e \in DOMAIN f1 : f1[e] = f[e]
  OBVIOUS
<1>4. /\ IsFiniteSet(Vus(f))
      /\ \A e \in DOMAIN f : /\ e \in Paroles /\ e <= d /\ f[e] \subseteq Paroles
                             /\ \A r \in f[e] : r <= d /\ r \notin DOMAIN f
      /\ \A b, e \in DOMAIN f : \A r \in f[b] : r \in f[e] => b = e
  BY <1>1 DEF FilMontre
<1>5. S \subseteq Vus(f)
  BY <1>4 DEF Vus
<1>6. Vus(f1) = Vus(f) \ S
  <2>1. ASSUME NEW x \in Vus(f1)
        PROVE  x \in Vus(f) \ S
    BY <1>3, <1>4 DEF Vus
  <2>2. ASSUME NEW x \in Vus(f), x \notin S
        PROVE  x \in Vus(f1)
    BY <1>3, <2>2 DEF Vus
  <2> QED BY <2>1, <2>2
<1>7. IsFiniteSet(S) /\ Cardinality(S) = 1 + Cardinality(f[c])
  <2>1. IsFiniteSet(f[c])
    BY <1>4, <1>5, FS_Subset
  <2>2. c \notin f[c]
    BY <1>4
  <2>3. Cardinality(f[c]) \in Nat
    BY <2>1, FS_CardinalityType
  <2> QED BY <2>1, <2>2, <2>3, FS_AddElement
<1>8. FilMontre(f1, d)
  <2>1. IsFiniteSet(Vus(f1))
    <3>1. IsFiniteSet(Vus(f)) /\ Vus(f1) \subseteq Vus(f)
      BY <1>4, <1>6
    <3> QED BY <3>1, FS_Subset
  <2>2. f1 = [e \in DOMAIN f1 |-> f1[e]]
    BY <1>3
  <2>3. \A e \in DOMAIN f1 : /\ e \in Paroles /\ e <= d /\ f1[e] \subseteq Paroles
                             /\ \A r \in f1[e] : r <= d /\ r \notin DOMAIN f1
    BY <1>3, <1>4
  <2>4. \A b, e \in DOMAIN f1 : \A r \in f1[b] : r \in f1[e] => b = e
    BY <1>3, <1>4
  <2> QED BY <2>1, <2>2, <2>3, <2>4 DEF FilMontre
<1>9. S \cap DOMAIN te = {}
  <2>1. ASSUME NEW r \in f[c], r \in DOMAIN te
        PROVE  FALSE
    <3>1. te[r] = c
      BY <1>1, <2>1 DEF FilAccorde
    <3>2. te[r] # Tete => te[r] \in DOMAIN te
      BY <1>1, <2>1 DEF FilEnBase
    <3> QED BY <1>1, <1>2, <3>1, <3>2, FilAssumption
  <2> QED BY <1>2, <2>1
<1>10. Nes(po1) = Nes(po)
  BY <1>1, NoNews
<1>11. FilAccorde(te, f1, po1)
  <2>1. \A e \in Paroles : /\ e # c => (Parti(e, po) => Parti(e, po1))
                           /\ Ote(e, po) => Ote(e, po1)
    BY <1>1, <1>2, StillGone, StillTaken
  <2>2. ASSUME NEW e \in DOMAIN f, e # c
        PROVE  /\ e \in DOMAIN te => te[e] = Tete
               /\ e \notin DOMAIN te => Parti(e, po1)
               /\ \A r \in f[e] : /\ r \in DOMAIN te => te[r] = e
                                  /\ r \notin DOMAIN te => Parti(e, po1) \/ Ote(r, po1)
               /\ \A y \in DOMAIN te : te[y] = e => y \in f[e] \cup Nes(po1)
    BY <1>1, <1>4, <1>10, <2>1, <2>2 DEF FilAccorde
  <2> QED BY <1>3, <2>2 DEF FilAccorde
<1>12. \A e \in DOMAIN f : e \in DOMAIN te => e \in DOMAIN f1
  BY <1>2, <1>3
<1>13. \A e \in DOMAIN f : \A r \in f[e] : r \in DOMAIN te => \E b \in DOMAIN f1 : r \in f1[b]
  BY <1>3, <1>9
<1> HIDE DEF S
<1>14. FilSuivi(te, d, am, f1, n - Cardinality(S), po1)
  BY <1>1, <1>5, <1>6, <1>7, <1>8, <1>9, <1>11, <1>12, <1>13, SomeLess
<1> QED BY <1>7, <1>14

\* ReponseOtee, heard: one reply leaves its comment.
LEMMA ReplyGone ==
  ASSUME NEW te, NEW d, NEW am, NEW f, NEW n, NEW po, FilSuivi(te, d, am, f, n, po),
         NEW g \in Guichets, po[g].quoi = "oter", po[g].rendu \notin {Tete, Refusee},
         NEW x, x = po[g].sur, \E c \in DOMAIN f : x \in f[c],
         NEW po1, po1 = [po EXCEPT ![g] = Chome],
         NEW f1, Privee(f, f1, x)
  PROVE  FilSuivi(te, d, am, f1, n - 1, po1)
<1>1. /\ FilMontre(f, d) /\ FilEnBase(te, d) /\ FilAccorde(te, f, po)
      /\ po \in [Guichets -> Courrier] /\ UneParole(po[g], te, f, d, po) /\ Chome \in Courrier
      /\ ~Neuve(Chome) /\ ~Neuve(po[g]) /\ x \in Paroles
  BY DEF FilSuivi, FilMontre, Chome, Courrier, Quois, Neuve
<1>2. po[g].rendu = x /\ x \notin DOMAIN te
  BY <1>1 DEF UneParole, Courrier
<1>3. DOMAIN f1 = DOMAIN f /\ \A e \in DOMAIN f : f1[e] = f[e] \ {x}
  BY DEF Privee
<1>4. /\ IsFiniteSet(Vus(f))
      /\ \A e \in DOMAIN f : /\ e \in Paroles /\ e <= d /\ f[e] \subseteq Paroles
                             /\ \A r \in f[e] : r <= d /\ r \notin DOMAIN f
      /\ \A b, e \in DOMAIN f : \A r \in f[b] : r \in f[e] => b = e
  BY <1>1 DEF FilMontre
<1>5. {x} \subseteq Vus(f) /\ x \notin DOMAIN f
  BY <1>1, <1>4 DEF Vus
<1>6. Vus(f1) = Vus(f) \ {x}
  <2>1. ASSUME NEW y \in Vus(f1)
        PROVE  y \in Vus(f) \ {x}
    BY <1>3, <1>5 DEF Vus
  <2>2. ASSUME NEW y \in Vus(f), y # x
        PROVE  y \in Vus(f1)
    BY <1>3, <2>2 DEF Vus
  <2> QED BY <2>1, <2>2
<1>7. IsFiniteSet({x}) /\ Cardinality({x}) = 1
  BY FS_Singleton
<1>8. FilMontre(f1, d)
  <2>1. IsFiniteSet(Vus(f1))
    <3>1. IsFiniteSet(Vus(f)) /\ Vus(f1) \subseteq Vus(f)
      BY <1>4, <1>6
    <3> QED BY <3>1, FS_Subset
  <2>2. f1 = [e \in DOMAIN f1 |-> f1[e]]
    BY DEF Privee
  <2>3. \A e \in DOMAIN f1 : /\ e \in Paroles /\ e <= d /\ f1[e] \subseteq Paroles
                             /\ \A r \in f1[e] : r <= d /\ r \notin DOMAIN f1
    BY <1>3, <1>4
  <2>4. \A b, e \in DOMAIN f1 : \A r \in f1[b] : r \in f1[e] => b = e
    BY <1>3, <1>4
  <2> QED BY <2>1, <2>2, <2>3, <2>4 DEF FilMontre
<1>9. {x} \cap DOMAIN te = {}
  BY <1>2
<1>10. Nes(po1) = Nes(po)
  BY <1>1, NoNews
<1>11. FilAccorde(te, f1, po1)
  <2>1. \A e \in Paroles : /\ Parti(e, po) => Parti(e, po1)
                           /\ e # x => (Ote(e, po) => Ote(e, po1))
    BY <1>1, <1>2, StillGone, StillTaken
  <2>2. ASSUME NEW e \in DOMAIN f
        PROVE  /\ e \in DOMAIN te => te[e] = Tete
               /\ e \notin DOMAIN te => Parti(e, po1)
               /\ \A r \in f[e] \ {x} : /\ r \in DOMAIN te => te[r] = e
                                        /\ r \notin DOMAIN te => Parti(e, po1) \/ Ote(r, po1)
               /\ \A y \in DOMAIN te : te[y] = e => y \in (f[e] \ {x}) \cup Nes(po1)
    <3>1. e \in Paroles /\ f[e] \subseteq Paroles
      BY <1>4
    <3> QED BY <1>1, <1>2, <1>10, <2>1, <3>1 DEF FilAccorde
  <2> QED BY <1>3, <2>2 DEF FilAccorde
<1>12. \A e \in DOMAIN f : e \in DOMAIN te => e \in DOMAIN f1
  BY <1>3
<1>13. \A e \in DOMAIN f : \A r \in f[e] : r \in DOMAIN te => \E b \in DOMAIN f1 : r \in f1[b]
  BY <1>2, <1>3
<1> DEFINE S == {x}
<1>14. /\ S \subseteq Vus(f) /\ Vus(f1) = Vus(f) \ S /\ IsFiniteSet(S) /\ Cardinality(S) = 1
       /\ S \cap DOMAIN te = {}
  BY <1>5, <1>6, <1>7, <1>9
<1> HIDE DEF S
<1>15. FilSuivi(te, d, am, f1, n - Cardinality(S), po1)
  BY <1>1, <1>8, <1>11, <1>12, <1>13, <1>14, SomeLess
<1> QED BY <1>14, <1>15

\* An answer nobody hears: the comment has left the page, or the server refused.
LEMMA Unheard ==
  ASSUME NEW te, NEW d, NEW am, NEW f, NEW n, NEW po, FilSuivi(te, d, am, f, n, po),
         NEW g \in Guichets, NEW po1, po1 = [po EXCEPT ![g] = Chome],
         \/ po[g].rendu \notin Paroles
         \/ po[g].quoi \in {"repondre", "effacer"} /\ po[g].sur \notin DOMAIN f
         \/ po[g].quoi = "oter" /\ \A c \in DOMAIN f : po[g].sur \notin f[c]
  PROVE  FilSuivi(te, d, am, f, n, po1)
<1>1. FilEnBase(te, d) /\ UneParole(po[g], te, f, d, po)
  BY DEF FilSuivi
<1>2. Neuve(po[g]) => po[g].quoi = "repondre" /\ po[g].rendu \notin DOMAIN te
  <2>1. SUFFICES ASSUME Neuve(po[g])
                 PROVE  po[g].quoi = "repondre" /\ po[g].rendu \notin DOMAIN te
    OBVIOUS
  <2>2. po[g].quoi = "repondre" /\ po[g].rendu \in Paroles /\ po[g].sur \notin DOMAIN f
    BY <2>1 DEF Neuve
  <2>3. /\ po[g].sur \in Paroles /\ po[g].sur \notin DOMAIN te
        /\ po[g].rendu \in DOMAIN te => te[po[g].rendu] = po[g].sur
    BY <1>1, <2>2 DEF UneParole, Visee
  <2> QED BY <1>1, <2>2, <2>3, FilAssumption DEF FilEnBase
<1>3. po[g].quoi = "effacer" /\ po[g].rendu \in Paroles => po[g].sur \notin DOMAIN f
  OBVIOUS
<1>4. po[g].quoi = "oter" /\ po[g].rendu \in Paroles => \A c \in DOMAIN f : po[g].sur \notin f[c]
  OBVIOUS
<1> QED BY <1>2, <1>3, <1>4, NothingToShow

\* Adresser: a request leaves for what the page shows.
LEMMA Addressed ==
  ASSUME NEW te, NEW d, NEW am, NEW f, NEW n, NEW po, FilSuivi(te, d, am, f, n, po),
         NEW g \in Guichets, po[g] = Chome, NEW q \in Courrier, q.rendu = Tete,
         \/ q.quoi = "poster" /\ q.sur = Tete
         \/ am.etat = "fini" /\ q.quoi \in {"repondre", "effacer"} /\ q.sur \in DOMAIN f
         \/ am.etat = "fini" /\ q.quoi = "oter" /\ \E c \in DOMAIN f : q.sur \in f[c],
         NEW po1, po1 = [po EXCEPT ![g] = q]
  PROVE  FilSuivi(te, d, am, f, n, po1)
<1>1. /\ FilMontre(f, d) /\ FilEnBase(te, d) /\ FilAccorde(te, f, po) /\ Distinctes(po)
      /\ po \in [Guichets -> Courrier] /\ FilAmorce(am, te, po)
      /\ \A h \in Guichets : UneParole(po[h], te, f, d, po)
  BY DEF FilSuivi
<1>2. /\ ~Neuve(q) /\ ~Neuve(po[g]) /\ Tete \notin Paroles /\ Tete # Refusee
      /\ po[g].quoi = "aucun"
  BY FilAssumption DEF Neuve, Chome
<1>3. po1 \in [Guichets -> Courrier] /\ \A h \in Guichets : po1[h] = IF h = g THEN q ELSE po[h]
  BY <1>1, OnePost
<1>4. Nes(po1) = Nes(po)
  BY <1>1, <1>2, NoNews
<1>5. Vus(f) \cap Nes(po) = {}
  BY <1>1 DEF Nes, UneParole
<1>6. UneParole(q, te, f, d, po1)
  <2>1. CASE q.quoi = "poster"
    BY <1>2, <2>1 DEF UneParole
  <2>2. CASE q.quoi # "poster"
    <3>1. q.sur \in Paroles /\ q.sur <= d /\ q.sur \in Vus(f)
      BY <1>1, <2>2 DEF FilMontre, Vus
    <3>2. Visee(q, d, po1)
      BY <1>4, <1>5, <3>1 DEF Visee
    <3> QED BY <1>2, <2>2, <3>2 DEF UneParole
  <2> QED BY <2>1, <2>2
<1>7. ASSUME NEW h \in Guichets
      PROVE  UneParole(po1[h], te, f, d, po1)
  <2>1. UneParole(po[h], te, f, d, po1)
    BY <1>1, <1>4, SameAsked
  <2> QED BY <1>3, <1>6, <2>1
<1>8. Distinctes(po1)
  BY <1>1, <1>2, <1>3 DEF Distinctes
<1>9. FilAmorce(am, te, po1)
  <2>1. am.etat # "fini" => q.quoi = "poster"
    OBVIOUS
  <2> QED BY <1>1, <1>3, <2>1 DEF FilAmorce
<1>10. FilAccorde(te, f, po1)
  <2>1. \A c \in Paroles : (Parti(c, po) => Parti(c, po1)) /\ (Ote(c, po) => Ote(c, po1))
    BY <1>1, <1>2, StillGone, StillTaken
  <2>2. \A c \in DOMAIN f : c \in Paroles /\ f[c] \subseteq Paroles
    BY <1>1 DEF FilMontre
  <2> QED BY <1>1, <1>4, <2>1, <2>2 DEF FilAccorde
<1>11. Comptees(te, f, po1) = Comptees(te, f, po)
  BY <1>4 DEF Comptees
<1> QED BY <1>1, <1>3, <1>7, <1>8, <1>9, <1>10, <1>11 DEF FilSuivi

\* Ecrire and Retrancher, refused: the base stays, the answer is an error.
LEMMA Refusal ==
  ASSUME NEW te, NEW d, NEW am, NEW f, NEW n, NEW po, FilSuivi(te, d, am, f, n, po),
         NEW g \in Guichets, po[g].rendu = Tete, po[g].quoi \in {"repondre", "effacer", "oter"},
         NEW q \in Courrier, q.quoi = po[g].quoi, q.sur = po[g].sur, q.rendu = Refusee,
         NEW po1, po1 = [po EXCEPT ![g] = q]
  PROVE  FilSuivi(te, d, am, f, n, po1)
<1>1. /\ FilMontre(f, d) /\ FilEnBase(te, d) /\ FilAccorde(te, f, po) /\ Distinctes(po)
      /\ po \in [Guichets -> Courrier] /\ FilAmorce(am, te, po)
      /\ \A h \in Guichets : UneParole(po[h], te, f, d, po)
  BY DEF FilSuivi
<1>2. ~Neuve(q) /\ ~Neuve(po[g]) /\ Tete \notin Paroles /\ Refusee \notin Paroles
  BY FilAssumption DEF Neuve
<1>3. po1 \in [Guichets -> Courrier] /\ \A h \in Guichets : po1[h] = IF h = g THEN q ELSE po[h]
  BY <1>1, OnePost
<1>4. Nes(po1) = Nes(po)
  BY <1>1, <1>2, NoNews
<1>5. UneParole(q, te, f, d, po1)
  <2>1. UneParole(po[g], te, f, d, po1)
    BY <1>1, <1>4, SameAsked
  <2> QED BY <1>2, <2>1 DEF UneParole, Visee
<1>6. ASSUME NEW h \in Guichets
      PROVE  UneParole(po1[h], te, f, d, po1)
  <2>1. UneParole(po[h], te, f, d, po1)
    BY <1>1, <1>4, SameAsked
  <2> QED BY <1>3, <1>5, <2>1
<1>7. Distinctes(po1)
  BY <1>1, <1>2, <1>3 DEF Distinctes
<1>8. FilAmorce(am, te, po1)
  BY <1>1, <1>3 DEF FilAmorce
<1>9. FilAccorde(te, f, po1)
  <2>1. \A c \in Paroles : (Parti(c, po) => Parti(c, po1)) /\ (Ote(c, po) => Ote(c, po1))
    BY <1>1, <1>2, StillGone, StillTaken
  <2>2. \A c \in DOMAIN f : c \in Paroles /\ f[c] \subseteq Paroles
    BY <1>1 DEF FilMontre
  <2> QED BY <1>1, <1>4, <2>1, <2>2 DEF FilAccorde
<1>10. Comptees(te, f, po1) = Comptees(te, f, po)
  BY <1>4 DEF Comptees
<1> QED BY <1>1, <1>3, <1>6, <1>7, <1>8, <1>9, <1>10 DEF FilSuivi

\* Ecrire, accepted: a new comment, or a reply to a comment that is there.
LEMMA Written ==
  ASSUME NEW te, NEW d, NEW am, NEW f, NEW n, NEW po, FilSuivi(te, d, am, f, n, po),
         NEW g \in Guichets, po[g].rendu = Tete, NEW parent,
         \/ po[g].quoi = "poster" /\ parent = Tete
         \/ po[g].quoi = "repondre" /\ parent = po[g].sur /\ parent \in DOMAIN te,
         NEW m, m = d + 1, m \in Paroles,
         NEW q \in Courrier, q.quoi = po[g].quoi, q.sur = po[g].sur, q.rendu = m,
         NEW po1, po1 = [po EXCEPT ![g] = q],
         NEW te1, Augmentee(te, te1, m, parent)
  PROVE  FilSuivi(te1, m, am, f, n, po1)
<1>1. /\ FilMontre(f, d) /\ FilEnBase(te, d) /\ FilAccorde(te, f, po) /\ Distinctes(po)
      /\ po \in [Guichets -> Courrier] /\ FilAmorce(am, te, po) /\ d \in Nat /\ m \in Nat
      /\ n = Cardinality(Comptees(te, f, po)) /\ Paroles \subseteq Nat
      /\ \A h \in Guichets : UneParole(po[h], te, f, d, po)
  BY FilAssumption DEF FilSuivi
<1>2. Neuve(q) /\ ~Neuve(po[g]) /\ Tete \notin Paroles /\ Refusee \notin Paroles
  BY FilAssumption DEF Neuve
<1>3. po1 \in [Guichets -> Courrier] /\ \A h \in Guichets : po1[h] = IF h = g THEN q ELSE po[h]
  BY <1>1, OnePost
<1>4. Nes(po1) = Nes(po) \cup {m}
  <2>1. Nes(po1) = Nes(po) \cup {q.rendu}
    BY <1>1, <1>2, OneNewer
  <2> QED BY <2>1
<1>5. /\ DOMAIN te1 = DOMAIN te \cup {m} /\ te1[m] = parent
      /\ \A c \in DOMAIN te : c # m => te1[c] = te[c]
  BY DEF Augmentee
<1>6. /\ DOMAIN te \subseteq Paroles /\ \A c \in DOMAIN te : c <= d
      /\ \A c \in DOMAIN te : te[c] # Tete => te[c] \in DOMAIN te /\ te[te[c]] = Tete
  BY <1>1 DEF FilEnBase
<1>7. \A c \in Paroles : c <= d => c # m /\ c <= m
  BY <1>1
<1>8. m \notin DOMAIN te /\ m \notin Vus(f)
  BY <1>1, <1>6, <1>7 DEF Vus, FilMontre
<1>9. parent # Tete => /\ parent \in DOMAIN te /\ te[parent] = Tete
                       /\ po[g].quoi = "repondre" /\ parent \notin Nes(po) /\ parent \in DOMAIN f
  <2>1. SUFFICES ASSUME parent # Tete
                 PROVE  /\ parent \in DOMAIN te /\ te[parent] = Tete
                        /\ po[g].quoi = "repondre" /\ parent \notin Nes(po) /\ parent \in DOMAIN f
    OBVIOUS
  <2>2. po[g].quoi = "repondre" /\ parent = po[g].sur /\ parent \in DOMAIN te
    BY <2>1
  <2>3. parent \in DOMAIN f /\ parent \notin Nes(po)
    BY <1>1, <2>2 DEF UneParole, Visee
  <2> QED BY <1>1, <2>2, <2>3 DEF FilAccorde
<1>10. FilEnBase(te1, m)
  <2>1. IsFiniteSet(DOMAIN te1)
    <3>1. IsFiniteSet(DOMAIN te \cup {m})
      BY <1>1, FS_AddElement DEF FilEnBase
    <3> QED BY <1>5, <3>1
  <2>2. te1 = [c \in DOMAIN te1 |-> te1[c]]
    BY DEF Augmentee
  <2>3. ASSUME NEW c \in DOMAIN te1
        PROVE  c \in Paroles /\ c <= m /\ (te1[c] # Tete => te1[c] \in DOMAIN te1 /\ te1[te1[c]] = Tete)
    <3>1. CASE c = m
      BY <1>1, <1>5, <1>8, <1>9, <3>1
    <3>2. CASE c # m
      <4>1. c \in DOMAIN te /\ te1[c] = te[c]
        BY <1>5, <3>2
      <4> QED BY <1>5, <1>6, <1>7, <1>8, <4>1
    <3> QED BY <3>1, <3>2
  <2> QED BY <2>1, <2>2, <2>3 DEF FilEnBase
<1>11. FilMontre(f, m)
  BY <1>1, <1>7 DEF FilMontre
<1>12. FilAccorde(te1, f, po1)
  <2>1. \A c \in Paroles : (Parti(c, po) => Parti(c, po1)) /\ (Ote(c, po) => Ote(c, po1))
    BY <1>1, <1>2, StillGone, StillTaken
  <2>2. \A c \in DOMAIN f : c \in Paroles /\ f[c] \subseteq Paroles
    BY <1>1 DEF FilMontre
  <2>3. ASSUME NEW c \in Vus(f)
        PROVE  (c \in DOMAIN te1 <=> c \in DOMAIN te) /\ (c \in DOMAIN te => te1[c] = te[c])
    BY <1>5, <1>8
  <2>4. ASSUME NEW c \in DOMAIN f
        PROVE  /\ c \in DOMAIN te1 => te1[c] = Tete
               /\ c \notin DOMAIN te1 => Parti(c, po1)
    <3>1. c \in Vus(f)
      BY DEF Vus
    <3> QED BY <1>1, <2>1, <2>2, <2>3, <3>1 DEF FilAccorde
  <2>5. ASSUME NEW c \in DOMAIN f, NEW r \in f[c]
        PROVE  /\ r \in DOMAIN te1 => te1[r] = c
               /\ r \notin DOMAIN te1 => Parti(c, po1) \/ Ote(r, po1)
    <3>1. r \in Vus(f) /\ c \in Paroles /\ r \in Paroles
      BY <2>2 DEF Vus
    <3> QED BY <1>1, <2>1, <2>3, <3>1 DEF FilAccorde
  <2>6. ASSUME NEW c \in DOMAIN f, NEW y \in DOMAIN te1, te1[y] = c
        PROVE  y \in f[c] \cup Nes(po1)
    <3>1. CASE y = m
      BY <1>4, <3>1
    <3>2. CASE y # m
      <4>1. y \in DOMAIN te /\ te[y] = c
        BY <1>5, <2>6, <3>2
      <4> QED BY <1>1, <1>4, <4>1 DEF FilAccorde
    <3> QED BY <3>1, <3>2
  <2> QED BY <2>4, <2>5, <2>6 DEF FilAccorde
<1>13. \A h \in Guichets : Neuve(po[h]) => po[h].rendu \in Paroles /\ po[h].rendu <= d /\ po[h].rendu # m
  BY <1>1, <1>6, <1>7 DEF Neuve, UneParole
<1>14. ASSUME NEW h \in Guichets
       PROVE  UneParole(po1[h], te1, f, m, po1)
  <2> DEFINE p == po[h]
  <2>1. UneParole(p, te, f, d, po)
    BY <1>1
  <2>2. Visee(p, d, po) => Visee(p, m, po1) /\ p.sur # m
    BY <1>4, <1>7 DEF Visee
  <2>3. p.sur # m => (p.sur \in DOMAIN te1 <=> p.sur \in DOMAIN te)
    BY <1>5
  <2>4. CASE h # g
    <3>1. po1[h] = p
      BY <1>3, <2>4
    <3>2. Neuve(p) => p.rendu \in Paroles /\ p.rendu # m /\ p.rendu <= m
      BY <1>7, <1>13
    <3>3. p.rendu # m => /\ (p.rendu \in DOMAIN te1 <=> p.rendu \in DOMAIN te)
                         /\ p.rendu \in DOMAIN te => te1[p.rendu] = te[p.rendu]
      BY <1>5
    <3>4. Neuve(p) => p.rendu \in Nes(po)
      BY DEF Neuve, Nes
    <3> HIDE DEF p
    <3>5. p.quoi = "poster" /\ p.rendu \in Paroles => \A y \in DOMAIN te1 : te1[y] # p.rendu
      <4>1. SUFFICES ASSUME p.quoi = "poster", p.rendu \in Paroles, NEW y \in DOMAIN te1
                     PROVE  te1[y] # p.rendu
        OBVIOUS
      <4>2. CASE y = m
        BY <1>2, <1>5, <1>9, <3>4, <4>1, <4>2 DEF Neuve
      <4>3. CASE y # m
        BY <1>5, <2>1, <4>1, <4>3 DEF UneParole
      <4> QED BY <4>2, <4>3
    <3>6. p.quoi = "poster" => UneParole(p, te1, f, m, po1)
      BY <1>5, <2>1, <3>2, <3>3, <3>5 DEF UneParole, Neuve
    <3>7. p.quoi = "repondre" => UneParole(p, te1, f, m, po1)
      BY <2>1, <2>2, <2>3, <3>2, <3>3 DEF UneParole, Neuve
    <3>8. p.quoi \in {"effacer", "oter", "aucun"} => UneParole(p, te1, f, m, po1)
      BY <2>1, <2>2, <2>3 DEF UneParole
    <3>9. p.quoi \in Quois
      BY <1>1 DEF Courrier, p
    <3> QED BY <3>1, <3>6, <3>7, <3>8, <3>9 DEF Quois
  <2>5. CASE h = g
    <3>1. po1[h] = q
      BY <1>3, <2>5
    <3>2. CASE q.quoi = "poster"
      <4>1. parent = Tete /\ q.sur = Tete
        BY <1>9, <2>1, <2>5, <3>2 DEF UneParole
      <4>2. \A y \in DOMAIN te1 : te1[y] # m
        BY <1>2, <1>5, <1>6, <1>8, <4>1
      <4> QED BY <1>2, <1>5, <1>8, <3>1, <3>2, <4>1, <4>2 DEF UneParole
    <3>3. CASE q.quoi = "repondre"
      <4>1. parent = q.sur /\ Visee(p, d, po) /\ parent \in DOMAIN f
        BY <2>1, <2>5, <3>3 DEF UneParole
      <4>2. Visee(q, m, po1)
        BY <2>2, <2>5, <4>1 DEF Visee
      <4> QED BY <1>1, <1>5, <1>8, <3>1, <3>3, <4>1, <4>2 DEF UneParole
    <3> QED BY <3>2, <3>3
  <2> QED BY <2>4, <2>5
<1>15. Distinctes(po1)
  BY <1>1, <1>3, <1>13 DEF Distinctes, Neuve
<1>16. FilAmorce(am, te1, po1)
  <2>1. am.etat # "fini" => parent = Tete
    BY <1>1, <1>9 DEF FilAmorce
  <2>2. ASSUME am.etat = "lu", NEW c \in DOMAIN am.lu
        PROVE  c \in DOMAIN te1 /\ te1[c] = Tete /\ am.lu[c] = {y \in DOMAIN te1 : te1[y] = c}
    <3>1. c \in DOMAIN te /\ te[c] = Tete /\ am.lu[c] = {y \in DOMAIN te : te[y] = c}
      BY <1>1, <2>2 DEF FilAmorce
    <3>2. c # Tete /\ te1[m] = Tete
      BY <1>2, <1>5, <1>6, <2>1, <2>2, <3>1
    <3>3. {y \in DOMAIN te1 : te1[y] = c} = {y \in DOMAIN te : te[y] = c}
      BY <1>5, <1>8, <3>2
    <3> QED BY <1>5, <1>8, <3>1, <3>3
  <2> QED BY <1>1, <1>3, <2>2 DEF FilAmorce
<1>17. Comptees(te1, f, po1) = Comptees(te, f, po)
  BY <1>4, <1>5, <1>8 DEF Comptees
<1> QED BY <1>1, <1>3, <1>10, <1>11, <1>12, <1>14, <1>15, <1>16, <1>17 DEF FilSuivi

\* Retrancher, accepted: the comment x leaves the base, with its replies.
LEMMA Deleted ==
  ASSUME NEW te, NEW d, NEW am, NEW f, NEW n, NEW po, FilSuivi(te, d, am, f, n, po),
         NEW g \in Guichets, po[g].rendu = Tete, po[g].quoi \in {"effacer", "oter"},
         NEW x, x = po[g].sur, x \in DOMAIN te,
         NEW q \in Courrier, q.quoi = po[g].quoi, q.sur = x, q.rendu = x,
         NEW po1, po1 = [po EXCEPT ![g] = q],
         NEW te1, Diminuee(te, te1, x)
  PROVE  FilSuivi(te1, d, am, f, n, po1)
<1>1. /\ FilMontre(f, d) /\ FilEnBase(te, d) /\ FilAccorde(te, f, po) /\ Distinctes(po)
      /\ po \in [Guichets -> Courrier] /\ FilAmorce(am, te, po)
      /\ d \in Nat /\ n = Cardinality(Comptees(te, f, po))
      /\ \A h \in Guichets : UneParole(po[h], te, f, d, po)
  BY DEF FilSuivi
<1>2. ~Neuve(q) /\ ~Neuve(po[g]) /\ Tete \notin Paroles
  BY FilAssumption DEF Neuve
<1>3. po1 \in [Guichets -> Courrier] /\ \A h \in Guichets : po1[h] = IF h = g THEN q ELSE po[h]
  BY <1>1, OnePost
<1>4. Nes(po1) = Nes(po)
  BY <1>1, <1>2, NoNews
<1>5. DOMAIN te1 \subseteq DOMAIN te /\ \A c \in DOMAIN te1 : te1[c] = te[c]
  BY DEF Diminuee
<1>6. \A c \in DOMAIN te : c \notin DOMAIN te1 <=> c = x \/ te[c] = x
  BY DEF Diminuee
<1>7. /\ DOMAIN te \subseteq Paroles /\ IsFiniteSet(DOMAIN te)
      /\ \A c \in DOMAIN te : c <= d /\ (te[c] # Tete => te[c] \in DOMAIN te /\ te[te[c]] = Tete)
  BY <1>1 DEF FilEnBase
<1>8. /\ x \in Paroles /\ x # Tete /\ x \notin Nes(po)
      /\ po[g].quoi = "effacer" => x \in DOMAIN f
      /\ po[g].quoi = "oter" => \E c \in DOMAIN f : x \in f[c]
  BY <1>1, <1>2, <1>7 DEF UneParole, Visee
<1>9. /\ \A c \in DOMAIN f : c \in Paroles /\ f[c] \subseteq Paroles
      /\ \A c \in DOMAIN f : \A r \in f[c] : r \notin DOMAIN f
  BY <1>1 DEF FilMontre
<1>10. x \in DOMAIN f => po[g].quoi = "effacer"
  BY <1>8, <1>9
<1>11. FilEnBase(te1, d)
  <2>1. IsFiniteSet(DOMAIN te1)
    BY <1>5, <1>7, FS_Subset
  <2>2. te1 = [c \in DOMAIN te1 |-> te1[c]]
    BY DEF Diminuee
  <2>3. ASSUME NEW c \in DOMAIN te1, te1[c] # Tete
        PROVE  te1[c] \in DOMAIN te1 /\ te1[te1[c]] = Tete
    <3>1. c \in DOMAIN te /\ te[c] # Tete /\ te[c] # x /\ te1[c] = te[c]
      BY <1>5, <1>6, <2>3
    <3>2. te[c] \in DOMAIN te /\ te[te[c]] = Tete
      BY <1>7, <3>1
    <3>3. te[c] \in DOMAIN te1
      BY <1>6, <1>8, <3>1, <3>2
    <3> QED BY <1>5, <3>1, <3>2, <3>3
  <2> QED BY <1>5, <1>7, <2>1, <2>2, <2>3 DEF FilEnBase
<1>12. Comptees(te1, f, po1) = Comptees(te, f, po)
  <2>1. x \in Vus(f)
    BY <1>8 DEF Vus
  <2>2. ASSUME NEW r \in DOMAIN te, te[r] = x
        PROVE  r \in Vus(f) \cup Nes(po)
    <3>1. CASE x \in DOMAIN f
      <4>1. r \in f[x] \cup Nes(po)
        BY <1>1, <2>2, <3>1 DEF FilAccorde
      <4> QED BY <1>7, <3>1, <4>1 DEF Vus
    <3>2. CASE x \notin DOMAIN f
      <4>1. PICK c \in DOMAIN f : x \in f[c]
        BY <1>8, <3>2
      <4>2. te[x] = c /\ c # Tete
        BY <1>1, <1>2, <1>9, <4>1 DEF FilAccorde
      <4> QED BY <1>7, <1>8, <2>2, <4>2
    <3> QED BY <3>1, <3>2
  <2>3. \A c \in DOMAIN te : c \in DOMAIN te1 \/ c \in Vus(f) \cup Nes(po)
    BY <1>6, <2>1, <2>2
  <2> QED BY <1>4, <1>5, <2>3 DEF Comptees
<1>13. FilAccorde(te1, f, po1)
  <2>1. \A c \in Paroles : (Parti(c, po) => Parti(c, po1)) /\ (Ote(c, po) => Ote(c, po1))
    BY <1>1, <1>2, StillGone, StillTaken
  <2>2. /\ po[g].quoi = "effacer" => Parti(x, po1)
        /\ po[g].quoi = "oter" => Ote(x, po1)
    BY <1>3 DEF Parti, Ote
  <2>3. ASSUME NEW c \in DOMAIN f
        PROVE  /\ c \in DOMAIN te1 => te1[c] = Tete
               /\ c \notin DOMAIN te1 => Parti(c, po1)
    <3>1. (c \in DOMAIN te => te[c] = Tete) /\ (c \notin DOMAIN te => Parti(c, po)) /\ c \in Paroles
      BY <1>1, <1>9 DEF FilAccorde
    <3>2. CASE c \in DOMAIN te /\ c \notin DOMAIN te1
      <4>1. c = x
        BY <1>6, <1>8, <3>1, <3>2
      <4> QED BY <1>10, <2>2, <3>2, <4>1
    <3>3. CASE ~(c \in DOMAIN te /\ c \notin DOMAIN te1)
      BY <1>5, <2>1, <3>1, <3>3
    <3> QED BY <3>2, <3>3
  <2>4. ASSUME NEW c \in DOMAIN f, NEW r \in f[c]
        PROVE  /\ r \in DOMAIN te1 => te1[r] = c
               /\ r \notin DOMAIN te1 => Parti(c, po1) \/ Ote(r, po1)
    <3>1. /\ r \in DOMAIN te => te[r] = c
          /\ r \notin DOMAIN te => Parti(c, po) \/ Ote(r, po)
          /\ c \in Paroles /\ r \in Paroles /\ r \notin DOMAIN f
      BY <1>1, <1>9 DEF FilAccorde
    <3>2. CASE r \in DOMAIN te /\ r \notin DOMAIN te1
      <4>1. r = x \/ c = x
        BY <1>6, <3>1, <3>2
      <4>2. CASE r = x
        BY <1>8, <2>2, <3>1, <3>2, <4>2
      <4>3. CASE c = x
        BY <1>10, <2>2, <3>2, <4>3
      <4> QED BY <4>1, <4>2, <4>3
    <3>3. CASE ~(r \in DOMAIN te /\ r \notin DOMAIN te1)
      BY <1>5, <2>1, <3>1, <3>3
    <3> QED BY <3>2, <3>3
  <2>5. ASSUME NEW c \in DOMAIN f, NEW y \in DOMAIN te1, te1[y] = c
        PROVE  y \in f[c] \cup Nes(po1)
    <3>1. y \in DOMAIN te /\ te[y] = c
      BY <1>5, <2>5
    <3> QED BY <1>1, <1>4, <3>1 DEF FilAccorde
  <2> QED BY <2>3, <2>4, <2>5 DEF FilAccorde
<1>14. ASSUME NEW h \in Guichets
       PROVE  UneParole(po1[h], te1, f, d, po1)
  <2> DEFINE p == po[h]
  <2>1. UneParole(p, te, f, d, po)
    BY <1>1
  <2>2. Visee(p, d, po) => Visee(p, d, po1)
    BY <1>4 DEF Visee
  <2>3. CASE h # g
    <3>1. po1[h] = p
      BY <1>3, <2>3
    <3>2. Neuve(p) => p.rendu \in Nes(po) /\ p.rendu # x
      BY <1>8 DEF Neuve, Nes
    <3>3. p.quoi \in Quois
      BY <1>1 DEF Courrier
    <3> HIDE DEF p
    <3>4. p.quoi = "poster" => UneParole(p, te1, f, d, po1)
      <4>1. SUFFICES ASSUME p.quoi = "poster" PROVE UneParole(p, te1, f, d, po1)
        OBVIOUS
      <4>2. p.sur = Tete /\ p.rendu # Refusee
        BY <2>1, <4>1 DEF UneParole
      <4>3. ASSUME p.rendu \in Paroles
            PROVE  /\ p.rendu \in DOMAIN te1 \ Vus(f) /\ te1[p.rendu] = Tete
                   /\ \A y \in DOMAIN te1 : te1[y] # p.rendu
        <5>1. /\ p.rendu \in DOMAIN te \ Vus(f) /\ te[p.rendu] = Tete
              /\ \A y \in DOMAIN te : te[y] # p.rendu
          BY <2>1, <4>1, <4>3 DEF UneParole
        <5>2. p.rendu # x
          BY <3>2, <4>1, <4>3 DEF Neuve
        <5>3. p.rendu \in DOMAIN te1
          BY <1>6, <1>8, <5>1, <5>2
        <5> QED BY <1>5, <5>1, <5>3
      <4> QED BY <4>1, <4>2, <4>3 DEF UneParole
    <3>5. p.quoi = "repondre" => UneParole(p, te1, f, d, po1)
      <4>1. SUFFICES ASSUME p.quoi = "repondre" PROVE UneParole(p, te1, f, d, po1)
        OBVIOUS
      <4>2. Visee(p, d, po1) /\ (p.sur \in DOMAIN te1 => p.sur \in DOMAIN f)
        BY <1>5, <2>1, <2>2, <4>1 DEF UneParole
      <4>3. ASSUME p.rendu \in Paroles
            PROVE  /\ p.rendu \notin Vus(f) /\ p.rendu <= d
                   /\ IF p.rendu \in DOMAIN te1 THEN te1[p.rendu] = p.sur ELSE p.sur \notin DOMAIN te1
        <5>1. /\ p.rendu \notin Vus(f) /\ p.rendu <= d
              /\ IF p.rendu \in DOMAIN te THEN te[p.rendu] = p.sur ELSE p.sur \notin DOMAIN te
          BY <2>1, <4>1, <4>3 DEF UneParole
        <5>2. p.rendu # x
          BY <3>2, <4>1, <4>3 DEF Neuve
        <5>3. p.rendu \in DOMAIN te /\ p.rendu \notin DOMAIN te1 => p.sur = x
          BY <1>6, <5>1, <5>2
        <5>4. x \notin DOMAIN te1
          BY <1>6
        <5> QED BY <1>5, <5>1, <5>3, <5>4
      <4> QED BY <4>1, <4>2, <4>3 DEF UneParole
    <3>6. p.quoi \in {"effacer", "oter", "aucun"} => UneParole(p, te1, f, d, po1)
      BY <1>5, <2>1, <2>2 DEF UneParole
    <3> QED BY <3>1, <3>3, <3>4, <3>5, <3>6 DEF Quois
  <2>4. CASE h = g
    <3>1. po1[h] = q
      BY <1>3, <2>4
    <3>2. Visee(p, d, po)
      BY <2>1, <2>4 DEF UneParole
    <3>3. Visee(q, d, po1)
      BY <1>4, <2>4, <3>2 DEF Visee
    <3>4. x \notin DOMAIN te1
      BY <1>6
    <3> QED BY <3>1, <3>3, <3>4 DEF UneParole
  <2> QED BY <2>3, <2>4
<1>15. Distinctes(po1)
  BY <1>1, <1>3 DEF Distinctes
<1>16. FilAmorce(am, te1, po1)
  <2>1. am.etat = "fini"
    BY <1>1 DEF FilAmorce
  <2> QED BY <2>1 DEF FilAmorce
<1> QED BY <1>1, <1>3, <1>11, <1>12, <1>13, <1>14, <1>15, <1>16 DEF FilSuivi

\* While the list is on its way, everything the page shows is in the base.
LEMMA OnlyPosted ==
  ASSUME NEW te, NEW d, NEW am, NEW f, NEW n, NEW po, FilSuivi(te, d, am, f, n, po),
         am.etat # "fini"
  PROVE  /\ Vus(f) \subseteq DOMAIN te \ Nes(po)
         /\ \A g \in Guichets : po[g].quoi \in {"aucun", "poster"}
         /\ \A m \in Nes(po) : m \in DOMAIN te /\ te[m] = Tete
<1>1. /\ FilMontre(f, d) /\ FilAccorde(te, f, po) /\ FilAmorce(am, te, po)
      /\ \A h \in Guichets : UneParole(po[h], te, f, d, po)
  BY DEF FilSuivi
<1>2. \A g \in Guichets : po[g].quoi \in {"aucun", "poster"}
  BY <1>1 DEF FilAmorce
<1>3. \A m \in Nes(po) : m \in DOMAIN te /\ m \notin Vus(f) /\ te[m] = Tete
  BY <1>1, <1>2 DEF Nes, UneParole
<1>4. \A c : ~Parti(c, po) /\ ~Ote(c, po)
  BY <1>2 DEF Parti, Ote
<1>5. Vus(f) \subseteq DOMAIN te
  BY <1>1, <1>4 DEF Vus, FilAccorde
<1> QED BY <1>2, <1>3, <1>5

\* FilArrive: the list takes the place of what was shown, with nothing of
\* which the answer is still to come.
LEMMA ListShown ==
  ASSUME NEW te, NEW d, NEW am, NEW f, NEW n, NEW po, FilSuivi(te, d, am, f, n, po),
         am.etat = "lu",
         \A g \in Guichets : ~(po[g].quoi = "poster" /\ po[g].rendu \in DOMAIN am.lu),
         NEW am1, am1.etat = "fini"
  PROVE  FilSuivi(te, d, am1, am.lu, n, po)
<1> DEFINE L == am.lu
<1>1. /\ FilEnBase(te, d) /\ FilAmorce(am, te, po) /\ Distinctes(po)
      /\ po \in [Guichets -> Courrier] /\ d \in Nat /\ n = Cardinality(Comptees(te, f, po))
      /\ \A h \in Guichets : UneParole(po[h], te, f, d, po)
  BY DEF FilSuivi
<1>2. /\ Vus(f) \subseteq DOMAIN te \ Nes(po)
      /\ \A g \in Guichets : po[g].quoi \in {"aucun", "poster"}
      /\ \A m \in Nes(po) : m \in DOMAIN te /\ te[m] = Tete
  BY OnlyPosted
<1>3. /\ L = [c \in DOMAIN L |-> L[c]]
      /\ \A c \in DOMAIN L : c \in DOMAIN te /\ te[c] = Tete /\ L[c] = {y \in DOMAIN te : te[y] = c}
  BY <1>1 DEF FilAmorce
<1>4. Nes(po) \cap DOMAIN L = {}
  BY <1>2 DEF Nes
<1> HIDE DEF L
<1>5. DOMAIN te \subseteq Paroles /\ IsFiniteSet(DOMAIN te) /\ Tete \notin Paroles
      /\ \A c \in DOMAIN te : c <= d
  BY <1>1, FilAssumption DEF FilEnBase
<1>6. \A c \in DOMAIN L : \A r \in L[c] : r \in DOMAIN te /\ te[r] = c /\ te[r] # Tete
  BY <1>3, <1>5
<1>7. Vus(L) \subseteq DOMAIN te \ Nes(po)
  BY <1>2, <1>3, <1>4, <1>6 DEF Vus
<1>8. FilMontre(L, d)
  <2>1. IsFiniteSet(Vus(L))
    <3>1. Vus(L) \subseteq DOMAIN te
      BY <1>7
    <3> QED BY <1>5, <3>1, FS_Subset
  <2> QED BY <1>3, <1>5, <1>6, <2>1 DEF FilMontre
<1>9. FilAccorde(te, L, po)
  BY <1>3, <1>6 DEF FilAccorde
<1>10. ASSUME NEW h \in Guichets
       PROVE  UneParole(po[h], te, L, d, po)
  <2>1. UneParole(po[h], te, f, d, po) /\ po[h].quoi \in {"aucun", "poster"}
    BY <1>1, <1>2
  <2>2. po[h].quoi = "poster" /\ po[h].rendu \in Paroles => po[h].rendu \notin Vus(L)
    BY <1>7 DEF Nes
  <2> QED BY <2>1, <2>2 DEF UneParole
<1>11. FilAmorce(am1, te, po)
  BY DEF FilAmorce
<1>12. Comptees(te, L, po) = Comptees(te, f, po)
  BY <1>2, <1>7 DEF Comptees
<1>13. FilSuivi(te, d, am1, L, n, po)
  BY <1>1, <1>8, <1>9, <1>10, <1>11, <1>12 DEF FilSuivi
<1> QED BY <1>13 DEF L

LEMMA FilStarts == FilInit => FilInv
<1>1. SUFFICES ASSUME FilInit PROVE FilInv
  OBVIOUS
<1>2. /\ donnees \in {1, 2} /\ tenues = [c \in 1..donnees |-> IF c = 1 THEN Tete ELSE 1]
      /\ amorce.etat = "envoye" /\ auFil = <<>> /\ total = donnees
      /\ postes = [g \in Guichets |-> Chome] /\ ecartee = FALSE
      /\ {1, 2} \subseteq Paroles /\ Paroles \subseteq Nat /\ Tete \notin Paroles
  BY <1>1, FilAssumption DEF FilInit
<1>3. /\ Chome \in Courrier /\ Chome.quoi = "aucun" /\ postes \in [Guichets -> Courrier]
      /\ \A g \in Guichets : postes[g] = Chome
  BY <1>2 DEF Chome, Courrier, Quois
<1>4. DOMAIN auFil = {} /\ auFil = [c \in DOMAIN auFil |-> auFil[c]]
  BY <1>2
<1>5. Vus(auFil) = {} /\ Nes(postes) = {}
  BY <1>3, <1>4 DEF Vus, Nes
<1>6. DOMAIN tenues = 1..donnees /\ tenues[1] = Tete /\ (2 \in DOMAIN tenues => tenues[2] = 1)
  BY <1>2
<1>7. IsFiniteSet(1..donnees) /\ Cardinality(1..donnees) = donnees
  <2>1. 1 \in Int /\ donnees \in Int /\ ~(1 > donnees) /\ donnees - 1 + 1 = donnees
    BY <1>2
  <2>2. /\ IsFiniteSet(1..donnees)
        /\ Cardinality(1..donnees) = IF 1 > donnees THEN 0 ELSE donnees - 1 + 1
    BY <2>1, FS_Interval
  <2> QED BY <2>1, <2>2
<1>8. \A c \in 1..donnees : c \in Paroles /\ c <= donnees /\ (c = 1 \/ c = 2)
  BY <1>2
<1>9. FilEnBase(tenues, donnees)
  <2>1. tenues = [c \in DOMAIN tenues |-> tenues[c]]
    BY <1>2, <1>6
  <2>2. 1 \in DOMAIN tenues
    BY <1>2, <1>6
  <2> QED BY <1>6, <1>7, <1>8, <2>1, <2>2 DEF FilEnBase
<1>10. FilMontre(auFil, donnees)
  BY <1>4, <1>5, FS_EmptySet DEF FilMontre
<1>11. FilAccorde(tenues, auFil, postes)
  BY <1>4 DEF FilAccorde
<1>12. /\ \A g \in Guichets : UneParole(postes[g], tenues, auFil, donnees, postes)
       /\ Distinctes(postes) /\ FilAmorce(amorce, tenues, postes)
  BY <1>2, <1>3 DEF UneParole, Distinctes, FilAmorce
<1>13. Comptees(tenues, auFil, postes) = 1..donnees
  BY <1>5, <1>6 DEF Comptees
<1>14. donnees \in Nat /\ total = Cardinality(Comptees(tenues, auFil, postes))
  BY <1>2, <1>7, <1>13
<1> QED BY <1>2, <1>3, <1>9, <1>10, <1>11, <1>12, <1>14 DEF FilInv, FilSuivi

\* The member's actions and the server's, one by one.
LEMMA FilAsks ==
  ASSUME FilInv, ~ecartee, NEW g \in Guichets,
         PosterParole(g) \/ \E c \in Paroles : RepondreA(g, c) \/ EffacerFil(g, c) \/ OterReponse(g, c)
  PROVE  FilInv'
<1>1. FilSuivi(tenues, donnees, amorce, auFil, total, postes) /\ FilMontre(auFil, donnees)
  BY DEF FilInv, FilSuivi
<1>2. ASSUME NEW quoi, NEW sur, Adresser(g, quoi, sur), quoi \in Quois,
             \/ quoi = "poster" /\ sur = Tete
             \/ amorce.etat = "fini" /\ quoi \in {"repondre", "effacer"} /\ sur \in DOMAIN auFil
             \/ amorce.etat = "fini" /\ quoi = "oter" /\ \E c \in DOMAIN auFil : sur \in auFil[c]
      PROVE  FilInv'
  <2> DEFINE q == [quoi |-> quoi, sur |-> sur, rendu |-> Tete]
  <2>1. sur \in Paroles \cup {Tete}
    BY <1>1, <1>2 DEF FilMontre
  <2>2. q \in Courrier /\ q.quoi = quoi /\ q.sur = sur /\ q.rendu = Tete
    BY <1>2, <2>1 DEF Courrier
  <2>3. /\ postes[g] = Chome /\ postes' = [postes EXCEPT ![g] = q]
        /\ UNCHANGED <<tenues, donnees, amorce, auFil, total, ecartee>>
    BY <1>2 DEF Adresser
  <2> HIDE DEF q
  <2>4. FilSuivi(tenues, donnees, amorce, auFil, total, postes')
    BY <1>1, <1>2, <2>2, <2>3, Addressed
  <2> QED BY <2>3, <2>4 DEF FilInv
<1>3. CASE PosterParole(g)
  BY <1>2, <1>3 DEF PosterParole, Quois
<1>4. ASSUME NEW c \in Paroles, RepondreA(g, c)
      PROVE  FilInv'
  <2>1. amorce.etat = "fini" /\ c \in DOMAIN auFil /\ Adresser(g, "repondre", c)
    BY <1>4 DEF RepondreA, Offertes
  <2> QED BY <1>2, <2>1 DEF Quois
<1>5. ASSUME NEW c \in Paroles, EffacerFil(g, c)
      PROVE  FilInv'
  <2>1. amorce.etat = "fini" /\ c \in DOMAIN auFil /\ Adresser(g, "effacer", c)
    BY <1>5 DEF EffacerFil, Offertes
  <2> QED BY <1>2, <2>1 DEF Quois
<1>6. ASSUME NEW r \in Paroles, OterReponse(g, r)
      PROVE  FilInv'
  <2>1. amorce.etat = "fini" /\ (\E c \in DOMAIN auFil : r \in auFil[c]) /\ Adresser(g, "oter", r)
    BY <1>6 DEF OterReponse, Offertes
  <2> QED BY <1>2, <2>1 DEF Quois
<1> QED BY <1>3, <1>4, <1>5, <1>6

LEMMA FilServes ==
  ASSUME FilInv, ~ecartee, NEW g \in Guichets, ServirParole(g)
  PROVE  FilInv'
<1> DEFINE p == postes[g]
           Q(n) == [p EXCEPT !.rendu = n]
           m == donnees + 1
<1>1. /\ FilSuivi(tenues, donnees, amorce, auFil, total, postes) /\ FilEnBase(tenues, donnees)
      /\ p \in Courrier /\ UneParole(p, tenues, auFil, donnees, postes)
      /\ UNCHANGED <<amorce, auFil, total, ecartee>> /\ Tete \notin Paroles
      /\ p.rendu = Tete /\ p.quoi \in {"poster", "repondre", "effacer", "oter"}
  BY FilAssumption DEF FilInv, FilSuivi, ServirParole, EnChemin
<1>2. \A n \in Paroles \cup {Refusee} :
        Q(n) \in Courrier /\ Q(n).quoi = p.quoi /\ Q(n).sur = p.sur /\ Q(n).rendu = n
  BY <1>1 DEF Courrier
<1>3. \A n : Repartir(g, n) <=> postes' = [postes EXCEPT ![g] = Q(n)]
  BY DEF Repartir
<1>4. ASSUME NEW parent, Ecrire(g, parent),
             \/ p.quoi = "poster" /\ parent = Tete
             \/ p.quoi = "repondre" /\ parent = p.sur
      PROVE  FilInv'
  <2>1. CASE parent \in DOMAIN tenues \cup {Tete}
    <3>1. /\ m \in Paroles /\ donnees' = m /\ Repartir(g, m)
          /\ tenues' = [c \in DOMAIN tenues \cup {m} |-> IF c = m THEN parent ELSE tenues[c]]
      BY <1>4, <2>1 DEF Ecrire
    <3>2. p.quoi = "repondre" => parent \in DOMAIN tenues
      BY <1>1, <1>4, <2>1 DEF UneParole, Visee
    <3>3. PICK q \in Courrier : /\ q.quoi = p.quoi /\ q.sur = p.sur /\ q.rendu = m
                                /\ postes' = [postes EXCEPT ![g] = q]
      BY <1>2, <1>3, <3>1
    <3>4. \/ p.quoi = "poster" /\ parent = Tete
          \/ p.quoi = "repondre" /\ parent = p.sur /\ parent \in DOMAIN tenues
      BY <1>4, <3>2
    <3> DEFINE te1 == tenues'
    <3>5. Augmentee(tenues, te1, m, parent)
      BY <3>1 DEF Augmentee
    <3>6. FilSuivi(tenues', m, amorce, auFil, total, postes')
      <4> DEFINE po1 == postes'
      <4>1. postes[g].rendu = Tete /\ po1 = [postes EXCEPT ![g] = q]
        BY <1>1, <3>3
      <4> HIDE DEF te1, m, p, po1
      <4>2. m = donnees + 1 /\ m \in Paroles /\ p = postes[g]
        BY <3>1 DEF m, p
      <4>3. FilSuivi(te1, m, amorce, auFil, total, po1)
        BY <1>1, <3>3, <3>4, <3>5, <4>1, <4>2, Written
      <4> QED BY <4>3 DEF te1, po1
    <3> QED BY <1>1, <3>1, <3>6 DEF FilInv
  <2>2. CASE parent \notin DOMAIN tenues \cup {Tete}
    <3>1. Repartir(g, Refusee) /\ tenues' = tenues /\ donnees' = donnees /\ p.quoi = "repondre"
      BY <1>4, <2>2 DEF Ecrire
    <3>2. PICK q \in Courrier : /\ q.quoi = p.quoi /\ q.sur = p.sur /\ q.rendu = Refusee
                                /\ postes' = [postes EXCEPT ![g] = q]
      BY <1>2, <1>3, <3>1
    <3>3. FilSuivi(tenues, donnees, amorce, auFil, total, postes')
      BY <1>1, <3>1, <3>2, Refusal
    <3> QED BY <1>1, <3>1, <3>3 DEF FilInv
  <2> QED BY <2>1, <2>2
<1>5. ASSUME NEW x, x = p.sur, Retrancher(g, x), p.quoi \in {"effacer", "oter"}
      PROVE  FilInv'
  <2>1. /\ tenues' = [c \in DOMAIN tenues \ ({x} \cup {r \in DOMAIN tenues : tenues[r] = x}) |-> tenues[c]]
        /\ donnees' = donnees /\ Repartir(g, IF x \in DOMAIN tenues THEN x ELSE Refusee)
        /\ x \in Paroles
    BY <1>1, <1>5 DEF Retrancher, SansParoles, Sous, UneParole, Visee
  <2>2. CASE x \in DOMAIN tenues
    <3>1. PICK q \in Courrier : /\ q.quoi = p.quoi /\ q.sur = x /\ q.rendu = x
                                /\ postes' = [postes EXCEPT ![g] = q]
      BY <1>2, <1>3, <1>5, <2>1, <2>2
    <3>2. FilSuivi(tenues', donnees, amorce, auFil, total, postes')
      <4> DEFINE te1 == tenues'
                 po1 == postes'
      <4>1. Diminuee(tenues, te1, x)
        BY <2>1 DEF Diminuee
      <4>2. /\ postes[g].rendu = Tete /\ postes[g].quoi \in {"effacer", "oter"} /\ x = postes[g].sur
            /\ q.quoi = postes[g].quoi /\ po1 = [postes EXCEPT ![g] = q]
        BY <1>1, <1>5, <3>1
      <4> HIDE DEF te1, po1, p
      <4>3. FilSuivi(te1, donnees, amorce, auFil, total, po1)
        BY <1>1, <2>2, <3>1, <4>1, <4>2, Deleted
      <4> QED BY <4>3 DEF te1, po1
    <3> QED BY <1>1, <2>1, <3>2 DEF FilInv
  <2>3. CASE x \notin DOMAIN tenues
    <3>1. PICK q \in Courrier : /\ q.quoi = p.quoi /\ q.sur = p.sur /\ q.rendu = Refusee
                                /\ postes' = [postes EXCEPT ![g] = q]
      BY <1>2, <1>3, <2>1, <2>3
    <3>2. FilSuivi(tenues, donnees, amorce, auFil, total, postes')
      BY <1>1, <1>5, <3>1, Refusal
    <3>3. /\ tenues = [c \in DOMAIN tenues |-> tenues[c]]
          /\ \A c \in DOMAIN tenues : tenues[c] # x
      BY <1>1, <2>1, <2>3 DEF FilEnBase
    <3>4. DOMAIN tenues \ ({x} \cup {r \in DOMAIN tenues : tenues[r] = x}) = DOMAIN tenues
      BY <2>3, <3>3
    <3>5. tenues' = tenues
      BY <2>1, <3>3, <3>4
    <3> QED BY <1>1, <2>1, <3>2, <3>5 DEF FilInv
  <2> QED BY <2>2, <2>3
<1>6. CASE EnChemin(g, "poster") /\ Ecrire(g, Tete)
  BY <1>4, <1>6 DEF EnChemin
<1>7. CASE EnChemin(g, "repondre") /\ Ecrire(g, p.sur)
  BY <1>4, <1>7 DEF EnChemin
<1>8. CASE (EnChemin(g, "effacer") \/ EnChemin(g, "oter")) /\ Retrancher(g, p.sur)
  BY <1>5, <1>8 DEF EnChemin
<1> QED BY <1>6, <1>7, <1>8 DEF ServirParole

LEMMA FilAnswers ==
  ASSUME FilInv, ~ecartee, ~ecartee', ecartee' \in BOOLEAN, NEW g \in Guichets,
         \/ ParolePostee(g) \/ ReponsePostee(g) \/ FilEfface(g) \/ ReponseOtee(g) \/ ReponsePerdue(g)
  PROVE  FilInv'
<1> DEFINE p == postes[g]
           po1 == [postes EXCEPT ![g] = Chome]
<1>1. /\ FilSuivi(tenues, donnees, amorce, auFil, total, postes)
      /\ UNCHANGED <<tenues, donnees, amorce>> /\ postes' = po1
      /\ p \in Courrier /\ Tete \notin Paroles /\ Refusee \notin Paroles
  BY FilAssumption DEF FilInv, FilSuivi, ParolePostee, ReponsePostee, FilEfface, ReponseOtee,
                       ReponsePerdue, Rendue
<1>2. SUFFICES FilSuivi(tenues, donnees, amorce, auFil', total', po1)
  BY <1>1 DEF FilInv
<1>3. CASE ParolePostee(g)
  <2> DEFINE f1 == auFil'
  <2>1. /\ postes[g].quoi = "poster" /\ postes[g].rendu # Tete /\ total' = total + 1
        /\ Jointe(auFil, f1, postes[g].rendu)
    BY <1>3 DEF ParolePostee, Rendue, Servie, Jointe
  <2> HIDE DEF f1
  <2>2. FilSuivi(tenues, donnees, amorce, f1, total + 1, po1)
    BY <1>1, <2>1, PostShown
  <2> QED BY <2>1, <2>2 DEF f1
<1>4. CASE ReponsePostee(g)
  <2>1. p.quoi = "repondre" /\ p.rendu # Tete
    BY <1>4 DEF ReponsePostee, Rendue, Servie
  <2>2. CASE Entendu(g, p.sur)
    <3>1. /\ p.sur \in DOMAIN auFil /\ p.rendu # Refusee /\ total' = total + 1
          /\ auFil' = [auFil EXCEPT ![p.sur] = @ \cup {p.rendu}]
      BY <1>4, <2>2 DEF ReponsePostee, Entendu
    <3> QED BY <1>1, <2>1, <3>1, ReplyShown
  <2>3. CASE ~Entendu(g, p.sur)
    <3>1. auFil' = auFil /\ total' = total /\ (p.sur \notin DOMAIN auFil \/ p.rendu \notin Paroles)
      BY <1>1, <1>4, <2>3 DEF ReponsePostee, Entendu
    <3> QED BY <1>1, <2>1, <3>1, Unheard
  <2> QED BY <2>2, <2>3
<1>5. CASE FilEfface(g)
  <2>1. p.quoi = "effacer" /\ p.rendu # Tete
    BY <1>5 DEF FilEfface, Rendue, Servie
  <2>2. CASE Entendu(g, p.sur)
    <3>1. /\ p.sur \in DOMAIN auFil /\ p.rendu # Refusee
          /\ total' = total - (1 + Cardinality(auFil[p.sur]))
          /\ auFil' = [e \in DOMAIN auFil \ {p.sur} |-> auFil[e]]
      BY <1>5, <2>2 DEF FilEfface, Entendu, Emporte, SansParoles
    <3> QED BY <1>1, <2>1, <3>1, ThreadGone
  <2>3. CASE ~Entendu(g, p.sur)
    <3>1. auFil' = auFil /\ total' = total /\ (p.sur \notin DOMAIN auFil \/ p.rendu \notin Paroles)
      BY <1>1, <1>5, <2>3 DEF FilEfface, Entendu
    <3> QED BY <1>1, <2>1, <3>1, Unheard
  <2> QED BY <2>2, <2>3
<1>6. CASE ReponseOtee(g)
  <2>1. p.quoi = "oter" /\ p.rendu # Tete
    BY <1>6 DEF ReponseOtee, Rendue, Servie
  <2> DEFINE Ouie == \E c \in DOMAIN auFil : p.sur \in auFil[c] /\ Entendu(g, c)
  <2>2. CASE Ouie
    <3>1. /\ (\E c \in DOMAIN auFil : p.sur \in auFil[c]) /\ p.rendu # Refusee
          /\ total' = total - 1
          /\ auFil' = [c \in DOMAIN auFil |-> auFil[c] \ {p.sur}]
      BY <1>6, <2>2 DEF ReponseOtee, Entendu
    <3> DEFINE f1 == auFil'
    <3>2. Privee(auFil, f1, p.sur)
      BY <3>1 DEF Privee
    <3> HIDE DEF f1
    <3>3. FilSuivi(tenues, donnees, amorce, f1, total - 1, po1)
      BY <1>1, <2>1, <3>1, <3>2, ReplyGone
    <3> QED BY <3>1, <3>3 DEF f1
  <2>3. CASE ~Ouie
    <3>1. /\ auFil' = auFil /\ total' = total
          /\ (\A c \in DOMAIN auFil : p.sur \notin auFil[c]) \/ p.rendu \notin Paroles
      BY <1>1, <1>6, <2>3 DEF ReponseOtee, Entendu
    <3> QED BY <1>1, <2>1, <3>1, Unheard
  <2> QED BY <2>2, <2>3
<1>7. CASE ReponsePerdue(g)
  <2>1. auFil' = auFil /\ total' = total /\ p.rendu \notin Paroles
    BY <1>7 DEF ReponsePerdue
  <2> QED BY <1>1, <2>1, Unheard
<1> QED BY <1>3, <1>4, <1>5, <1>6, <1>7

LEMMA FilLists ==
  ASSUME FilInv, ~ecartee, ~ecartee', ecartee' \in BOOLEAN, LireFil \/ FilArrive \/ FilEchoue
  PROVE  FilInv'
<1>1. FilSuivi(tenues, donnees, amorce, auFil, total, postes)
  BY DEF FilInv
<1>2. CASE LireFil
  <2>1. /\ UNCHANGED <<tenues, donnees, auFil, total, postes, ecartee>>
        /\ amorce.etat = "envoye" /\ amorce'.etat = "lu"
        /\ amorce'.lu = [c \in {r \in DOMAIN tenues : tenues[r] = Tete} |->
                                        {r \in DOMAIN tenues : tenues[r] = c}]
    BY <1>2 DEF LireFil, Sous
  <2>2. FilAmorce(amorce', tenues, postes)
    <3>1. \A g \in Guichets : postes[g].quoi \in {"aucun", "poster"}
      BY <1>1, <2>1 DEF FilSuivi, FilAmorce
    <3> DEFINE L == amorce'.lu
    <3>2. /\ L = [c \in DOMAIN L |-> L[c]]
          /\ \A c \in DOMAIN L : /\ c \in DOMAIN tenues /\ tenues[c] = Tete
                                 /\ L[c] = {y \in DOMAIN tenues : tenues[y] = c}
      BY <2>1
    <3> QED BY <2>1, <3>1, <3>2 DEF FilAmorce
  <2>3. FilSuivi(tenues, donnees, amorce', auFil, total, postes)
    BY <1>1, <2>2 DEF FilSuivi
  <2> QED BY <2>1, <2>3 DEF FilInv
<1>3. CASE FilArrive
  <2>1. /\ UNCHANGED <<tenues, donnees, total, postes>> /\ auFil' = amorce.lu
        /\ amorce.etat = "lu" /\ amorce'.etat = "fini"
        /\ \A g \in Guichets : ~(postes[g].quoi = "poster" /\ postes[g].rendu \in DOMAIN amorce.lu)
    BY <1>3 DEF FilArrive
  <2>2. FilSuivi(tenues, donnees, amorce', amorce.lu, total, postes)
    BY <1>1, <2>1, ListShown
  <2> QED BY <2>1, <2>2 DEF FilInv
<1>4. CASE FilEchoue
  <2>1. UNCHANGED <<tenues, donnees, auFil, total, postes>> /\ amorce'.etat = "fini"
    BY <1>4 DEF FilEchoue
  <2>2. FilAmorce(amorce', tenues, postes)
    BY <2>1 DEF FilAmorce
  <2>3. FilSuivi(tenues, donnees, amorce', auFil, total, postes)
    BY <1>1, <2>2 DEF FilSuivi
  <2> QED BY <2>1, <2>3 DEF FilInv
<1> QED BY <1>2, <1>3, <1>4

LEMMA FilStays == FilInv /\ [FilNext]_filVars => FilInv'
<1>1. SUFFICES ASSUME FilInv, [FilNext]_filVars PROVE FilInv'
  OBVIOUS
<1>2. CASE UNCHANGED filVars
  BY <1>1, <1>2 DEF filVars, FilInv
<1>3. CASE FilNext
  <2>1. ecartee' \in BOOLEAN /\ (ecartee => ecartee')
    BY <1>1, <1>3 DEF FilInv, FilNext, LireFil, FilArrive, FilEchoue, PosterParole, RepondreA, EffacerFil,
         OterReponse, Adresser, ServirParole, ParolePostee, ReponsePostee, FilEfface, ReponseOtee,
         ReponsePerdue
  <2>2. CASE ecartee'
    BY <2>1, <2>2 DEF FilInv
  <2>3. CASE ~ecartee'
    BY <1>1, <1>3, <2>1, <2>3, FilLists, FilAsks, FilServes, FilAnswers DEF FilNext
  <2> QED BY <2>2, <2>3
<1> QED BY <1>1, <1>2, <1>3

\* In whatever order the comments, replies and deletions of a member are
\* served and answered, once nothing is in flight the number under the mix is
\* that of the comments in the base (MixDetailView.vue, onCommentsChanged),
\* unless an answer was lost or a comment was posted while the list was read.
THEOREM CountFollowsThreadAlways == FilSpec => []CountFollowsThread
<1>1. FilInv => CountFollowsThread
  <2>1. SUFFICES ASSUME FilInv, ~ecartee, \A g \in Guichets : postes[g] = Chome
                 PROVE  total = Cardinality(DOMAIN tenues)
    BY DEF CountFollowsThread
  <2>2. /\ FilMontre(auFil, donnees) /\ FilAccorde(tenues, auFil, postes)
        /\ total = Cardinality(Comptees(tenues, auFil, postes)) /\ Tete \notin Paroles
    BY <2>1, FilAssumption DEF FilInv, FilSuivi
  <2>3. Nes(postes) = {} /\ \A c : ~Parti(c, postes) /\ ~Ote(c, postes)
    BY <2>1 DEF Chome, Nes, Parti, Ote
  <2>4. Vus(auFil) \subseteq DOMAIN tenues
    BY <2>2, <2>3 DEF FilAccorde, Vus
  <2>5. Comptees(tenues, auFil, postes) = DOMAIN tenues
    BY <2>3, <2>4 DEF Comptees
  <2> QED BY <2>2, <2>5
<1> QED BY <1>1, FilStarts, FilStays, PTL DEF FilSpec
==============================================================================
