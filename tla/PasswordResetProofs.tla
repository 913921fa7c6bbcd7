------------------------- MODULE PasswordResetProofs -------------------------
(***************************************************************************)
(* Proofs about PasswordReset, for any number of accounts, links and       *)
(* concurrent handlers.                                                    *)
(***************************************************************************)
EXTENDS PasswordReset, TLAPS

\* A handler whose step is one of the working ones is in flight.
LEMMA HandlerInFlight ==
  ASSUME NEW q \in {Libre} \cup EnVol, q.etape \in Etapes
  PROVE  q \in EnVol
BY DEF Etapes, Libre

\* Moving on inside a reset keeps the record's type.
LEMMA HandlerMoves ==
  ASSUME NEW q \in EnVol, NEW e \in Etapes
  PROVE  /\ [q EXCEPT !.etape = e] \in EnVol
         /\ \A S, X \in SUBSET Tokens :
              [q EXCEPT !.etape = e, !.aVoir = S, !.existants = X] \in EnVol
BY DEF EnVol

\* So does its scan.
LEMMA HandlerScans ==
  ASSUME NEW q \in EnVol, NEW c \in Tokens \cup {None}
  PROVE  /\ [q EXCEPT !.cible = c] \in EnVol
         /\ \A S \in SUBSET Tokens :
              [q EXCEPT !.cible = c, !.aVoir = S] \in EnVol
BY DEF EnVol

\* A handler starts with the link it was given and nothing else.
LEMMA HandlerStart ==
  ASSUME NEW t \in Tokens
  PROVE  [Libre EXCEPT !.etape = "hache", !.jeton = t] \in EnVol
BY DEF EnVol, Libre, Etapes

\* The end of a transaction keeps the types of the locks and handlers.
LEMMA ReleaseTypes ==
  ASSUME TypeOK, NEW r \in Resets, Relacher(r)
  PROVE  /\ verrouJeton' \in [Tokens -> Resets \cup {None}]
         /\ verrouUser' \in [Users -> Resets \cup {None}]
         /\ reset' \in [Resets -> {Libre} \cup EnVol]
BY DEF TypeOK, Relacher

\* The variables keep their types through every statement and handler step.
THEOREM ResetTypeOK == Spec => []TypeOK
<1> USE TimeAssumption
<1>1. Init => TypeOK
  BY DEF Init, TypeOK, Ligne, Absente
<1>2. ASSUME TypeOK, [Next]_vars PROVE TypeOK'
  <2> USE <1>2 DEF TypeOK, mail, verrous, histoire
  <2>1. ASSUME NEW u \in Users, NEW t \in Tokens, Forgot(u, t) PROVE TypeOK'
    BY <2>1 DEF Forgot, Ligne
  <2>2. ASSUME NEW t \in Tokens, Remettre(t) PROVE TypeOK'
    BY <2>2 DEF Remettre
  <2>3. ASSUME NEW r \in Resets, NEW t \in Tokens, Lire(r, t) PROVE TypeOK'
    BY <2>3, HandlerStart DEF Lire
  <2>4. ASSUME NEW r \in Resets, Consommer(r) PROVE TypeOK'
    <3>1. reset[r] \in EnVol
      BY <2>4, HandlerInFlight DEF Consommer, Etapes
    <3>2. [reset[r] EXCEPT !.etape = "pose"] \in EnVol
      BY <3>1, HandlerMoves DEF Etapes
    <3> QED
      BY <2>4, <3>1, <3>2 DEF Consommer
  <2>5. ASSUME NEW r \in Resets, Poser(r) PROVE TypeOK'
    <3>1. reset[r] \in EnVol
      BY <2>5, HandlerInFlight DEF Poser, Etapes
    <3>2. [reset[r] EXCEPT !.etape = "invalide"] \in EnVol
      BY <3>1, HandlerMoves DEF Etapes
    <3> QED
      BY <2>5, <3>2 DEF Poser
  <2>6. ASSUME NEW r \in Resets, Invalider(r) PROVE TypeOK'
    <3> DEFINE cles == Cles(Compte(r))
               vues == {t \in cles : ~jeton[t].use} \ {reset[r].jeton}
    <3>1. reset[r] \in EnVol
      BY <2>6, HandlerInFlight DEF Invalider, Etapes
    <3>2. cles \in SUBSET Tokens /\ vues \in SUBSET Tokens
      BY DEF Cles
    <3>3. [reset[r] EXCEPT !.etape = "balaie", !.aVoir = vues,
                           !.existants = cles] \in EnVol
      <4> HIDE DEF cles, vues
      <4> QED
        BY <3>1, <3>2, HandlerMoves DEF Etapes
    <3>4. reset' = [reset EXCEPT ![r] = [reset[r] EXCEPT !.etape = "balaie",
                       !.aVoir = vues, !.existants = cles]]
      BY <2>6, <3>1 DEF Invalider, EnVol
    <3>5. reset' \in [Resets -> {Libre} \cup EnVol]
      <4> HIDE DEF cles, vues
      <4> QED
        BY <3>3, <3>4
    <3> QED
      BY <2>6, <3>5 DEF Invalider
  <2>7. ASSUME NEW r \in Resets, NEW t \in Tokens, Viser(r, t) PROVE TypeOK'
    <3>1. reset[r] \in EnVol
      BY <2>7, HandlerInFlight DEF Viser, Etapes
    <3>2. [reset[r] EXCEPT !.cible = t] \in EnVol
      BY <3>1, HandlerScans
    <3> QED
      BY <2>7, <3>2 DEF Viser
  <2>8. ASSUME NEW r \in Resets, Balayer(r) PROVE TypeOK'
    <3> DEFINE reste == reset[r].aVoir \ {reset[r].cible}
    <3>1. reset[r] \in EnVol
      BY <2>8, HandlerInFlight DEF Balayer, Etapes
    <3>2. reste \in SUBSET Tokens
      BY <3>1 DEF EnVol
    <3>3. [reset[r] EXCEPT !.cible = None, !.aVoir = reste] \in EnVol
      <4> HIDE DEF reste
      <4> QED
        BY <3>1, <3>2, HandlerScans
    <3>4. reset' = [reset EXCEPT ![r] = [reset[r] EXCEPT !.cible = None,
                                                         !.aVoir = reste]]
      BY <2>8, <3>1 DEF Balayer, EnVol
    <3>5. reset' \in [Resets -> {Libre} \cup EnVol]
      <4> HIDE DEF reste
      <4> QED
        BY <3>3, <3>4
    <3> QED
      BY <2>8, <3>5 DEF Balayer
  <2>9. ASSUME NEW r \in Resets, Valider(r) PROVE TypeOK'
    <3>1. reset[r] \in EnVol
      BY <2>9, HandlerInFlight DEF Valider, Etapes
    <3>2. jeton' \in [Tokens -> Ligne]
      <4>1. ASSUME NEW t \in Tokens
            PROVE  [jeton[t] EXCEPT !.use = @ \/ verrouJeton[t] = r] \in Ligne
        <5>1. jeton[t] \in Ligne
          OBVIOUS
        <5>2. (jeton[t].use \/ verrouJeton[t] = r) \in BOOLEAN
          OBVIOUS
        <5> QED
          BY <5>1, <5>2 DEF Ligne
      <4> QED
        BY <2>9, <4>1 DEF Valider
    <3>3. reset[r].jeton \in Tokens /\ reset[r].existants \in SUBSET Tokens
      BY <3>1 DEF EnVol
    <3> QED
      BY <2>9, <3>2, <3>3, ReleaseTypes DEF Valider
  <2>10. ASSUME NEW r \in Resets, Expirer(r) \/ Victime(r) PROVE TypeOK'
    BY <2>10, ReleaseTypes DEF Expirer, Victime
  <2>11. ASSUME Tic PROVE TypeOK'
    BY <2>11 DEF Tic
  <2>12. ASSUME Redemarrer PROVE TypeOK'
    BY <2>12 DEF Redemarrer
  <2>13. CASE UNCHANGED vars
    BY <2>13 DEF vars
  <2> QED
    BY <2>1, <2>2, <2>3, <2>4, <2>5, <2>6, <2>7, <2>8, <2>9, <2>10, <2>11,
       <2>12, <2>13 DEF Next, Suite
<1>3. QED
  BY <1>1, <1>2, PTL DEF Spec

-----------------------------------------------------------------------------
\* A handler that works holds the record of a reset.
LEMMA WorkingHandler ==
  ASSUME TypeOK, NEW r \in Resets, reset[r] # Libre
  PROVE  /\ reset[r] \in EnVol
         /\ reset[r].etape \in Etapes
         /\ reset[r].jeton \in Tokens
         /\ reset[r].aVoir \in SUBSET Tokens
         /\ reset[r].cible \in Tokens \cup {None}
         /\ reset[r].existants \in SUBSET Tokens
BY DEF TypeOK, EnVol

\* A handler that holds the record of a reset is not free.
LEMMA NotLibre ==
  ASSUME NEW q, q.etape \in Etapes
  PROVE  q # Libre
BY DEF Libre, Etapes

\* The end of a transaction keeps the strengthening, provided the rows it held
\* still belong to the accounts they did.
LEMMA ReleaseKeeps ==
  ASSUME TypeOK, ResetInv, NEW r \in Resets, Relacher(r),
         UNCHANGED <<jeton, mail, depenses, anterieurs>>
  PROVE  ResetInv'
<1> USE DEF TypeOK, ResetInv, Relacher, mail
<1>1. \A s \in Resets : reset'[s] = IF s = r THEN Libre ELSE reset[s]
  OBVIOUS
<1>2. Libre.etape = "libre"
  BY DEF Libre
<1>7. \A t \in Tokens : verrouJeton'[t] =
         IF verrouJeton[t] = r THEN None ELSE verrouJeton[t]
  OBVIOUS
<1>8. ASSUME NEW s \in Resets, reset'[s].etape \in Etapes
      PROVE  /\ s # r /\ reset'[s] = reset[s]
             /\ reset[s].jeton \in Tokens /\ reset[s].existants \in SUBSET Tokens
  BY <1>1, <1>2, <1>8, WorkingHandler DEF Etapes
<1>3. NoOlderKeySurvives'
  BY DEF NoOlderKeySurvives
<1>4. RowsKnown'
  BY <1>1 DEF RowsKnown
<1>5. LocksHeld'
  <2>1. ASSUME NEW s \in Resets, EnTransaction(s)'
        PROVE  verrouJeton'[reset'[s].jeton] = s
    BY <2>1, <1>7, <1>8 DEF LocksHeld, EnTransaction, Etapes
  <2>2. ASSUME NEW s \in Resets, NEW t \in Tokens, verrouJeton'[t] = s
        PROVE  EnTransaction(s)' /\ ~jeton'[t].use /\ jeton'[t].user = Compte(s)'
    <3>1. s # r /\ verrouJeton[t] = s /\ reset'[s] = reset[s]
      BY <2>2, <1>1, <1>7, NoneAssumption
    <3> QED
      BY <3>1 DEF LocksHeld, EnTransaction, Compte
  <2> QED
    BY <2>1, <2>2 DEF LocksHeld
<1>6. ScanCovers'
  BY <1>7, <1>8 DEF ScanCovers, Etapes
<1>9. ScanInAccount'
  BY <1>1 DEF ScanInAccount, Compte
<1> QED
  BY <1>3, <1>4, <1>5, <1>6, <1>9

\* The strengthening is preserved by every step.
THEOREM ResetSafe == Spec => []ResetInv
<1> USE NoneAssumption, TimeAssumption
<1>1. Init => ResetInv
  BY DEF Init, ResetInv, NoOlderKeySurvives, RowsKnown, LocksHeld, ScanCovers,
         ScanInAccount, EnTransaction, Absente, Libre
<1>2. ASSUME TypeOK, TypeOK', ResetInv, [Next]_vars PROVE ResetInv'
  <2> USE <1>2 DEF TypeOK, ResetInv
  <2>0. /\ Libre.etape = "libre"
        /\ \A q : q.etape \in Etapes => q # Libre
    BY DEF Libre, Etapes
  <2>1. ASSUME NEW u \in Users, NEW t \in Tokens, Forgot(u, t) PROVE ResetInv'
    <3>1. /\ jeton[t].user = None /\ ~jeton[t].use
          /\ jeton'[t].user = u /\ ~jeton'[t].use
          /\ \A s \in Tokens : s # t => jeton'[s] = jeton[s]
          /\ UNCHANGED <<reset, verrouJeton, anterieurs, depenses, courrier>>
      BY <2>1 DEF Forgot, Absente, Ligne, mail, verrous, histoire
    <3>2. \A r \in Resets : reset[r] # Libre => reset[r].jeton # t
      BY <3>1 DEF RowsKnown
    <3>3. NoOlderKeySurvives'
      BY <3>1 DEF NoOlderKeySurvives
    <3>4. RowsKnown'
      BY <2>1, <3>1, <3>2 DEF RowsKnown, Forgot
    <3>5. LocksHeld'
      <4>1. \A r \in Resets : EnTransaction(r) =>
               /\ reset[r].jeton \in Tokens /\ Compte(r)' = Compte(r)
               /\ Compte(r) # None
        BY <3>1, <3>2, <2>0, WorkingHandler
           DEF EnTransaction, Compte, Etapes, RowsKnown
      <4>2. verrouJeton[t] = None
        BY <3>1, <4>1 DEF LocksHeld
      <4> QED
        BY <3>1, <4>1, <4>2 DEF LocksHeld, EnTransaction
    <3>6. ScanCovers'
      <4>1. ASSUME NEW r \in Resets, reset[r].etape = "balaie"
            PROVE  t \notin reset[r].existants \ reset[r].aVoir
        <5>1. EnTransaction(r)
          BY <4>1 DEF EnTransaction
        <5> QED
          BY <4>1, <5>1, <3>1, <2>0, WorkingHandler
             DEF ScanCovers, LocksHeld, RowsKnown, Compte, Etapes
      <4> QED
        BY <3>1, <4>1, <2>0, WorkingHandler DEF ScanCovers, Etapes
    <3>7. ScanInAccount'
      <4>1. ASSUME NEW r \in Resets, reset[r] # Libre
            PROVE  Compte(r)' = Compte(r) /\ Compte(r) # None
        BY <4>1, <3>1, <3>2, WorkingHandler DEF Compte, RowsKnown
      <4> QED
        BY <3>1, <4>1, WorkingHandler DEF ScanInAccount
    <3> QED
      BY <3>3, <3>4, <3>5, <3>6, <3>7
  <2>2. ASSUME NEW t \in Tokens, Remettre(t) PROVE ResetInv'
    BY <2>2 DEF Remettre, NoOlderKeySurvives, RowsKnown, LocksHeld, ScanCovers,
         ScanInAccount, EnTransaction, Compte, verrous, histoire
  <2>3. ASSUME NEW r \in Resets, NEW t \in Tokens, Lire(r, t) PROVE ResetInv'
    <3>1. /\ reset'[r].etape = "hache" /\ reset'[r].jeton = t
          /\ reset'[r].aVoir = {} /\ reset'[r].cible = None
          /\ reset[r].etape = "libre"
          /\ \A s \in Resets : s # r => reset'[s] = reset[s]
          /\ UNCHANGED <<jeton, verrouJeton, enVoi, courrier, depenses,
                         anterieurs>>
      BY <2>3, <2>0 DEF Lire, Libre, mail, verrous, histoire
    <3>2. t \in courrier
      BY <2>3 DEF Lire
    <3>3. NoOlderKeySurvives'
      BY <3>1 DEF NoOlderKeySurvives
    <3>4. RowsKnown'
      BY <3>1, <3>2 DEF RowsKnown
    <3>5. LocksHeld' /\ ScanCovers' /\ ScanInAccount'
      BY <3>1 DEF LocksHeld, ScanCovers, ScanInAccount, EnTransaction, Compte
    <3> QED
      BY <3>3, <3>4, <3>5
  <2>4. ASSUME NEW r \in Resets, Consommer(r) PROVE ResetInv'
    <3> DEFINE t == reset[r].jeton
    <3>1. /\ reset[r] \in EnVol /\ t \in Tokens /\ reset[r].etape = "hache"
          /\ verrouJeton[t] = None /\ reset[r] # Libre
          /\ UNCHANGED <<jeton, enVoi, courrier, depenses, anterieurs>>
      BY <2>4, <2>0, WorkingHandler DEF Consommer, Etapes, mail, histoire
    <3>2. CASE jeton[t].use
      <4>1. /\ \A s \in Resets : reset'[s] = IF s = r THEN Libre ELSE reset[s]
            /\ UNCHANGED verrouJeton
        BY <2>4, <3>2 DEF Consommer, verrous
      <4>2. NoOlderKeySurvives' /\ RowsKnown'
        BY <3>1, <4>1 DEF NoOlderKeySurvives, RowsKnown
      <4>3. LocksHeld' /\ ScanCovers' /\ ScanInAccount'
        BY <3>1, <4>1, <2>0 DEF LocksHeld, ScanCovers, ScanInAccount, EnTransaction, Compte
      <4> QED
        BY <4>2, <4>3
    <3>3. CASE ~jeton[t].use
      <4>1. /\ reset'[r].etape = "pose" /\ reset'[r].jeton = t
            /\ \A s \in Resets : s # r => reset'[s] = reset[s]
            /\ verrouJeton' = [verrouJeton EXCEPT ![t] = r]
        BY <2>4, <3>1, <3>3 DEF Consommer, EnVol
      <4>6. /\ reset'[r].aVoir = reset[r].aVoir
            /\ reset'[r].cible = reset[r].cible
        BY <2>4, <3>1, <3>3 DEF Consommer, EnVol
      <4>2. NoOlderKeySurvives' /\ RowsKnown'
        <5> HIDE DEF t
        <5> QED
          BY <3>1, <4>1 DEF NoOlderKeySurvives, RowsKnown, t
      <4>3. LocksHeld'
        BY <3>1, <3>3, <4>1 DEF LocksHeld, EnTransaction, Compte
      <4>4. ScanCovers'
        BY <3>1, <4>1, <2>0, WorkingHandler DEF ScanCovers, Etapes
      <4>5. ScanInAccount'
        BY <3>1, <4>1, <4>6 DEF ScanInAccount, Compte
      <4> QED
        BY <4>2, <4>3, <4>4, <4>5
    <3> QED
      BY <3>2, <3>3
  <2>5. ASSUME NEW r \in Resets, Poser(r) PROVE ResetInv'
    <3>1. /\ reset[r] \in EnVol /\ reset[r].etape = "pose" /\ reset[r] # Libre
      BY <2>5, <2>0, WorkingHandler DEF Poser, Etapes
    <3>2. /\ reset'[r].etape = "invalide" /\ reset'[r].jeton = reset[r].jeton
          /\ reset'[r].aVoir = reset[r].aVoir
          /\ reset'[r].cible = reset[r].cible
          /\ \A s \in Resets : s # r => reset'[s] = reset[s]
          /\ UNCHANGED <<jeton, verrouJeton, enVoi, courrier, depenses,
                         anterieurs>>
      BY <2>5, <3>1 DEF Poser, EnVol, mail, histoire
    <3>3. NoOlderKeySurvives' /\ RowsKnown'
      BY <3>1, <3>2 DEF NoOlderKeySurvives, RowsKnown
    <3>4. LocksHeld' /\ ScanCovers' /\ ScanInAccount'
      BY <3>1, <3>2 DEF LocksHeld, ScanCovers, ScanInAccount, EnTransaction, Compte
    <3> QED
      BY <3>3, <3>4
  <2>6. ASSUME NEW r \in Resets, Invalider(r) PROVE ResetInv'
    <3>1. /\ reset[r] \in EnVol /\ reset[r].etape = "invalide"
          /\ reset[r] # Libre /\ EnTransaction(r)
      BY <2>6, <2>0, WorkingHandler DEF Invalider, Etapes, EnTransaction
    <3>2. /\ reset'[r].etape = "balaie" /\ reset'[r].jeton = reset[r].jeton
          /\ reset'[r].existants = Cles(Compte(r))
          /\ reset'[r].aVoir = {t \in Cles(Compte(r)) : ~jeton[t].use}
                                  \ {reset[r].jeton}
          /\ \A s \in Resets : s # r => reset'[s] = reset[s]
      BY <2>6, <3>1 DEF Invalider, EnVol
    <3>3. UNCHANGED <<jeton, verrouJeton, enVoi, courrier, depenses, anterieurs>>
      BY <2>6 DEF Invalider, mail, histoire, verrous
    <3>4. NoOlderKeySurvives' /\ RowsKnown'
      BY <3>1, <3>2, <3>3 DEF NoOlderKeySurvives, RowsKnown
    <3>5. LocksHeld'
      BY <3>1, <3>2, <3>3 DEF LocksHeld, EnTransaction, Compte
    <3>6. ScanCovers'
      <4>1. verrouJeton[reset[r].jeton] = r
        BY <3>1 DEF LocksHeld
      <4> QED
        BY <3>2, <3>3, <4>1 DEF ScanCovers, Cles
    <3>7. ScanInAccount'
      <4>1. reset'[r].cible = reset[r].cible
        BY <2>6, <3>1 DEF Invalider, EnVol
      <4> QED
        BY <3>1, <3>2, <3>3, <4>1 DEF ScanInAccount, Cles, Compte
    <3> QED
      BY <3>4, <3>5, <3>6, <3>7
  <2>7. ASSUME NEW r \in Resets, NEW t \in Tokens, Viser(r, t) PROVE ResetInv'
    <3>1. reset[r] \in EnVol /\ reset[r].etape = "balaie" /\ reset[r] # Libre
      BY <2>7, <2>0, WorkingHandler DEF Viser, Etapes
    <3>2. /\ reset'[r].etape = "balaie" /\ reset'[r].jeton = reset[r].jeton
          /\ reset'[r].existants = reset[r].existants
          /\ reset'[r].aVoir = reset[r].aVoir
          /\ reset'[r].cible = t /\ t \in reset[r].aVoir
          /\ \A s \in Resets : s # r => reset'[s] = reset[s]
          /\ UNCHANGED <<jeton, verrouJeton, enVoi, courrier, depenses,
                         anterieurs>>
      BY <2>7, <3>1 DEF Viser, EnVol, mail, histoire, verrous
    <3>3. NoOlderKeySurvives' /\ RowsKnown'
      BY <3>1, <3>2 DEF NoOlderKeySurvives, RowsKnown
    <3>4. LocksHeld' /\ ScanCovers' /\ ScanInAccount'
      BY <3>1, <3>2 DEF LocksHeld, ScanCovers, ScanInAccount, EnTransaction, Compte
    <3> QED
      BY <3>3, <3>4
  <2>8. ASSUME NEW r \in Resets, Balayer(r) PROVE ResetInv'
    <3> DEFINE t == reset[r].cible
    <3>1. /\ reset[r] \in EnVol /\ reset[r].etape = "balaie"
          /\ reset[r] # Libre /\ t \in Tokens /\ verrouJeton[t] = None
      BY <2>8, <2>0, WorkingHandler DEF Balayer, Etapes
    <3>2. /\ reset'[r].etape = "balaie" /\ reset'[r].jeton = reset[r].jeton
          /\ reset'[r].existants = reset[r].existants
          /\ reset'[r].aVoir = reset[r].aVoir \ {t}
          /\ reset'[r].cible = None
          /\ \A s \in Resets : s # r => reset'[s] = reset[s]
      BY <2>8, <3>1 DEF Balayer, EnVol
    <3>3. UNCHANGED <<jeton, enVoi, courrier, depenses, anterieurs>>
      BY <2>8 DEF Balayer, mail, histoire
    <3>4. verrouJeton' = IF jeton[t].use THEN verrouJeton
                         ELSE [verrouJeton EXCEPT ![t] = r]
      BY <2>8 DEF Balayer
    <3> HIDE DEF t
    <3>5. NoOlderKeySurvives' /\ RowsKnown'
      BY <3>1, <3>2, <3>3 DEF NoOlderKeySurvives, RowsKnown
    <3>6. LocksHeld'
      <4>1. EnTransaction(r) /\ verrouJeton[reset[r].jeton] = r
        BY <3>1 DEF LocksHeld, EnTransaction
      <4>2. \A s \in Resets : /\ EnTransaction(s)' <=> EnTransaction(s)
                             /\ Compte(s)' = Compte(s)
                             /\ reset'[s].jeton = reset[s].jeton
        BY <3>1, <3>2, <3>3 DEF EnTransaction, Compte
      <4>3. jeton[t].use \/ jeton[t].user = Compte(r)
        BY <3>1 DEF ScanInAccount, t
      <4> QED
        BY <3>1, <3>3, <3>4, <4>1, <4>2, <4>3 DEF LocksHeld
    <3>7. ScanCovers'
      BY <3>1, <3>2, <3>3, <3>4 DEF ScanCovers
    <3>8. ScanInAccount'
      BY <3>1, <3>2, <3>3 DEF ScanInAccount, Compte
    <3> QED
      BY <3>5, <3>6, <3>7, <3>8
  <2>9. ASSUME NEW r \in Resets, Valider(r) PROVE ResetInv'
    <3>1. /\ reset[r] \in EnVol /\ reset[r].etape = "balaie"
          /\ reset[r] # Libre /\ EnTransaction(r) /\ reset[r].aVoir = {}
          /\ reset[r].jeton \in Tokens /\ reset[r].existants \in SUBSET Tokens
          /\ verrouJeton[reset[r].jeton] = r
      BY <2>9, <2>0, WorkingHandler
         DEF Valider, Etapes, EnTransaction, LocksHeld
    <3>2. \A t \in Tokens :
            /\ jeton'[t].user = jeton[t].user
            /\ jeton'[t].use <=> (jeton[t].use \/ verrouJeton[t] = r)
      BY <2>9 DEF Valider, Ligne
    <3>3. /\ \A s \in Resets : reset'[s] = IF s = r THEN Libre ELSE reset[s]
          /\ \A t \in Tokens : verrouJeton'[t] =
               IF verrouJeton[t] = r THEN None ELSE verrouJeton[t]
          /\ depenses' = depenses \cup {reset[r].jeton}
          /\ anterieurs' = [anterieurs EXCEPT ![Compte(r)] = reset[r].existants]
          /\ UNCHANGED <<enVoi, courrier>>
      BY <2>9 DEF Valider, Relacher, mail
    <3>4. NoOlderKeySurvives'
      BY <3>1, <3>2, <3>3 DEF NoOlderKeySurvives, ScanCovers
    <3>5. RowsKnown'
      <4>1. \A s \in Resets : reset'[s] # Libre => s # r /\ reset'[s] = reset[s]
        BY <3>3
      <4>2. \A s \in Resets : reset[s] # Libre => reset[s].jeton \in Tokens
        BY WorkingHandler
      <4>3. \A t \in Tokens : verrouJeton[t] = r => jeton[t].user # None
        BY <3>1 DEF LocksHeld, RowsKnown, Compte
      <4>4. \A t \in Tokens : jeton'[t].user = None => ~jeton'[t].use
        BY <3>2, <4>3 DEF RowsKnown
      <4>5. \A t \in depenses' : jeton'[t].use
        BY <3>1, <3>2, <3>3 DEF RowsKnown
      <4>6. \A s \in Resets : reset'[s] # Libre => jeton'[reset'[s].jeton].user # None
        BY <3>2, <4>1, <4>2 DEF RowsKnown
      <4>7. \A t \in (enVoi \cup courrier)' : jeton'[t].user # None
        BY <3>2, <3>3 DEF RowsKnown
      <4> QED
        BY <4>4, <4>5, <4>6, <4>7 DEF RowsKnown
    <3>6. LocksHeld'
      <4>1. ASSUME NEW s \in Resets, EnTransaction(s)'
            PROVE  /\ s # r /\ reset'[s] = reset[s] /\ EnTransaction(s)
                   /\ reset[s].jeton \in Tokens /\ Compte(s)' = Compte(s)
        BY <4>1, <3>2, <3>3, <2>0, WorkingHandler
           DEF EnTransaction, Compte, Etapes
      <4>2. ASSUME NEW s \in Resets, NEW t \in Tokens, verrouJeton'[t] = s
            PROVE  s # r /\ verrouJeton[t] = s /\ reset'[s] = reset[s]
        BY <4>2, <3>3
      <4>3. \A s \in Resets : EnTransaction(s)' => verrouJeton'[reset'[s].jeton] = s
        BY <3>3, <4>1 DEF LocksHeld
      <4>4. ASSUME NEW s \in Resets, NEW t \in Tokens, verrouJeton'[t] = s
            PROVE EnTransaction(s)' /\ ~jeton'[t].use /\ jeton'[t].user = Compte(s)'
        <5>1. EnTransaction(s) /\ ~jeton[t].use /\ jeton[t].user = Compte(s)
          BY <4>2, <4>4 DEF LocksHeld
        <5>2. EnTransaction(s)'
          BY <4>2, <4>4, <5>1 DEF EnTransaction
        <5> QED
          BY <3>2, <4>1, <4>2, <4>4, <5>1, <5>2
      <4> QED
        BY <4>3, <4>4 DEF LocksHeld
    <3>7. ScanCovers'
      BY <3>1, <3>2, <3>3, <2>0, WorkingHandler DEF ScanCovers, Etapes
    <3>8. ScanInAccount'
      BY <3>1, <3>2, <3>3, WorkingHandler DEF ScanInAccount, Compte
    <3> QED
      BY <3>4, <3>5, <3>6, <3>7, <3>8
  <2>10. ASSUME NEW r \in Resets, Expirer(r) \/ Victime(r) PROVE ResetInv'
    BY <2>10, ReleaseKeeps DEF Expirer, Victime, histoire
  <2>11. ASSUME Tic PROVE ResetInv'
    BY <2>11 DEF Tic, NoOlderKeySurvives, RowsKnown, LocksHeld, ScanCovers,
         ScanInAccount, EnTransaction, Compte, verrous, histoire, mail
  <2>12. ASSUME Redemarrer PROVE ResetInv'
    BY <2>12, <2>0 DEF Redemarrer, NoOlderKeySurvives, RowsKnown, LocksHeld,
                       ScanCovers, ScanInAccount, EnTransaction, Compte, histoire
  <2>13. CASE UNCHANGED vars
    BY <2>13 DEF vars, NoOlderKeySurvives, RowsKnown, LocksHeld, ScanCovers,
         ScanInAccount, EnTransaction, Compte, verrous, histoire, mail
  <2> QED
    BY <2>1, <2>2, <2>3, <2>4, <2>5, <2>6, <2>7, <2>8, <2>9, <2>10, <2>11,
       <2>12, <2>13 DEF Next, Suite
<1>3. QED
  BY <1>1, <1>2, ResetTypeOK, PTL DEF Spec

\* No link that existed when the last reset of an account voided the others
\* works any more: the strengthening gives it.
THEOREM ResetNoOlderKey == Spec => []NoOlderKeySurvives
<1>1. ResetInv => NoOlderKeySurvives
  BY DEF ResetInv
<1> QED
  BY <1>1, ResetSafe, PTL

-----------------------------------------------------------------------------
\* Where the rows and the spent links stay, the keys do.
LEMMA KeysStay ==
  ASSUME UNCHANGED <<jeton, motDePasse, depenses>>
  PROVE  UNCHANGED <<[t \in Tokens |-> Etat(t)],
                     [t \in Tokens |-> jeton[t].user], motDePasse>>
BY DEF Etat

\* The handlers, their locks and their transactions implement the keys: only
\* Forgot mints, only the COMMIT of a reset spends, and it spends a live key.
THEOREM ResetImplementsKeys == Spec => ImplementsKeys
<1> USE NoneAssumption, TimeAssumption
<1>1. Init => Keys!KeysInit
  BY DEF Init, Keys!KeysInit, Etat, Absente
<1>2. ASSUME TypeOK, TypeOK', ResetInv, [Next]_vars
      PROVE  [Keys!KeysNext]_<<[t \in Tokens |-> Etat(t)],
                               [t \in Tokens |-> jeton[t].user], motDePasse>>
  <2> USE <1>2
  <2>1. ASSUME NEW u \in Users, NEW t \in Tokens, Forgot(u, t)
        PROVE  Keys!KeysNext
    <3>1. /\ jeton[t].user = None
          /\ jeton'[t].user = u /\ ~jeton'[t].use
          /\ \A s \in Tokens : s # t => jeton'[s] = jeton[s]
          /\ UNCHANGED <<motDePasse, depenses>>
      BY <2>1 DEF Forgot, Absente, TypeOK, histoire
    <3>2. Etat(t) = "absent" /\ Etat(t)' = "vif"
      BY <3>1 DEF Etat
    <3>3. \A s \in Tokens : s # t => Etat(s)' = Etat(s)
      BY <3>1 DEF Etat
    <3>4. Keys!Mint(u, t)
      BY <3>1, <3>2, <3>3 DEF Keys!Mint
    <3> QED
      BY <3>4 DEF Keys!KeysNext
  <2>2. ASSUME NEW r \in Resets, Valider(r) PROVE Keys!KeysNext
    <3>1. PICK t \in Tokens : /\ t = reset[r].jeton /\ verrouJeton[t] = r
                             /\ ~jeton[t].use /\ jeton[t].user # None
      <4>1. reset[r] # Libre /\ EnTransaction(r) /\ reset[r].etape = "balaie"
        BY <2>2 DEF Valider, EnTransaction, Libre
      <4> QED
        BY <4>1, WorkingHandler DEF ResetInv, LocksHeld, RowsKnown
    <3>2. PICK u \in Users : u = Compte(r) /\ jeton[t].user = u
      BY <3>1 DEF TypeOK, Ligne, Compte
    <3>3. /\ motDePasse' = [motDePasse EXCEPT ![u] = t]
          /\ depenses' = depenses \cup {t}
      BY <2>2, <3>1, <3>2 DEF Valider
    <3> DEFINE annules == {s \in Tokens : s # t /\ verrouJeton[s] = r}
    <3>4. \A s \in Tokens :
            /\ jeton'[s].user = jeton[s].user
            /\ jeton'[s].use <=> (jeton[s].use \/ verrouJeton[s] = r)
      BY <2>2 DEF Valider, TypeOK, Ligne
    <3>5. \A s \in Tokens : verrouJeton[s] = r =>
             ~jeton[s].use /\ jeton[s].user = u
      BY <3>2 DEF ResetInv, LocksHeld
    <3>6. \A s \in depenses : jeton[s].use
      BY DEF ResetInv, RowsKnown
    <3>7. Etat(t) = "vif" /\ Etat(t)' = "depense"
      BY <3>1, <3>3, <3>4 DEF Etat
    <3>8. \A s \in annules : /\ s # t /\ Etat(s) = "vif" /\ jeton[s].user = u
                             /\ Etat(s)' = "annule"
      BY <3>2, <3>3, <3>4, <3>5, <3>6 DEF Etat
    <3>9. \A s \in Tokens : s # t /\ s \notin annules => Etat(s)' = Etat(s)
      <4>1. ASSUME NEW s \in Tokens, s # t, s \notin annules
            PROVE  /\ jeton'[s].user = jeton[s].user
                   /\ jeton'[s].use <=> jeton[s].use
                   /\ s \in depenses' <=> s \in depenses
        <5>1. verrouJeton[s] # r
          BY <4>1
        <5>2. jeton'[s].use <=> jeton[s].use
          BY <5>1, <3>4
        <5> QED
          BY <4>1, <5>2, <3>3, <3>4
      <4> QED
        BY <4>1 DEF Etat
    <3>10. Keys!Spend(u, t, annules)
      <4> HIDE DEF annules
      <4>1. annules \in SUBSET Tokens
        BY DEF annules
      <4>2. [s \in Tokens |-> Etat(s)'] =
              [s \in Tokens |-> IF s = t THEN "depense"
                 ELSE IF s \in annules THEN "annule" ELSE Etat(s)]
        <5>1. ASSUME NEW s \in Tokens
              PROVE  Etat(s)' = IF s = t THEN "depense"
                       ELSE IF s \in annules THEN "annule" ELSE Etat(s)
          BY <3>7, <3>8, <3>9
        <5> QED
          BY <5>1 DEF Etat
      <4>3. [s \in Tokens |-> jeton'[s].user] = [s \in Tokens |-> jeton[s].user]
        BY <3>4
      <4>4. \A s \in Tokens : [x \in Tokens |-> Etat(x)][s] = Etat(s)
        OBVIOUS
      <4> QED
        BY <3>1, <3>2, <3>3, <3>7, <3>8, <4>1, <4>2, <4>3 DEF Keys!Spend
    <3> QED
      <4>1. annules \in SUBSET Tokens
        OBVIOUS
      <4> HIDE DEF annules
      <4> QED
        BY <3>1, <3>2, <3>10, <4>1 DEF Keys!KeysNext
  <2>3. ASSUME \/ \E t \in Tokens : Remettre(t)
               \/ \E r \in Resets :
                    \/ Consommer(r) \/ Poser(r) \/ Invalider(r) \/ Balayer(r)
                    \/ Victime(r) \/ Expirer(r)
                    \/ \E t \in Tokens : Viser(r, t) \/ Lire(r, t)
               \/ Tic \/ Redemarrer \/ UNCHANGED vars
        PROVE  UNCHANGED <<jeton, motDePasse, depenses>>
    BY <2>3 DEF Remettre, Consommer, Poser, Invalider, Balayer, Victime, Expirer,
                Viser, Lire, Tic, Redemarrer, vars, histoire
  <2> QED
    BY <2>1, <2>2, <2>3, KeysStay DEF Next, Suite
<1>3. QED
  BY <1>1, <1>2, ResetTypeOK, ResetSafe, PTL
     DEF Spec, ImplementsKeys, Keys!KeysSpec
=============================================================================
