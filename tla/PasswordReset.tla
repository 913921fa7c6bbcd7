----------------------------- MODULE PasswordReset -----------------------------
(***************************************************************************)
(* Password reset (password-reset.service.ts): a link is asked for, mailed *)
(* without being awaited, and spent in a PostgreSQL transaction of three   *)
(* statements.  A handler that wants a row another transaction holds waits *)
(* for it; when it is woken up its WHERE clause is evaluated again, as     *)
(* READ COMMITTED does.  Nothing a transaction writes is seen by others    *)
(* before Valider.                                                         *)
(***************************************************************************)
EXTENDS Integers

CONSTANTS
  Users,    \* accounts
  Tokens,   \* what randomBytes can draw for a link
  Resets,   \* `reset` handlers in flight at the same time
  None,     \* SQL NULL, or "nobody"
  TTL,      \* TOKEN_TTL_MS, in clock ticks
  Horizon   \* bound on the clock

ASSUME NoneAssumption == None \notin Users \cup Tokens \cup Resets \cup Int

ASSUME TimeAssumption == TTL \in Nat /\ Horizon \in Nat

VARIABLES
  jeton,        \* committed password_reset_tokens rows
  motDePasse,   \* for each account, the link that set its password
  verrouJeton,  \* who holds the lock of a token row
  verrouUser,   \* who holds the lock of a user row
  reset,        \* the handlers in flight
  enVoi,        \* links handed to the mailer, not yet settled
  courrier,     \* links that reached a mailbox
  maintenant,   \* the clock
  depenses,     \* history: links whose reset has been committed
  anterieurs    \* history: for each account, the links that existed when
                \* its last committed reset began its third statement

verrous == <<verrouJeton, verrouUser>>
mail == <<enVoi, courrier>>
histoire == <<depenses, anterieurs>>
vars == <<jeton, motDePasse, verrous, reset, mail, maintenant, histoire>>

-----------------------------------------------------------------------------
Ligne == [user : Users \cup {None}, expire : Nat, use : BOOLEAN]

Absente == [user |-> None, expire |-> 0, use |-> FALSE]

\* The steps of `reset`: hashing, the three statements, the third one's scan.
Etapes == {"hache", "pose", "invalide", "balaie"}

Libre == [etape |-> "libre", jeton |-> None, aVoir |-> {}, cible |-> None,
          existants |-> {}]

EnVol == [etape : Etapes,
          jeton : Tokens,
          aVoir : SUBSET Tokens,        \* rows the third statement has to visit
          cible : Tokens \cup {None},   \* the row it is on
          existants : SUBSET Tokens]    \* history: rows when it began

TypeOK ==
  /\ jeton \in [Tokens -> Ligne]
  /\ motDePasse \in [Users -> Tokens \cup {None}]
  /\ verrouJeton \in [Tokens -> Resets \cup {None}]
  /\ verrouUser \in [Users -> Resets \cup {None}]
  /\ reset \in [Resets -> {Libre} \cup EnVol]
  /\ enVoi \in SUBSET Tokens
  /\ courrier \in SUBSET Tokens
  /\ maintenant \in Nat
  /\ depenses \in SUBSET Tokens
  /\ anterieurs \in [Users -> SUBSET Tokens]

Init ==
  /\ jeton = [t \in Tokens |-> Absente]
  /\ motDePasse = [u \in Users |-> None]
  /\ verrouJeton = [t \in Tokens |-> None]
  /\ verrouUser = [u \in Users |-> None]
  /\ reset = [r \in Resets |-> Libre]
  /\ enVoi = {}
  /\ courrier = {}
  /\ maintenant = 0
  /\ depenses = {}
  /\ anterieurs = [u \in Users |-> {}]

\* The account of the link a handler works on.
Compte(r) == jeton[reset[r].jeton].user

Cles(u) == {t \in Tokens : jeton[t].user = u}

-----------------------------------------------------------------------------
(* forgot                                                                  *)

\* Within the budgets, a fresh row is committed and handed to the mailer;
\* a link that is still alive is no reason not to mint another.
Forgot(u, t) ==
  /\ jeton[t] = Absente
  /\ jeton' = [jeton EXCEPT ![t] =
                 [user |-> u, expire |-> maintenant + TTL, use |-> FALSE]]
  /\ enVoi' = enVoi \cup {t}
  /\ UNCHANGED <<motDePasse, verrous, reset, courrier, maintenant, histoire>>

\* The delivery settles; a failure is logged and swallowed.
Remettre(t) ==
  /\ t \in enVoi
  /\ enVoi' = enVoi \ {t}
  /\ \E sent \in BOOLEAN :
       courrier' = IF sent THEN courrier \cup {t} ELSE courrier
  /\ UNCHANGED <<jeton, motDePasse, verrous, reset, maintenant, histoire>>

-----------------------------------------------------------------------------
(* reset                                                                   *)

\* The check that precedes the hash: known, unused, not expired.
Lire(r, t) ==
  /\ reset[r] = Libre
  /\ t \in courrier
  /\ ~jeton[t].use /\ jeton[t].expire > maintenant
  /\ reset' = [reset EXCEPT ![r] = [Libre EXCEPT !.etape = "hache", !.jeton = t]]
  /\ UNCHANGED <<jeton, motDePasse, verrous, mail, maintenant, histoire>>

\* Mutant: statement 1 forgets its usedAt IS NULL.
ConsommerSansCondition(r) ==
  LET t == reset[r].jeton
  IN /\ reset[r].etape = "hache"
     /\ verrouJeton[t] = None
     /\ reset' = [reset EXCEPT ![r].etape = "pose"]
     /\ verrouJeton' = [verrouJeton EXCEPT ![t] = r]
     /\ UNCHANGED <<verrouUser, jeton, motDePasse, mail, maintenant, histoire>>

\* Mutant: count 0 is tried again instead of refused.
ConsommerEncore(r) ==
  LET t == reset[r].jeton
  IN /\ reset[r].etape = "hache"
     /\ verrouJeton[t] = None
     /\ ~jeton[t].use
     /\ reset' = [reset EXCEPT ![r].etape = "pose"]
     /\ verrouJeton' = [verrouJeton EXCEPT ![t] = r]
     /\ UNCHANGED <<verrouUser, jeton, motDePasse, mail, maintenant, histoire>>

\* Statement 1, conditional on usedAt IS NULL.  Count 0 rolls back.
Consommer(r) ==
  LET t == reset[r].jeton
  IN /\ reset[r].etape = "hache"
     /\ verrouJeton[t] = None
     /\ IF jeton[t].use
        THEN /\ reset' = [reset EXCEPT ![r] = Libre]
             /\ UNCHANGED verrous
        ELSE /\ reset' = [reset EXCEPT ![r].etape = "pose"]
             /\ verrouJeton' = [verrouJeton EXCEPT ![t] = r]
             /\ UNCHANGED verrouUser
     /\ UNCHANGED <<jeton, motDePasse, mail, maintenant, histoire>>

\* Statement 2: the user row is updated, hence locked until the end.
Poser(r) ==
  /\ reset[r].etape = "pose"
  /\ verrouUser[Compte(r)] = None
  /\ verrouUser' = [verrouUser EXCEPT ![Compte(r)] = r]
  /\ reset' = [reset EXCEPT ![r].etape = "invalide"]
  /\ UNCHANGED <<jeton, motDePasse, verrouJeton, mail, maintenant, histoire>>

\* Mutant: statement 3 passes over the rows somebody holds.
InvaliderSansAttendre(r) ==
  LET cles == Cles(Compte(r))
  IN /\ reset[r].etape = "invalide"
     /\ reset' = [reset EXCEPT
          ![r].etape = "balaie",
          ![r].aVoir = {t \in cles : ~jeton[t].use /\ verrouJeton[t] = None},
          ![r].existants = cles]
     /\ UNCHANGED <<jeton, motDePasse, verrous, mail, maintenant, histoire>>

\* Statement 3 begins: the rows it will visit are those committed by now.
Invalider(r) ==
  LET cles == Cles(Compte(r))
  IN /\ reset[r].etape = "invalide"
     /\ reset' = [reset EXCEPT
          ![r].etape = "balaie",
          ![r].aVoir = {t \in cles : ~jeton[t].use} \ {reset[r].jeton},
          ![r].existants = cles]
     /\ UNCHANGED <<jeton, motDePasse, verrous, mail, maintenant, histoire>>

\* The scan moves on to one of the rows left.
Viser(r, t) ==
  /\ reset[r].etape = "balaie" /\ reset[r].cible = None
  /\ t \in reset[r].aVoir
  /\ reset' = [reset EXCEPT ![r].cible = t]
  /\ UNCHANGED <<jeton, motDePasse, verrous, mail, maintenant, histoire>>

\* The row is free: updated if its usedAt is still null, skipped otherwise.
Balayer(r) ==
  LET t == reset[r].cible
  IN /\ reset[r].etape = "balaie" /\ t # None
     /\ verrouJeton[t] = None
     /\ verrouJeton' = IF jeton[t].use THEN verrouJeton
                       ELSE [verrouJeton EXCEPT ![t] = r]
     /\ reset' = [reset EXCEPT ![r].cible = None, ![r].aVoir = @ \ {t}]
     /\ UNCHANGED <<jeton, motDePasse, verrouUser, mail, maintenant, histoire>>

\* The transaction ends and lets go of its rows.
Relacher(r) ==
  /\ verrouJeton' = [t \in Tokens |->
                       IF verrouJeton[t] = r THEN None ELSE verrouJeton[t]]
  /\ verrouUser' = [u \in Users |->
                       IF verrouUser[u] = r THEN None ELSE verrouUser[u]]
  /\ reset' = [reset EXCEPT ![r] = Libre]

\* COMMIT: the rows it holds are used, and the password is the new one.
Valider(r) ==
  /\ reset[r].etape = "balaie"
  /\ reset[r].cible = None /\ reset[r].aVoir = {}
  /\ jeton' = [t \in Tokens |-> [jeton[t] EXCEPT
                                   !.use = @ \/ verrouJeton[t] = r]]
  /\ motDePasse' = [motDePasse EXCEPT ![Compte(r)] = reset[r].jeton]
  /\ depenses' = depenses \cup {reset[r].jeton}
  /\ anterieurs' = [anterieurs EXCEPT ![Compte(r)] = reset[r].existants]
  /\ Relacher(r)
  /\ UNCHANGED <<mail, maintenant>>

\* ROLLBACK: the interactive transaction ran out of time, or its connection.
Expirer(r) ==
  /\ reset[r].etape \in {"pose", "invalide", "balaie"}
  /\ Relacher(r)
  /\ UNCHANGED <<jeton, motDePasse, mail, maintenant, histoire>>

-----------------------------------------------------------------------------
(* PostgreSQL's deadlock detector, the clock and the process               *)

Attend(r, s) ==
  /\ r # s
  /\ \/ reset[r].etape = "hache" /\ verrouJeton[reset[r].jeton] = s
     \/ reset[r].etape = "pose" /\ verrouUser[Compte(r)] = s
     \/ /\ reset[r].etape = "balaie" /\ reset[r].cible # None
        /\ verrouJeton[reset[r].cible] = s

\* Two resets that wait for each other: one of them is rolled back.  Longer
\* cycles cannot form, only the holder of the user row scans the tokens.
Victime(r) ==
  /\ \E s \in Resets : Attend(r, s) /\ Attend(s, r)
  /\ Relacher(r)
  /\ UNCHANGED <<jeton, motDePasse, mail, maintenant, histoire>>

Tic ==
  /\ maintenant < Horizon
  /\ maintenant' = maintenant + 1
  /\ UNCHANGED <<jeton, motDePasse, verrous, reset, mail, histoire>>

\* The process restarts: open transactions roll back, pending mail is lost.
Redemarrer ==
  /\ reset' = [r \in Resets |-> Libre]
  /\ verrouJeton' = [t \in Tokens |-> None]
  /\ verrouUser' = [u \in Users |-> None]
  /\ enVoi' = {}
  /\ UNCHANGED <<jeton, motDePasse, courrier, maintenant, histoire>>

-----------------------------------------------------------------------------
\* What drives a handler to its answer.
Suite(r) ==
  \/ Consommer(r) \/ Poser(r) \/ Invalider(r) \/ Balayer(r) \/ Valider(r)
  \/ Victime(r)
  \/ \E t \in Tokens : Viser(r, t)

Next ==
  \/ \E u \in Users, t \in Tokens : Forgot(u, t)
  \/ \E t \in Tokens : Remettre(t)
  \/ \E r \in Resets :
       \/ Suite(r)
       \/ Expirer(r)
       \/ \E t \in Tokens : Lire(r, t)
  \/ Tic
  \/ Redemarrer

Spec == Init /\ [][Next]_vars

\* PostgreSQL answers every statement whose row is free, its deadlock detector
\* runs, and a row goes to those who wait for it before it goes to newcomers:
\* a handler that can go on again and again does.
FairSpec == Spec /\ \A r \in Resets : SF_vars(Suite(r))

-----------------------------------------------------------------------------
(* Properties                                                              *)

\* Once a reset is committed no link that existed when it voided the others
\* works any more: asking twice does not leave two working keys, whatever
\* other resets of the account were doing at the time.
NoOlderKeySurvives ==
  \A u \in Users : \A t \in anterieurs[u] : jeton[t].use

\* The abstract keys: minted once, spent at most once.
Etat(t) ==
  IF jeton[t].user = None THEN "absent"
  ELSE IF ~jeton[t].use THEN "vif"
  ELSE IF t \in depenses THEN "depense" ELSE "annule"

Keys == INSTANCE ResetKeys WITH
          etat <- [t \in Tokens |-> Etat(t)],
          titre <- [t \in Tokens |-> jeton[t].user],
          secret <- motDePasse

\* Every step of the handlers is a step of the keys, or none: in particular
\* two handlers holding the same link set at most one password.
ImplementsKeys == Keys!KeysSpec

\* The strengthening that makes these inductive.  A row belongs to an account
\* once it is mailed, held or worked on, and a held row is not used yet.
RowsKnown ==
  /\ \A t \in enVoi \cup courrier : jeton[t].user # None
  /\ \A r \in Resets : reset[r] # Libre => jeton[reset[r].jeton].user # None
  /\ \A t \in Tokens : jeton[t].user = None => ~jeton[t].use
  /\ \A t \in depenses : jeton[t].use

EnTransaction(r) == reset[r].etape \in {"pose", "invalide", "balaie"}

LocksHeld ==
  /\ \A r \in Resets : EnTransaction(r) => verrouJeton[reset[r].jeton] = r
  /\ \A t \in Tokens, r \in Resets : verrouJeton[t] = r =>
        EnTransaction(r) /\ ~jeton[t].use /\ jeton[t].user = Compte(r)

\* What the third statement has not visited is used, or held by it.
ScanCovers ==
  \A r \in Resets : reset[r].etape = "balaie" =>
     \A t \in reset[r].existants \ reset[r].aVoir :
        jeton[t].use \/ verrouJeton[t] = r

\* It only visits rows of its own account.
ScanInAccount ==
  \A r \in Resets : reset[r] # Libre =>
     \A t \in reset[r].aVoir \cup ({reset[r].cible} \ {None}) :
        jeton[t].user = Compte(r)

ResetInv ==
  NoOlderKeySurvives /\ RowsKnown /\ LocksHeld /\ ScanCovers /\ ScanInAccount

\* Every reset that was let past its check gets an answer, even when another
\* one of the same account waits for it in a circle.
EveryResetAnswers ==
  \A r \in Resets : reset[r] # Libre ~> reset[r] = Libre

=============================================================================
