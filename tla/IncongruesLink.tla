---------------------------- MODULE IncongruesLink ----------------------------
(***************************************************************************)
(* Proof of possession of a Musiques Incongrues forum account              *)
(* (incongrues.verification.service.ts).                                   *)
(*                                                                         *)
(* A member claims a forum pseudo and receives a short token               *)
(* (DemanderJeton), publishes that token in the forum profile or in a      *)
(* post, and then asks for the forum to be searched (Verifier).  Each      *)
(* database statement and each forum read of these handlers is an await:   *)
(* it is one action here, and the handlers of all members interleave       *)
(* between them.  What a handler has read stays in its request record.     *)
(***************************************************************************)
EXTENDS Integers, FiniteSets

CONSTANTS
  Users,      \* Tambouille accounts
  Pseudos,    \* forum accounts
  Jetons,     \* tokens demanderJeton can draw (48 random bits in the code)
  Requests,   \* handlers in flight at the same time
  None,       \* SQL NULL, or "nothing yet"
  TTL,        \* TOKEN_TTL_MS, in clock ticks
  Debounce,   \* VERIFY_DEBOUNCE_MS, in clock ticks
  Horizon,    \* bound on the clock
  MaxMessages \* bound on the posts that carry a token

ASSUME NoneAssumption ==
  None \notin Users \cup Pseudos \cup Jetons \cup Int

ASSUME TimeAssumption ==
  TTL \in Nat /\ Debounce \in Nat /\ Horizon \in Nat /\ MaxMessages \in Nat

VARIABLES
  compte,       \* the four incongrues* columns of each user row
  dernierEssai, \* the in-memory debounce map of the service
  requete,      \* the handlers in flight
  profil,       \* the profile field of each forum account
  messages,     \* the posts of the forum that mention a token
  maintenant,   \* the clock
  emis,         \* history: <<u, p, j>>, token j was given to u for pseudo p
  publie,       \* history: <<p, j>>, the holder of p has published j
  devance       \* history: accounts whose last proof was written over a
                \* row that had changed pseudo since it was read

forum == <<profil, messages, publie>>
vars == <<compte, dernierEssai, requete, forum, maintenant, emis, devance>>

-----------------------------------------------------------------------------
Row == [pseudo  : Pseudos \cup {None},
        jeton   : Jetons \cup {None},
        emisLe  : Nat \cup {None},
        verifie : BOOLEAN]

SansLien == [pseudo |-> None, jeton |-> None, emisLe |-> None, verifie |-> FALSE]

Message == [auteur : Pseudos, jeton : Jetons, cite : BOOLEAN]

Etapes == {"reprise", "reposer", "lu", "profil", "messages", "ecrire"}

Libre == [etape |-> "libre", user |-> None, pseudo |-> None, jeton |-> None,
          emisLe |-> None, debut |-> None]

\* A handler in flight: where it is and what it has read.
EnVol == [etape  : Etapes,
          user   : Users,
          pseudo : Pseudos,
          jeton  : Jetons,
          emisLe : Nat \cup {None},   \* the token's date, as read
          debut  : Nat \cup {None}]   \* when the forum search was allowed

Requete == {Libre} \cup EnVol

TypeOK ==
  /\ compte \in [Users -> Row]
  /\ dernierEssai \in [Users -> Nat \cup {None}]
  /\ requete \in [Requests -> Requete]
  /\ profil \in [Pseudos -> Jetons \cup {None}]
  /\ messages \in SUBSET Message
  /\ maintenant \in Nat
  /\ emis \in SUBSET (Users \X Pseudos \X Jetons)
  /\ publie \in SUBSET (Pseudos \X Jetons)
  /\ devance \in SUBSET Users

Init ==
  /\ compte = [u \in Users |-> SansLien]
  /\ dernierEssai = [u \in Users |-> None]
  /\ requete = [r \in Requests |-> Libre]
  /\ profil = [p \in Pseudos |-> None]
  /\ messages = {}
  /\ maintenant = 0
  /\ emis = {}
  /\ publie = {}
  /\ devance = {}

-----------------------------------------------------------------------------
(* demanderJeton                                                           *)

\* The unique index on incongruesUsername lets this update through.
PseudoLibre(u, p) == \A v \in Users \ {u} : compte[v].pseudo # p

\* A token nobody has been given and no handler is about to give.
JetonNeuf(j) ==
  /\ \A e \in emis : e[3] # j
  /\ \A r \in Requests : requete[r].jeton # j

\* The row `poser` writes: a new claim voids the previous proof.
Revendication(u, p, j) ==
  [pseudo |-> p, jeton |-> j, emisLe |-> maintenant, verifie |-> FALSE]

Poser(u, p, j) ==
  /\ compte' = [compte EXCEPT ![u] = Revendication(u, p, j)]
  /\ emis' = emis \cup {<<u, p, j>>}

\* First update; on a unique violation the handler goes on to `Reprise`.
DemanderJeton(u, p, j) ==
  /\ JetonNeuf(j)
  /\ \/ /\ PseudoLibre(u, p)
        /\ Poser(u, p, j)
        /\ UNCHANGED requete
     \/ /\ ~PseudoLibre(u, p)
        /\ \E r \in Requests :
             /\ requete[r] = Libre
             /\ requete' = [requete EXCEPT ![r] =
                  [Libre EXCEPT !.etape = "reprise", !.user = u,
                                !.pseudo = p, !.jeton = j]]
        /\ UNCHANGED <<compte, emis>>
  /\ UNCHANGED <<dernierEssai, forum, maintenant, devance>>

\* Mutant: a proven claim lapses like any other.
PerimeeMemeProuvee(v, p) ==
  /\ compte[v].pseudo = p
  /\ compte[v].emisLe # None
  /\ compte[v].emisLe < maintenant - TTL

\* A claim that was never proven and whose token has died.
Perimee(v, p) ==
  /\ compte[v].pseudo = p
  /\ ~compte[v].verifie
  /\ compte[v].emisLe # None
  /\ compte[v].emisLe < maintenant - TTL

\* The conditional updateMany: count = 0 is the 409, otherwise try again.
Reprise(r) ==
  LET q == requete[r]
      perimees == {v \in Users : Perimee(v, q.pseudo)}
  IN /\ q.etape = "reprise"
     /\ compte' = [v \in Users |->
                     IF v \in perimees
                     THEN [compte[v] EXCEPT !.pseudo = None, !.jeton = None,
                                            !.emisLe = None]
                     ELSE compte[v]]
     /\ requete' = [requete EXCEPT ![r] =
                      IF perimees = {} THEN Libre
                      ELSE [q EXCEPT !.etape = "reposer"]]
     /\ UNCHANGED <<dernierEssai, forum, maintenant, emis, devance>>

\* The second update; a unique violation here is not caught again.
Reposer(r) ==
  LET q == requete[r]
  IN /\ q.etape = "reposer"
     /\ \/ PseudoLibre(q.user, q.pseudo) /\ Poser(q.user, q.pseudo, q.jeton)
        \/ ~PseudoLibre(q.user, q.pseudo) /\ UNCHANGED <<compte, emis>>
     /\ requete' = [requete EXCEPT ![r] = Libre]
     /\ UNCHANGED <<dernierEssai, forum, maintenant, devance>>

-----------------------------------------------------------------------------
(* verifier                                                                *)

\* The row is read; with no pending claim the handler ends without a trace.
Verifier(u) ==
  /\ compte[u].pseudo # None /\ compte[u].jeton # None
  /\ \E r \in Requests :
       /\ requete[r] = Libre
       /\ requete' = [requete EXCEPT ![r] =
            [Libre EXCEPT !.etape = "lu", !.user = u,
                          !.pseudo = compte[u].pseudo,
                          !.jeton = compte[u].jeton,
                          !.emisLe = compte[u].emisLe]]
  /\ UNCHANGED <<compte, dernierEssai, forum, maintenant, emis, devance>>

\* A token without a date is taken for one of 1970.
Expire(q) == q.emisLe = None \/ maintenant - q.emisLe > TTL

TropTot(u) ==
  dernierEssai[u] # None /\ maintenant - dernierEssai[u] < Debounce

\* Mutant: the debounce is tested, and armed only by a refused attempt.
AutoriserSansArmer(r) ==
  LET q == requete[r]
      refus == Expire(q) \/ TropTot(q.user)
  IN /\ q.etape = "lu"
     /\ requete' = [requete EXCEPT ![r] =
          IF refus THEN Libre
          ELSE [q EXCEPT !.etape = "profil", !.emisLe = None,
                         !.debut = maintenant]]
     /\ dernierEssai' = IF ~refus THEN dernierEssai
                        ELSE [dernierEssai EXCEPT ![q.user] = maintenant]
     /\ UNCHANGED <<compte, forum, maintenant, emis, devance>>

\* Expiry, then the debounce: tested and armed in one synchronous piece.
Autoriser(r) ==
  LET q == requete[r]
      refus == Expire(q) \/ TropTot(q.user)
  IN /\ q.etape = "lu"
     /\ requete' = [requete EXCEPT ![r] =
          IF refus THEN Libre
          ELSE [q EXCEPT !.etape = "profil", !.emisLe = None,
                         !.debut = maintenant]]
     /\ dernierEssai' = IF refus THEN dernierEssai
                        ELSE [dernierEssai EXCEPT ![q.user] = maintenant]
     /\ UNCHANGED <<compte, forum, maintenant, emis, devance>>

\* dansLeProfil: any failure of the two reads counts as "no proof here".
LireProfil(r) ==
  LET q == requete[r]
  IN /\ q.etape = "profil"
     /\ \E panne \in BOOLEAN :
          requete' = [requete EXCEPT ![r].etape =
             IF ~panne /\ profil[q.pseudo] = q.jeton THEN "ecrire"
                                                     ELSE "messages"]
     /\ UNCHANGED <<compte, dernierEssai, forum, maintenant, emis, devance>>

\* The author is checked here and quoted text is dropped first.
Preuve(m, q) == m.auteur = q.pseudo /\ ~m.cite /\ m.jeton = q.jeton

\* dansLesMessages: the forum answers with some of its posts (a page of 20,
\* a filter that may let other authors through); none when the read throws.
LireMessages(r) ==
  LET q == requete[r]
  IN /\ q.etape = "messages"
     /\ \E reponse \in SUBSET messages :
          requete' = [requete EXCEPT ![r] =
            IF \E m \in reponse : Preuve(m, q)
            THEN [q EXCEPT !.etape = "ecrire"] ELSE Libre]
     /\ UNCHANGED <<compte, dernierEssai, forum, maintenant, emis, devance>>

\* The final update names the row by its id alone: whatever the row has
\* become since `Verifier` read it is marked as verified.
EcrireVerification(r) ==
  LET q == requete[r]
  IN /\ q.etape = "ecrire"
     /\ compte' = [compte EXCEPT ![q.user].verifie = TRUE,
                                 ![q.user].jeton = None]
     /\ devance' = IF compte[q.user].pseudo = q.pseudo
                   THEN devance \ {q.user} ELSE devance \cup {q.user}
     /\ requete' = [requete EXCEPT ![r] = Libre]
     /\ UNCHANGED <<dernierEssai, forum, maintenant, emis>>

\* delier: all four columns are emptied, whatever is under way.
Delier(u) ==
  /\ compte' = [compte EXCEPT ![u] = SansLien]
  /\ UNCHANGED <<dernierEssai, requete, forum, maintenant, emis, devance>>

-----------------------------------------------------------------------------
(* The forum, the clock and the process                                    *)

\* The holder of p posts a token seen on Tambouille, or quotes a post.
Publier(p, j, cite) ==
  /\ \E e \in emis : e[3] = j
  /\ cite => \E m \in messages : m.jeton = j
  /\ messages' = messages \cup {[auteur |-> p, jeton |-> j, cite |-> cite]}
  /\ Cardinality(messages') <= MaxMessages
  /\ publie' = IF cite THEN publie ELSE publie \cup {<<p, j>>}
  /\ UNCHANGED <<compte, dernierEssai, requete, profil, maintenant, emis, devance>>

Supprimer(m) ==
  /\ messages' = messages \ {m}
  /\ UNCHANGED <<compte, dernierEssai, requete, profil, publie, maintenant,
                 emis, devance>>

RemplirProfil(p, j) ==
  /\ \E e \in emis : e[3] = j
  /\ profil' = [profil EXCEPT ![p] = j]
  /\ publie' = publie \cup {<<p, j>>}
  /\ UNCHANGED <<compte, dernierEssai, requete, messages, maintenant, emis, devance>>

Tic ==
  /\ maintenant < Horizon
  /\ maintenant' = maintenant + 1
  /\ UNCHANGED <<compte, dernierEssai, requete, forum, emis, devance>>

\* The process restarts: handlers and the debounce map are lost.
Redemarrer ==
  /\ requete' = [r \in Requests |-> Libre]
  /\ dernierEssai' = [u \in Users |-> None]
  /\ UNCHANGED <<compte, forum, maintenant, emis, devance>>

-----------------------------------------------------------------------------
\* What members do, the steps of their handlers, and the forum.
Membre(u) ==
  \/ \E p \in Pseudos, j \in Jetons : DemanderJeton(u, p, j)
  \/ Verifier(u)
  \/ Delier(u)

Suite(r) ==
  \/ Reprise(r) \/ Reposer(r) \/ Autoriser(r)
  \/ LireProfil(r) \/ LireMessages(r) \/ EcrireVerification(r)

Forum ==
  \/ \E p \in Pseudos, j \in Jetons :
       \/ RemplirProfil(p, j)
       \/ \E cite \in BOOLEAN : Publier(p, j, cite)
  \/ \E m \in messages : Supprimer(m)

Next ==
  \/ \E u \in Users : Membre(u)
  \/ \E r \in Requests : Suite(r)
  \/ Forum
  \/ Tic
  \/ Redemarrer

Spec == Init /\ [][Next]_vars

-----------------------------------------------------------------------------
(* Properties                                                              *)

\* u has proven to hold p: a token u was given for p has been published by
\* the holder of p.
Prouve(u, p) == \E j \in Jetons : <<u, p, j>> \in emis /\ <<p, j>> \in publie

\* Every verified account holds the pseudo it has proven, unless its last
\* verification was written over a row that had changed pseudo in between.
ProofStands ==
  \A u \in Users : compte[u].verifie /\ u \notin devance =>
     compte[u].pseudo # None /\ Prouve(u, compte[u].pseudo)

\* What the schema says of incongruesVerifiedAt, with no exception: a typed
\* pseudo proves nothing, only a token found on the forum does.
VerifiedIsProven ==
  \A u \in Users : compte[u].verifie /\ compte[u].pseudo # None =>
     Prouve(u, compte[u].pseudo)

\* A row is never both verified and waiting for a verification, however the
\* handlers of its owner overlap.
NoPendingProof ==
  \A u \in Users : ~(compte[u].verifie /\ compte[u].jeton # None)

\* A claim that is still to be proven has a date, so that Reprise can one day
\* free it: no pseudo is locked for ever by somebody who never proves it.
UnprovenClaimLapses ==
  \A u \in Users : compte[u].pseudo # None /\ ~compte[u].verifie =>
     compte[u].emisLe # None

\* Two forum searches under way for one account were allowed at least the
\* debounce apart, whatever the handlers of this account interleave.
SearchesSpaced ==
  \A r, s \in Requests :
     /\ r # s
     /\ requete[r].debut # None /\ requete[s].debut # None
     /\ requete[r].user = requete[s].user
     => \/ requete[r].debut - requete[s].debut >= Debounce
        \/ requete[s].debut - requete[r].debut >= Debounce

\* The strengthening that makes the properties above inductive: every token
\* in a row or in the hands of verifier was given to that account for that
\* pseudo, and what the forum shows has been published there.
RowsIssued ==
  \A u \in Users : compte[u].jeton # None =>
     compte[u].pseudo # None /\ <<u, compte[u].pseudo, compte[u].jeton>> \in emis

ReadsIssued ==
  \A r \in Requests : requete[r].etape \in {"lu", "profil", "messages", "ecrire"} =>
     <<requete[r].user, requete[r].pseudo, requete[r].jeton>> \in emis

FoundPublished ==
  \A r \in Requests : requete[r].etape = "ecrire" =>
     <<requete[r].pseudo, requete[r].jeton>> \in publie

ForumPublished ==
  /\ \A p \in Pseudos : profil[p] # None => <<p, profil[p]>> \in publie
  /\ \A m \in messages : ~m.cite => <<m.auteur, m.jeton>> \in publie

LinkInv ==
  /\ ProofStands /\ NoPendingProof /\ UnprovenClaimLapses
  /\ RowsIssued /\ ReadsIssued /\ FoundPublished /\ ForumPublished

\* And for SearchesSpaced: the debounce map remembers the latest search.
SearchInv ==
  /\ SearchesSpaced
  /\ \A r \in Requests : requete[r].debut # None =>
        /\ requete[r].etape \in Etapes
        /\ dernierEssai[requete[r].user] # None
        /\ requete[r].debut <= dernierEssai[requete[r].user]

=============================================================================
