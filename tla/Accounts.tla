-------------------------------- MODULE Accounts --------------------------------
(***************************************************************************)
(* Accounts and the ways into them (auth.service.ts): registration with a  *)
(* password, sign-in through Google or the club's Keycloak realm, linking  *)
(* of such an identity to an account, the choice of a username and of a    *)
(* password.  Password reset (PasswordReset.tla) and account deletion are  *)
(* one committed step each here.                                           *)
(*                                                                         *)
(* The lookups that precede a write are awaits of their own: each one is   *)
(* an action, and what it has established may be stale when the write      *)
(* comes.  Addresses and usernames are stored as they are spelled, and     *)
(* compared by the lookups without their case: a spelling is a pair.       *)
(***************************************************************************)
EXTENDS FiniteSets

CONSTANTS
  Personnes,  \* people; each one has a mailbox, which stands for it
  Casses,     \* ways to spell the same address or the same name
  Noms,       \* usernames, without their case
  Numeros,    \* a person may hold several identities, and passwords
  Emetteurs,  \* the identity providers
  Comptes,    \* primary keys of the users table, never reused
  Requetes,   \* handlers in flight at the same time
  None        \* SQL NULL, or "nobody"

ASSUME EmetteursAssumption == Emetteurs \subseteq {"google", "keycloak"}

ASSUME NoneAssumption ==
  None \notin Personnes \cup Comptes \cup Emetteurs \cup (Noms \X Casses)
               \cup (Personnes \X (Casses \cup Numeros))

VARIABLES
  compte,    \* the users table
  requete,   \* the handlers in flight
  sessions,  \* <<p, u>>: p holds a token for u; tokens are not revoked
  createur,  \* history: who created the account of this key
  repris,    \* history: <<p, u>>, p has reset the password of u by mail
  connus,    \* history: the accounts that existed when the address of this
             \* one was looked up, before it was created
  nommes,    \* history: those that had a name when its name was looked up
  ouverts    \* history: <<e, s, u>>, identity s of e has opened u, or was
             \* attached to it

histoire == <<createur, repris, connus, nommes, ouverts>>
vars == <<compte, requete, sessions, histoire>>

-----------------------------------------------------------------------------
Adresses == Personnes \X Casses     \* mailbox and spelling
Pseudonymes == Noms \X Casses       \* name and spelling
Sujets == Personnes \X Numeros      \* `sub` claims: holder and number
Secrets == Personnes \X Numeros     \* passwords: who knows it, and which

Row == [adresse : Adresses,
        nom     : Pseudonymes \cup {None},
        secret  : Secrets \cup {None},
        sujet   : [Emetteurs -> Sujets \cup {None}]]

Absent == [adresse |-> None, nom |-> None, secret |-> None,
           sujet |-> [e \in Emetteurs |-> None]]

Etapes == {"nom", "inscrire", "adresse", "creer", "lier", "choisir", "nommer",
           "secret"}

Libre == [etape |-> "libre", qui |-> None, compte |-> None, adresse |-> None,
          nom |-> None, secret |-> None, emetteur |-> None, sujet |-> None,
          verifie |-> FALSE, vus |-> {}, vusNommes |-> {}]

EnVol == [etape     : Etapes,
          qui       : Personnes,
          compte    : Comptes \cup {None},
          adresse   : Adresses \cup {None},
          nom       : Pseudonymes \cup {None},
          secret    : Secrets \cup {None},
          emetteur  : Emetteurs \cup {None},
          sujet     : Sujets \cup {None},
          verifie   : BOOLEAN,          \* email_verified of the token
          vus       : SUBSET Comptes,   \* history: rows of the address lookup
          vusNommes : SUBSET Comptes]   \* history: rows of the name lookup

TypeOK ==
  /\ compte \in [Comptes -> {Absent} \cup Row]
  /\ requete \in [Requetes -> {Libre} \cup EnVol]
  /\ sessions \in SUBSET (Personnes \X Comptes)
  /\ createur \in [Comptes -> Personnes \cup {None}]
  /\ repris \in SUBSET (Personnes \X Comptes)
  /\ connus \in [Comptes -> SUBSET Comptes]
  /\ nommes \in [Comptes -> SUBSET Comptes]
  /\ ouverts \in SUBSET (Emetteurs \X Sujets \X Comptes)

Init ==
  /\ compte = [u \in Comptes |-> Absent]
  /\ requete = [r \in Requetes |-> Libre]
  /\ sessions = {}
  /\ createur = [u \in Comptes |-> None]
  /\ repris = {}
  /\ connus = [u \in Comptes |-> {}]
  /\ nommes = [u \in Comptes |-> {}]
  /\ ouverts = {}

-----------------------------------------------------------------------------
(* The users table                                                         *)

Vivants == {u \in Comptes : compte[u] # Absent}

Nommes == {u \in Vivants : compte[u].nom # None}

\* Mutant: the address is looked up as it is spelled.
AdressePriseExacte(a) == \E u \in Vivants : compte[u].adresse = a

\* Lookup by address, insensitive to its case.
AdressePrise(a) == \E u \in Vivants : compte[u].adresse[1] = a[1]

\* Lookup by username, insensitive to its case.
NomPris(n) == \E u \in Nommes : compte[u].nom[1] = n[1]

\* The unique index of the column refuses the subject of another row.
SujetPris(u, e, s) == \E v \in Vivants \ {u} : compte[v].sujet[e] = s

\* The unique indexes compare addresses and names as they are spelled.
Insertable(u, ligne) ==
  /\ \A v \in Vivants : compte[v].adresse # ligne.adresse
  /\ ligne.nom # None => \A v \in Vivants : compte[v].nom # ligne.nom
  /\ \A e \in Emetteurs : ligne.sujet[e] # None => ~SujetPris(u, e, ligne.sujet[e])

\* An insertion gives the row a fresh key, or fails on an index; the handler
\* ends, with a session if it has succeeded.
Creer(r, ligne) ==
  LET q == requete[r]
  IN /\ \/ /\ \A u \in Comptes : createur[u] = None => ~Insertable(u, ligne)
           /\ UNCHANGED <<compte, sessions, createur, connus, nommes, ouverts>>
        \/ \E u \in Comptes :
             /\ createur[u] = None
             /\ Insertable(u, ligne)
             /\ compte' = [compte EXCEPT ![u] = ligne]
             /\ sessions' = sessions \cup {<<q.qui, u>>}
             /\ createur' = [createur EXCEPT ![u] = q.qui]
             /\ connus' = [connus EXCEPT ![u] = q.vus]
             /\ nommes' = [nommes EXCEPT ![u] = q.vusNommes]
             /\ ouverts' = ouverts \cup
                  {<<e, ligne.sujet[e], u>> : e \in {f \in Emetteurs : ligne.sujet[f] # None}}
     /\ requete' = [requete EXCEPT ![r] = Libre]
     /\ UNCHANGED repris

\* A handler goes on with what it has read.
Continuer(r, q) ==
  /\ requete' = [requete EXCEPT ![r] = q]
  /\ UNCHANGED <<compte, sessions, histoire>>

-----------------------------------------------------------------------------
(* register and login                                                      *)

Register(r, p, a, n, i) ==
  /\ requete[r] = Libre
  /\ ~AdressePrise(a)
  /\ Continuer(r, [Libre EXCEPT !.etape = "nom", !.qui = p, !.adresse = a,
                      !.nom = n, !.secret = <<p, i>>, !.vus = Vivants])

ControlerNom(r) ==
  /\ requete[r].etape = "nom"
  /\ Continuer(r, IF NomPris(requete[r].nom) THEN Libre
                  ELSE [requete[r] EXCEPT !.etape = "inscrire",
                                          !.vusNommes = Nommes])

\* The password is hashed, then the row is inserted.
Inscrire(r) ==
  /\ requete[r].etape = "inscrire"
  /\ Creer(r, [Absent EXCEPT !.adresse = requete[r].adresse,
                             !.nom = requete[r].nom,
                             !.secret = requete[r].secret])

\* The password is compared with the one that was read: nothing that happens
\* meanwhile changes who gets the session.
Login(p, u) ==
  /\ u \in Vivants
  /\ \E i \in Numeros : compte[u].secret = <<p, i>>
  /\ sessions' = sessions \cup {<<p, u>>}
  /\ UNCHANGED <<compte, requete, histoire>>

-----------------------------------------------------------------------------
(* loginWithGoogle and loginWithKeycloak                                   *)

\* The provider vouches for an address only if it is the holder's own.
Identite(s, a, verifie) == verifie => a[1] = s[1]

\* The subject is looked up first: the account that carries it is opened.
LoginWith(r, e, s, a, verifie) ==
  /\ Identite(s, a, verifie)
  /\ \/ \E u \in Vivants :
          /\ compte[u].sujet[e] = s
          /\ sessions' = sessions \cup {<<s[1], u>>}
          /\ ouverts' = ouverts \cup {<<e, s, u>>}
          /\ UNCHANGED <<compte, requete, createur, repris, connus, nommes>>
     \/ /\ \A u \in Vivants : compte[u].sujet[e] # s
        /\ requete[r] = Libre
        /\ Continuer(r, [Libre EXCEPT !.etape = "adresse", !.qui = s[1],
             !.adresse = a, !.emetteur = e, !.sujet = s, !.verifie = verifie])

\* Mutant: an address both sides know opens the account that bears it.
RapprocherParAdresse(r) ==
  /\ requete[r].etape = "adresse"
  /\ \/ \E u \in Vivants :
          /\ compte[u].adresse[1] = requete[r].adresse[1]
          /\ requete[r].verifie
          /\ sessions' = sessions \cup {<<requete[r].qui, u>>}
          /\ requete' = [requete EXCEPT ![r] = Libre]
          /\ UNCHANGED <<compte, histoire>>
     \/ /\ ~AdressePrise(requete[r].adresse)
        /\ Continuer(r, IF ~requete[r].verifie THEN Libre
                        ELSE [requete[r] EXCEPT !.etape = "creer", !.vus = Vivants])

\* Then the address, and no account is ever opened by it: a known one is
\* refused, and so is one the provider does not vouch for.
ControlerAdresse(r) ==
  /\ requete[r].etape = "adresse"
  /\ Continuer(r, IF AdressePrise(requete[r].adresse) \/ ~requete[r].verifie
                  THEN Libre
                  ELSE [requete[r] EXCEPT !.etape = "creer", !.vus = Vivants])

CreerLie(r) ==
  /\ requete[r].etape = "creer"
  /\ Creer(r, [Absent EXCEPT !.adresse = requete[r].adresse,
                             !.sujet[requete[r].emetteur] = requete[r].sujet])

-----------------------------------------------------------------------------
(* linkGoogle and linkKeycloak                                             *)

\* Only Google has to vouch for the address.  The lookup refuses a subject
\* somebody else carries.
Link(r, p, u, e, s, verifie) ==
  /\ requete[r] = Libre
  /\ <<p, u>> \in sessions /\ s[1] = p
  /\ e = "google" => verifie
  /\ ~\E v \in Vivants \ {u} : compte[v].sujet[e] = s
  /\ Continuer(r, [Libre EXCEPT !.etape = "lier", !.qui = p, !.compte = u,
                                !.emetteur = e, !.sujet = s])

\* Mutant: the update is not conditional on an empty column.
EcrireLienSansCondition(r) ==
  LET q == requete[r]
  IN /\ q.etape = "lier"
     /\ IF q.compte \in Vivants /\ ~SujetPris(q.compte, q.emetteur, q.sujet)
        THEN /\ compte' = [compte EXCEPT ![q.compte].sujet[q.emetteur] = q.sujet]
             /\ ouverts' = ouverts \cup {<<q.emetteur, q.sujet, q.compte>>}
        ELSE UNCHANGED <<compte, ouverts>>
     /\ requete' = [requete EXCEPT ![r] = Libre]
     /\ UNCHANGED <<sessions, createur, repris, connus, nommes>>

\* The update lands if the column is still empty and the index agrees.
EcrireLien(r) ==
  LET q == requete[r]
  IN /\ q.etape = "lier"
     /\ IF /\ q.compte \in Vivants /\ compte[q.compte].sujet[q.emetteur] = None
           /\ ~SujetPris(q.compte, q.emetteur, q.sujet)
        THEN /\ compte' = [compte EXCEPT ![q.compte].sujet[q.emetteur] = q.sujet]
             /\ ouverts' = ouverts \cup {<<q.emetteur, q.sujet, q.compte>>}
        ELSE UNCHANGED <<compte, ouverts>>
     /\ requete' = [requete EXCEPT ![r] = Libre]
     /\ UNCHANGED <<sessions, createur, repris, connus, nommes>>

-----------------------------------------------------------------------------
(* setUsername and setPassword                                             *)

SetUsername(r, p, u, n) ==
  /\ requete[r] = Libre
  /\ <<p, u>> \in sessions
  /\ u \in Vivants /\ compte[u].nom = None
  /\ Continuer(r, [Libre EXCEPT !.etape = "choisir", !.qui = p, !.compte = u,
                                !.nom = n])

ControlerChoix(r) ==
  /\ requete[r].etape = "choisir"
  /\ Continuer(r, IF NomPris(requete[r].nom) THEN Libre
                  ELSE [requete[r] EXCEPT !.etape = "nommer",
                                          !.vusNommes = Nommes])

EcrireNom(r) ==
  LET q == requete[r]
  IN /\ q.etape = "nommer"
     /\ IF /\ q.compte \in Vivants /\ compte[q.compte].nom = None
           /\ \A v \in Vivants : compte[v].nom # q.nom
        THEN /\ compte' = [compte EXCEPT ![q.compte].nom = q.nom]
             /\ nommes' = [nommes EXCEPT ![q.compte] = q.vusNommes]
        ELSE UNCHANGED <<compte, nommes>>
     /\ requete' = [requete EXCEPT ![r] = Libre]
     /\ UNCHANGED <<sessions, createur, repris, connus, ouverts>>

SetPassword(r, p, u, i) ==
  /\ requete[r] = Libre
  /\ <<p, u>> \in sessions
  /\ u \in Vivants /\ compte[u].secret = None
  /\ Continuer(r, [Libre EXCEPT !.etape = "secret", !.qui = p, !.compte = u,
                                !.secret = <<p, i>>])

\* Mutant: the check made before the hash is trusted.
EcrireSecretSansCondition(r) ==
  LET q == requete[r]
  IN /\ q.etape = "secret"
     /\ compte' = IF q.compte \in Vivants
                  THEN [compte EXCEPT ![q.compte].secret = q.secret] ELSE compte
     /\ requete' = [requete EXCEPT ![r] = Libre]
     /\ UNCHANGED <<sessions, histoire>>

EcrireSecret(r) ==
  LET q == requete[r]
  IN /\ q.etape = "secret"
     /\ compte' = IF q.compte \in Vivants /\ compte[q.compte].secret = None
                  THEN [compte EXCEPT ![q.compte].secret = q.secret] ELSE compte
     /\ requete' = [requete EXCEPT ![r] = Libre]
     /\ UNCHANGED <<sessions, histoire>>

-----------------------------------------------------------------------------
(* Password reset, deletion, restart                                       *)

\* The owner of the mailbox of an account gives it a new password.
Reset(u, i) ==
  LET p == compte[u].adresse[1]
  IN /\ u \in Vivants
     /\ compte' = [compte EXCEPT ![u].secret = <<p, i>>]
     /\ repris' = repris \cup {<<p, u>>}
     /\ UNCHANGED <<requete, sessions, createur, connus, nommes, ouverts>>

DeleteAccount(p, u) ==
  /\ <<p, u>> \in sessions /\ u \in Vivants
  /\ compte' = [compte EXCEPT ![u] = Absent]
  /\ UNCHANGED <<requete, sessions, histoire>>

Redemarrer ==
  /\ requete' = [r \in Requetes |-> Libre]
  /\ UNCHANGED <<compte, sessions, histoire>>

-----------------------------------------------------------------------------
Arrivee(r) ==
  \/ \E p \in Personnes, a \in Adresses, n \in Pseudonymes, i \in Numeros :
       Register(r, p, a, n, i)
  \/ \E e \in Emetteurs, s \in Sujets, verifie \in BOOLEAN :
       \/ \E a \in Adresses : LoginWith(r, e, s, a, verifie)
       \/ \E p \in Personnes, u \in Comptes : Link(r, p, u, e, s, verifie)
  \/ \E p \in Personnes, u \in Comptes :
       \/ \E n \in Pseudonymes : SetUsername(r, p, u, n)
       \/ \E i \in Numeros : SetPassword(r, p, u, i)

Suite(r) ==
  \/ ControlerNom(r) \/ Inscrire(r) \/ ControlerAdresse(r) \/ CreerLie(r)
  \/ EcrireLien(r) \/ ControlerChoix(r) \/ EcrireNom(r) \/ EcrireSecret(r)

Next ==
  \/ \E r \in Requetes : Arrivee(r) \/ Suite(r)
  \/ \E u \in Comptes :
       \/ \E i \in Numeros : Reset(u, i)
       \/ \E p \in Personnes : Login(p, u) \/ DeleteAccount(p, u)
  \/ Redemarrer

Spec == Init /\ [][Next]_vars

-----------------------------------------------------------------------------
(* Properties                                                              *)

\* Nobody gets a session on an account another person has created, unless
\* that account bears the newcomer's mailbox and was reset through it: no
\* chain of sign-ins, links and choices makes two people share an account.
SessionsOwned ==
  \A x \in sessions : createur[x[2]] = x[1] \/ x \in repris

\* What the lookups cannot prevent and the indexes do not see, two spellings
\* of one mailbox or of one name, only comes from two handlers that were past
\* their lookups at the same time.
TwinsOverlapped ==
  \A u, v \in Vivants : u # v =>
     /\ compte[u].adresse[1] = compte[v].adresse[1] =>
          compte[u].adresse # compte[v].adresse /\ u \notin connus[v]
     /\ u \in Nommes /\ v \in Nommes /\ compte[u].nom[1] = compte[v].nom[1] =>
          compte[u].nom # compte[v].nom /\ u \notin nommes[v]

\* As long as they live, an identity opens one account and an account keeps
\* the identity that has opened it.
SubjectSticks ==
  \A x, y \in ouverts :
     /\ x[1] = y[1] /\ x[3] \in Vivants /\ y[3] \in Vivants
     => (x[2] = y[2] <=> x[3] = y[3])

\* What is chosen once stays: a name or an identity is never replaced, and a
\* password only through the mailbox, however many requests choose it at once.
ChosenOnce ==
  [][\A u \in Vivants : compte'[u] # Absent =>
       /\ compte'[u].adresse = compte[u].adresse
       /\ compte[u].nom # None => compte'[u].nom = compte[u].nom
       /\ \A e \in Emetteurs : compte[u].sujet[e] # None =>
            compte'[u].sujet[e] = compte[u].sujet[e]
       /\ compte[u].secret # None /\ compte'[u].secret # compte[u].secret =>
            \E i \in Numeros : Reset(u, i)]_vars

=============================================================================
