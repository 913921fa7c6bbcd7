---------------------------- MODULE IncongruesSync ----------------------------
(***************************************************************************)
(* Synchronisation of the mixes a member publishes on the forum            *)
(* (incongrues.sync.service.ts, flarum.client.ts, the source check and the *)
(* creation of mixes.service.ts).                                          *)
(*                                                                         *)
(* Two kinds of pass run in the process: the one the webhook rings         *)
(* (`syncDepuisSonnerie`) and the hourly net that hangs on the most        *)
(* visited page (`syncAllRattrapageHoraire`).  A pass goes through the     *)
(* verified accounts one at a time; the work on an account is shared by    *)
(* the passes that reach it while it runs (`enCours`).  Every forum read   *)
(* and every database statement is an await, one action here.              *)
(***************************************************************************)
EXTENDS Integers, FiniteSets

CONSTANTS
  Users,        \* Tambouille accounts
  Pseudos,      \* forum accounts
  Discussions,  \* forum discussions, hence their pageUrl
  Refs,         \* what a player designates, hence sourceRef
  Mixes,        \* primary keys of the mixes table: bounds its size
  Passes,       \* passes in flight at the same time
  None          \* SQL NULL, "nothing" or "nobody"

ASSUME NoneAssumption ==
  None \notin Users \cup Pseudos \cup Discussions \cup Refs \cup Passes

VARIABLES
  lien,         \* the incongrues* columns of each user row
  verifEnVol,   \* accounts for which a forum verification is under way
  forum,        \* author and player of each discussion
  mixes,        \* the mixes table
  enCours,      \* the in-memory map: which pass works on an account
  passe,        \* the passes in flight
  prets,        \* the debounces that have run out
  tenus,        \* history: <<u, p>>, a verified row of u has carried p
  abandons,     \* history: an account made a pass stop before the others
  jumeaux       \* history: a sync has created a mix whose source was known

liens == <<lien, verifEnVol, tenus>>
journal == <<abandons, jumeaux>>
vars == <<liens, forum, mixes, enCours, passe, prets, journal>>

-----------------------------------------------------------------------------
Lien == [pseudo : Pseudos \cup {None}, verifie : BOOLEAN]

\* auteur None: the discussion does not exist.  lecteur None: no player in it.
Discussion == [auteur : Pseudos \cup {None}, lecteur : Refs \cup {None}]

Mix == [user : Users, ref : Refs \cup {None}, page : Discussions \cup {None},
        sync : BOOLEAN]

Absent == [user |-> None, ref |-> None, page |-> None, sync |-> FALSE]

Sortes == {"sonnerie", "rattrapage"}

\* Where a pass is; from "liste" on it carries the work on an account.
Travail == {"liste", "travail", "relire", "importer", "second", "creer"}
Etapes == {"recentes", "comptes", "boucle", "attend"} \cup Travail

Libre == [sorte |-> None, etape |-> "libre", auteurs |-> {}, comptes |-> {},
          user |-> None, pseudo |-> None, reste |-> {}, disc |-> None,
          qui |-> None]

EnVol == [sorte   : Sortes,
          etape   : Etapes,
          auteurs : SUBSET Pseudos,       \* authors of the recent discussions
          comptes : SUBSET (Users \X (Pseudos \cup {None})),  \* still to do
          user    : Users \cup {None},    \* the account it works on
          pseudo  : Pseudos \cup {None},  \* the pseudo it read for it
          reste   : SUBSET Discussions,   \* discussions still to look at
          disc    : Discussions \cup {None},
          qui     : Passes \cup {None}]   \* the pass whose work it awaits

TypeOK ==
  /\ lien \in [Users -> Lien]
  /\ verifEnVol \in SUBSET Users
  /\ forum \in [Discussions -> Discussion]
  /\ mixes \in [Mixes -> {Absent} \cup Mix]
  /\ enCours \in [Users -> Passes \cup {None}]
  /\ passe \in [Passes -> {Libre} \cup EnVol]
  /\ prets \in SUBSET Sortes
  /\ tenus \in SUBSET (Users \X Pseudos)
  /\ abandons \in BOOLEAN
  /\ jumeaux \in BOOLEAN

Init ==
  /\ lien = [u \in Users |-> [pseudo |-> None, verifie |-> FALSE]]
  /\ verifEnVol = {}
  /\ forum = [d \in Discussions |-> [auteur |-> None, lecteur |-> None]]
  /\ mixes = [m \in Mixes |-> Absent]
  /\ enCours = [u \in Users |-> None]
  /\ passe = [k \in Passes |-> Libre]
  /\ prets = Sortes
  /\ tenus = {}
  /\ abandons = FALSE
  /\ jumeaux = FALSE

-----------------------------------------------------------------------------
(* The forum, the account's link, and the members' own mixes               *)

Publiees == {d \in Discussions : forum[d].auteur # None}

Publier(d, p, r) ==
  /\ d \notin Publiees
  /\ forum' = [forum EXCEPT ![d] = [auteur |-> p, lecteur |-> r]]
  /\ UNCHANGED <<liens, mixes, enCours, passe, prets, journal>>

\* demanderJeton: a pseudo is claimed, the previous proof is void.
Revendiquer(u, p) ==
  /\ \A v \in Users \ {u} : lien[v].pseudo # p
  /\ lien' = [lien EXCEPT ![u] = [pseudo |-> p, verifie |-> FALSE]]
  /\ UNCHANGED <<verifEnVol, tenus, forum, mixes, enCours, passe, prets, journal>>

\* verifier: it reads the claim, then searches the forum ...
Chercher(u) ==
  /\ lien[u].pseudo # None /\ ~lien[u].verifie
  /\ verifEnVol' = verifEnVol \cup {u}
  /\ UNCHANGED <<lien, tenus, forum, mixes, enCours, passe, prets, journal>>

\* ... and marks the row by its id, whatever has become of the claim.
Marquer(u) ==
  /\ u \in verifEnVol
  /\ verifEnVol' = verifEnVol \ {u}
  /\ lien' = [lien EXCEPT ![u].verifie = TRUE]
  /\ tenus' = tenus \cup ({<<u, lien[u].pseudo>>} \cap (Users \X Pseudos))
  /\ UNCHANGED <<forum, mixes, enCours, passe, prets, journal>>

Delier(u) ==
  /\ lien[u].pseudo # None
  /\ lien' = [lien EXCEPT ![u] = [pseudo |-> None, verifie |-> FALSE]]
  /\ UNCHANGED <<verifEnVol, tenus, forum, mixes, enCours, passe, prets, journal>>

\* A member publishes the same player by hand, from the discussion or not.
CreerMain(u, m, r, d) ==
  /\ mixes[m] = Absent
  /\ mixes' = [mixes EXCEPT ![m] =
                 [user |-> u, ref |-> r, page |-> d, sync |-> FALSE]]
  /\ UNCHANGED <<liens, forum, enCours, passe, prets, journal>>

\* update: the owner corrects the source or its page; the mix is no longer
\* what the sync has published.
Modifier(m, r, d) ==
  /\ mixes[m] # Absent /\ mixes[m].ref # None
  /\ <<r, d>> # <<mixes[m].ref, mixes[m].page>>
  /\ mixes' = [mixes EXCEPT ![m] = [mixes[m] EXCEPT
                 !.ref = r, !.page = d, !.sync = FALSE]]
  /\ UNCHANGED <<liens, forum, enCours, passe, prets, journal>>

Supprimer(m) ==
  /\ mixes[m] # Absent
  /\ mixes' = [mixes EXCEPT ![m] = Absent]
  /\ UNCHANGED <<liens, forum, enCours, passe, prets, journal>>

-----------------------------------------------------------------------------
(* The passes                                                              *)

\* A pass is started, by the webhook or by a visit, and its debounce restarts.
Lancer(k, s) ==
  /\ passe[k] = Libre
  /\ s \in prets
  /\ prets' = prets \ {s}
  /\ passe' = [passe EXCEPT ![k] = [Libre EXCEPT
                 !.sorte = s,
                 !.etape = IF s = "sonnerie" THEN "recentes" ELSE "comptes"]]
  /\ UNCHANGED <<liens, forum, mixes, enCours, journal>>

\* The minute, or the hour, has gone by.
Attendre(s) ==
  /\ s \notin prets
  /\ prets' = prets \cup {s}
  /\ UNCHANGED <<liens, forum, mixes, enCours, passe, journal>>

\* listRecentDiscussions: no discussion, or an unreachable forum, ends the pass.
LireRecentes(k, A) ==
  /\ passe[k].etape = "recentes"
  /\ A \subseteq {forum[d].auteur : d \in Publiees}
  /\ passe' = [passe EXCEPT ![k] =
                 IF A = {} THEN Libre
                 ELSE [passe[k] EXCEPT !.etape = "comptes", !.auteurs = A]]
  /\ UNCHANGED <<liens, forum, mixes, enCours, prets, journal>>

LireComptes(k) ==
  /\ passe[k].etape = "comptes"
  /\ passe' = [passe EXCEPT ![k] = [passe[k] EXCEPT
        !.etape = "boucle",
        !.comptes = {<<u, lien[u].pseudo>> : u \in {v \in Users : lien[v].verifie}}]]
  /\ UNCHANGED <<liens, forum, mixes, enCours, prets, journal>>

\* Mutant: the promise is not in the map when a second call looks for it.
SyncUserSansVerrou(k, u, p, reste) ==
  /\ passe' = [passe EXCEPT ![k] = [passe[k] EXCEPT
        !.comptes = reste, !.user = u, !.pseudo = p, !.etape = "liste"]]
  /\ UNCHANGED enCours

\* syncUser: the work on u that is under way is joined, or one is started and
\* registered before its first await.
SyncUser(k, u, p, reste) ==
  /\ passe' = [passe EXCEPT ![k] = [passe[k] EXCEPT
        !.comptes = reste,
        !.user = u, !.pseudo = p,
        !.etape = IF enCours[u] # None THEN "attend" ELSE "liste",
        !.qui = enCours[u]]]
  /\ enCours' = [enCours EXCEPT ![u] = IF @ # None THEN @ ELSE k]

\* Mutant: the hourly net filters on the recent authors, as the ring does.
ConcerneToujoursFiltre(k, p) == p \in passe[k].auteurs

\* The ring only synchronises the authors of the recent discussions.
Concerne(k, p) == passe[k].sorte = "sonnerie" => p \in passe[k].auteurs

\* The ring compares pseudos outside any `try`: a null one throws out of the
\* loop.
Leve(k, p) == passe[k].sorte = "sonnerie" /\ p = None

\* The next account of a pass.
Suivant(k, u, p) ==
  LET reste == passe[k].comptes \ {<<u, p>>}
  IN /\ passe[k].etape = "boucle"
     /\ <<u, p>> \in passe[k].comptes
     /\ \/ /\ Leve(k, p)
           /\ passe' = [passe EXCEPT ![k] = Libre]
           /\ abandons' = (abandons \/ reste # {})
           /\ UNCHANGED enCours
        \/ /\ ~Leve(k, p) /\ ~Concerne(k, p)
           /\ passe' = [passe EXCEPT ![k].comptes = reste]
           /\ UNCHANGED <<enCours, abandons>>
        \/ /\ Concerne(k, p)
           /\ SyncUser(k, u, p, reste)
           /\ UNCHANGED abandons
     /\ UNCHANGED <<liens, forum, mixes, prets, jumeaux>>

FinPasse(k) ==
  /\ passe[k].etape = "boucle" /\ passe[k].comptes = {}
  /\ passe' = [passe EXCEPT ![k] = Libre]
  /\ UNCHANGED <<liens, forum, mixes, enCours, prets, journal>>

-----------------------------------------------------------------------------
(* faire: the work on one account                                          *)

\* The account is done with, for the pass and for those that wait for it.
Repris(q) == [q EXCEPT !.etape = "boucle", !.user = None, !.pseudo = None,
                       !.reste = {}, !.disc = None, !.qui = None]

\* The promise settles: `finally` removes it and its waiters go on.
Terminer(k) ==
  /\ enCours' = [enCours EXCEPT ![passe[k].user] = None]
  /\ passe' = [i \in Passes |->
       IF i = k \/ (passe[i].etape = "attend" /\ passe[i].qui = k)
       THEN Repris(passe[i]) ELSE passe[i]]

\* listByAuthor.  The forum may leave discussions out, and may list those of
\* others.  An unreachable forum, or a null pseudo, rejects the promise.
Lister(k, S) ==
  /\ passe[k].etape = "liste"
  /\ passe[k].pseudo # None
  /\ S \subseteq Publiees
  /\ passe' = [passe EXCEPT ![k] = [passe[k] EXCEPT
                                      !.etape = "travail", !.reste = S]]
  /\ UNCHANGED <<liens, forum, mixes, enCours, prets, journal>>

\* Mutant: the promise is only removed when it resolves.
EchecListeSansFinally(k) ==
  /\ passe[k].etape = "liste"
  /\ passe' = [passe EXCEPT ![k] = Repris(passe[k])]
  /\ UNCHANGED <<liens, forum, mixes, enCours, prets, journal>>

EchecListe(k) ==
  /\ passe[k].etape = "liste"
  /\ Terminer(k)
  /\ UNCHANGED <<liens, forum, mixes, prets, journal>>

\* findBySource: the oldest mix with that player or that page.
FindBySource(ref, page) ==
  {m \in Mixes : \/ ref # None /\ mixes[m].ref = ref
                 \/ page # None /\ mixes[m].page = page}

Passer(q) == [q EXCEPT !.etape = "travail", !.disc = None]

\* The first check, on the page alone.
PremierControle(k, d) ==
  /\ passe[k].etape = "travail"
  /\ d \in passe[k].reste
  /\ passe' = [passe EXCEPT ![k] = [passe[k] EXCEPT
        !.reste = @ \ {d},
        !.etape = IF FindBySource(None, d) # {} THEN "travail" ELSE "relire",
        !.disc = IF FindBySource(None, d) # {} THEN None ELSE d]]
  /\ UNCHANGED <<liens, forum, mixes, enCours, prets, journal>>

\* Mutant: the list that was filtered by author is trusted.
EstBienDeSansRelire(k) ==
  /\ passe[k].etape = "relire"
  /\ passe' = [passe EXCEPT ![k].etape = "importer"]
  /\ UNCHANGED <<liens, forum, mixes, enCours, prets, journal>>

\* estBienDe: the discussion is read again by its id; a failure refuses.
EstBienDe(k) ==
  /\ passe[k].etape = "relire"
  /\ forum[passe[k].disc].auteur = passe[k].pseudo
  /\ passe' = [passe EXCEPT ![k].etape = "importer"]
  /\ UNCHANGED <<liens, forum, mixes, enCours, prets, journal>>

\* importDiscussion: the player's own service answers.
Importer(k) ==
  /\ passe[k].etape = "importer"
  /\ forum[passe[k].disc].lecteur # None
  /\ passe' = [passe EXCEPT ![k].etape = "second"]
  /\ UNCHANGED <<liens, forum, mixes, enCours, prets, journal>>

\* The second check, on the player too.
SecondControle(k) ==
  LET d == passe[k].disc
  IN /\ passe[k].etape = "second"
     /\ passe' = [passe EXCEPT ![k] =
                    IF FindBySource(forum[d].lecteur, d) # {} THEN Passer(passe[k])
                    ELSE [passe[k] EXCEPT !.etape = "creer"]]
     /\ UNCHANGED <<liens, forum, mixes, enCours, prets, journal>>

\* createFromImport: the cover is fetched, then the row is inserted.
CreateFromImport(k, m) ==
  LET d == passe[k].disc
  IN /\ passe[k].etape = "creer"
     /\ mixes[m] = Absent
     /\ mixes' = [mixes EXCEPT ![m] = [user |-> passe[k].user,
                    ref |-> forum[d].lecteur, page |-> d, sync |-> TRUE]]
     /\ passe' = [passe EXCEPT ![k] = Passer(passe[k])]
     /\ jumeaux' = (jumeaux \/ FindBySource(forum[d].lecteur, d) # {})
     /\ UNCHANGED <<liens, forum, enCours, prets, abandons>>

\* Any of the awaits of a discussion throws, or says no: the next one is taken.
Ecarter(k) ==
  /\ passe[k].etape \in {"relire", "importer", "second", "creer"}
  /\ passe' = [passe EXCEPT ![k] = Passer(passe[k])]
  /\ UNCHANGED <<liens, forum, mixes, enCours, prets, journal>>

FinTravail(k) ==
  /\ passe[k].etape = "travail" /\ passe[k].reste = {}
  /\ Terminer(k)
  /\ UNCHANGED <<liens, forum, mixes, prets, journal>>

\* The process restarts: the map, the passes and the debounces are memory.
Redemarrer ==
  /\ \E k \in Passes : passe[k] # Libre
  /\ passe' = [k \in Passes |-> Libre]
  /\ enCours' = [u \in Users |-> None]
  /\ prets' = Sortes
  /\ verifEnVol' = {}
  /\ UNCHANGED <<lien, tenus, forum, mixes, journal>>

-----------------------------------------------------------------------------
\* What a pass does by itself once it is started.
Avancer(k) ==
  \/ \E A \in SUBSET Pseudos : LireRecentes(k, A)
  \/ LireComptes(k) \/ FinPasse(k)
  \/ \E u \in Users, p \in Pseudos \cup {None} : Suivant(k, u, p)
  \/ \E S \in SUBSET Discussions : Lister(k, S)
  \/ EchecListe(k)
  \/ \E d \in Discussions : PremierControle(k, d)
  \/ EstBienDe(k) \/ Importer(k) \/ SecondControle(k)
  \/ \E m \in Mixes : CreateFromImport(k, m)
  \/ Ecarter(k) \/ FinTravail(k)

Membre ==
  \/ \E d \in Discussions, p \in Pseudos, r \in Refs \cup {None} : Publier(d, p, r)
  \/ \E u \in Users, p \in Pseudos : Revendiquer(u, p)
  \/ \E u \in Users : Chercher(u) \/ Marquer(u) \/ Delier(u)
  \/ \E u \in Users, m \in Mixes, r \in Refs, d \in Discussions \cup {None} :
       CreerMain(u, m, r, d)
  \/ \E m \in Mixes, r \in Refs, d \in Discussions \cup {None} : Modifier(m, r, d)
  \/ \E m \in Mixes : Supprimer(m)

Next ==
  \/ Membre
  \/ \E k \in Passes, s \in Sortes : Lancer(k, s)
  \/ \E s \in Sortes : Attendre(s)
  \/ \E k \in Passes : Avancer(k)
  \/ Redemarrer

Spec == Init /\ [][Next]_vars

\* Every await of a pass settles: forum reads time out, statements answer.
\* Visits keep coming, and time passes.
FairSpec ==
  /\ Spec
  /\ \A k \in Passes : WF_vars(Avancer(k))
  /\ SF_vars(\E k \in Passes : Lancer(k, "rattrapage"))
  /\ WF_vars(Attendre("rattrapage"))

-----------------------------------------------------------------------------
(* Properties                                                              *)

\* What the sync publishes under an account was written by a forum member
\* that account was marked verified for: neither a list that misattributes,
\* nor a work joined or outlived by a change of pseudo, gives it another's.
OnlyOwnDiscussions ==
  \A m \in Mixes : mixes[m].sync =>
     <<mixes[m].user, forum[mixes[m].page].auteur>> \in tenus

\* Whatever passes overlap, fail or die, the sync never publishes the same
\* page or the same player twice under one account.
OneCopyPerAccount ==
  \A m, n \in Mixes :
     m # n /\ mixes[m].sync /\ mixes[n].sync /\ mixes[m].user = mixes[n].user
       => mixes[m].page # mixes[n].page /\ mixes[m].ref # mixes[n].ref

\* "findBySource reste la vraie garantie": the sync creates no mix whose
\* source the catalogue knows already.
FindBySourceGuarantees == ~jumeaux

\* "Chaque compte dans son propre try": one account never keeps a pass from
\* the accounts that follow it.
EveryAccountIsReached == ~abandons

\* What makes the first two inductive.  A pass only carries pseudos that were
\* held, and knows the author of the discussion it is about to create.
PseudosHeld ==
  /\ \A u \in Users :
       lien[u].verifie /\ lien[u].pseudo # None => <<u, lien[u].pseudo>> \in tenus
  /\ \A k \in Passes :
       /\ \A c \in passe[k].comptes : c[2] # None => c \in tenus
       /\ passe[k].etape \in Travail /\ passe[k].pseudo # None
            => <<passe[k].user, passe[k].pseudo>> \in tenus

AuthorConfirmed ==
  \A k \in Passes :
     /\ passe[k].etape \in Travail \ {"liste"} => passe[k].pseudo # None
     /\ passe[k].etape \in {"importer", "second", "creer"} =>
          forum[passe[k].disc].auteur = passe[k].pseudo

\* The work on an account has one, and from the second read on a discussion.
WorkHasObjects ==
  \A k \in Passes :
     /\ passe[k].etape \in Travail => passe[k].user \in Users
     /\ passe[k].etape \in {"relire", "importer", "second", "creer"} =>
          passe[k].disc \in Discussions

\* The work on an account is the one the map knows, and what it is about to
\* create is not there yet under that account.
WorkIsRegistered ==
  \A k \in Passes : passe[k].etape \in Travail => enCours[passe[k].user] = k

CreationIsNew ==
  \A k \in Passes :
     /\ passe[k].etape \in {"second", "creer"} =>
          forum[passe[k].disc].lecteur # None
     /\ passe[k].etape = "creer" =>
          \A m \in Mixes : mixes[m].sync /\ mixes[m].user = passe[k].user =>
             /\ mixes[m].page # passe[k].disc
             /\ mixes[m].ref # forum[passe[k].disc].lecteur

\* What the sync created came from a discussion that exists.
SyncMixesFounded ==
  \A m \in Mixes : mixes[m].sync =>
     mixes[m].page \in Discussions /\ forum[mixes[m].page].auteur # None

SyncInv ==
  /\ OnlyOwnDiscussions /\ OneCopyPerAccount
  /\ PseudosHeld /\ AuthorConfirmed /\ WorkIsRegistered /\ CreationIsNew
  /\ SyncMixesFounded

\* A pass ends, those that wait for another's work included.
EveryPassEnds ==
  \A k \in Passes : passe[k] # Libre ~> passe[k] = Libre

Connue(d) == FindBySource(forum[d].lecteur, d) # {}

\* The forum answers, and truthfully; the players' services and the database
\* answer; the process stays up.
Fiable ==
  /\ ~Redemarrer
  /\ \A k \in Passes :
       /\ passe[k].etape = "liste" /\ passe[k].pseudo # None =>
            \/ UNCHANGED passe[k]
            \/ /\ passe'[k].etape = "travail"
               /\ {e \in Publiees : forum[e].auteur = passe[k].pseudo}
                    \subseteq passe'[k].reste
       /\ \A d \in Discussions :
            passe[k].disc = d /\ passe'[k].disc = None =>
              \/ forum[d].auteur # passe[k].pseudo \/ forum[d].lecteur = None
              \/ Connue(d)'

\* The net: from the day everything answers, a discussion with a player by a
\* verified member is in the catalogue at last, whatever was lost before.
NetCatches ==
  <>[][Fiable]_vars =>
    \A u \in Users, d \in Discussions, p \in Pseudos :
       lien[u] = [pseudo |-> p, verifie |-> TRUE] /\ forum[d].auteur = p
         /\ forum[d].lecteur # None
       ~> Connue(d) \/ lien[u] # [pseudo |-> p, verifie |-> TRUE]

=============================================================================
