------------------------------ MODULE Recherche ------------------------------
(***************************************************************************)
(* Searching: the Discover page (DiscoverView.vue), its text, tags, sort   *)
(* and page number, each of which sends a request in its own way, and the  *)
(* field of the header (NavBar.vue), which opens that page with ?q=.       *)
(* Answers come back in any order, and no request is ever cancelled.       *)
(***************************************************************************)
EXTENDS Integers, FiniteSets

CONSTANTS
  Termes,    \* texts one may search for; Vide is the empty one
  Vide,
  MaxPages,  \* pages of results
  EnVol      \* bound: requests in flight

ASSUME RechercheAssumption ==
  Vide \notin Termes /\ MaxPages \in Nat \ {0} /\ EnVol \in Nat

VARIABLES
  ouverte,     \* the Discover page is mounted
  filtre,      \* search, selectedTags (one or none), sortBy and page
  lienQ,       \* ?q= of its address
  antirebond,  \* searchTimeout is armed
  attendues,   \* requests in flight: what they ask, or Sections
  montres,     \* what the results on display answer, or Rien
  pages,       \* totalPages
  attente,     \* loading
  derniere,    \* history: the last search sent since the page was opened
  entete,      \* headerSearch
  enteteArme,  \* the timer of the header
  comptes,     \* requests of the header in flight
  propose      \* term whose accounts the drop-down shows, or Vide when closed

rechercheVars == <<ouverte, filtre, lienQ, antirebond, attendues, montres, pages, attente,
                   derniere, entete, enteteArme, comptes, propose>>
enteteVars == <<entete, enteteArme, comptes, propose>>

-----------------------------------------------------------------------------
Aucun == [q |-> Vide, tag |-> FALSE, tri |-> "recent", page |-> 1]
Sections == [Aucun EXCEPT !.page = 0]
RienMontre == [Aucun EXCEPT !.page = -1]
Textes == Termes \cup {Vide}

\* isSearching
Cherche(f) == f.q # Vide \/ f.tag \/ f.tri # "recent"

RechercheInit ==
  /\ ouverte = FALSE /\ filtre = Aucun /\ lienQ = Vide /\ antirebond = FALSE
  /\ attendues = {} /\ montres = RienMontre /\ pages = 1 /\ attente = FALSE
  /\ derniere = RienMontre
  /\ entete = Vide /\ enteteArme = FALSE /\ comptes = {} /\ propose = Vide

\* loadSections and loadSearchResults, as far as their await.
Envoyer(r) ==
  /\ Cardinality(attendues \cup {r}) <= EnVol
  /\ attendues' = attendues \cup {r}
  /\ attente' = TRUE
  /\ derniere' = IF r = Sections THEN derniere ELSE r

PasDeDemande == UNCHANGED <<attendues, attente, derniere>>

\* The page is mounted, with the text of its address; onMounted asks for the
\* sections.
Monter(q) ==
  /\ ouverte' = TRUE /\ lienQ' = q /\ filtre' = [Aucun EXCEPT !.q = q]
  /\ montres' = RienMontre /\ pages' = 1 /\ antirebond' = FALSE
  /\ attendues' = {Sections} /\ attente' = TRUE /\ derniere' = RienMontre

\* From another page; requests of a former visit answer to nobody.
Ouvrir(q) == ~ouverte /\ Monter(q) /\ UNCHANGED enteteVars

QuitterPage ==
  /\ ouverte /\ ouverte' = FALSE
  /\ filtre' = Aucun /\ lienQ' = Vide /\ antirebond' = FALSE
  /\ attendues' = {} /\ montres' = RienMontre /\ pages' = 1 /\ attente' = FALSE
  /\ derniere' = RienMontre
  /\ UNCHANGED enteteVars

\* Another ?q= while the page is open: the text follows, and its watcher
\* starts the timer again.
SuivreLien(q) ==
  /\ lienQ' = q
  /\ filtre' = [filtre EXCEPT !.q = q]
  /\ antirebond' = (antirebond \/ filtre.q # q)
  /\ UNCHANGED <<ouverte, montres, pages>> /\ PasDeDemande

Naviguer(q) == ouverte /\ q # lienQ /\ SuivreLien(q) /\ UNCHANGED enteteVars

\* The timer: a search from its first page, or the sections again.
Debonder ==
  /\ ouverte /\ antirebond /\ antirebond' = FALSE
  /\ filtre' = [filtre EXCEPT !.page = 1]
  /\ Envoyer(IF Cherche(filtre') THEN filtre' ELSE Sections)
  /\ UNCHANGED <<ouverte, lienQ, montres, pages, enteteVars>>

\* toggleTag and reinitialiserLesTags: asked at once, searched for or not.
BasculerTag ==
  /\ ouverte
  /\ filtre' = [filtre EXCEPT !.tag = ~@, !.page = 1]
  /\ Envoyer(filtre')
  /\ UNCHANGED <<ouverte, lienQ, antirebond, montres, pages, enteteVars>>

TrierPar(t) ==
  /\ ouverte /\ filtre.tri # t
  /\ filtre' = [filtre EXCEPT !.tri = t, !.page = 1]
  /\ Envoyer(filtre')
  /\ UNCHANGED <<ouverte, lienQ, antirebond, montres, pages, enteteVars>>

\* Mutant: a page that is turned waits for something else to be asked.
TournerSansDemander(p) ==
  /\ ouverte /\ Cherche(filtre) /\ p # filtre.page
  /\ filtre.page < p => filtre.page < pages
  /\ filtre' = [filtre EXCEPT !.page = p] /\ PasDeDemande
  /\ UNCHANGED <<ouverte, lienQ, antirebond, montres, pages, enteteVars>>

\* The two buttons, and the watcher of the page number.
TournerPage(p) ==
  /\ ouverte /\ Cherche(filtre) /\ p \in {filtre.page - 1, filtre.page + 1} /\ p > 0
  /\ filtre.page < p => filtre.page < pages
  /\ filtre' = [filtre EXCEPT !.page = p]
  /\ Envoyer(filtre')
  /\ UNCHANGED <<ouverte, lienQ, antirebond, montres, pages, enteteVars>>

\* An answer: shown, whatever has been asked since.
Repondu(r) ==
  /\ r \in attendues /\ attendues' = attendues \ {r} /\ attente' = FALSE
  /\ IF r = Sections THEN UNCHANGED <<montres, pages>>
     ELSE montres' = r /\ pages' \in 1..MaxPages
  /\ UNCHANGED <<ouverte, filtre, lienQ, antirebond, derniere, enteteVars>>

Echoue(r) ==
  /\ r \in attendues /\ attendues' = attendues \ {r} /\ attente' = FALSE
  /\ UNCHANGED <<ouverte, filtre, lienQ, antirebond, montres, pages, derniere, enteteVars>>

-----------------------------------------------------------------------------
(* The header, on every page                                               *)

pageVars == <<ouverte, filtre, lienQ, antirebond, attendues, montres, pages, attente, derniere>>

\* The text changes: too short, all is erased; else the timer starts again.
Saisir(q) ==
  /\ q # entete /\ entete' = q
  /\ enteteArme' = (q # Vide)
  /\ propose' = IF q = Vide THEN Vide ELSE propose
  /\ UNCHANGED <<comptes, pageVars>>

DemanderComptes ==
  /\ enteteArme /\ enteteArme' = FALSE
  /\ comptes' = comptes \cup {entete}
  /\ UNCHANGED <<entete, propose, pageVars>>

\* Accounts, none, or a failure.
ComptesRepondent(q) ==
  /\ q \in comptes /\ comptes' = comptes \ {q}
  /\ propose' \in {q, Vide}
  /\ UNCHANGED <<entete, enteteArme, pageVars>>

FermerListe == propose # Vide /\ propose' = Vide /\ UNCHANGED <<entete, enteteArme, comptes, pageVars>>

\* goToUser: the drop-down closes, the field empties, the profile opens.
ChoisirCompte ==
  /\ propose # Vide /\ propose' = Vide
  /\ entete' = Vide /\ enteteArme' = FALSE /\ UNCHANGED comptes
  /\ ouverte' = FALSE /\ filtre' = Aucun /\ lienQ' = Vide /\ antirebond' = FALSE
  /\ attendues' = {} /\ montres' = RienMontre /\ pages' = 1 /\ attente' = FALSE
  /\ derniere' = RienMontre

\* onSearch: the Discover page with ?q=, opened or followed.
Valider ==
  /\ entete # Vide
  /\ CASE ~ouverte -> Monter(entete)
       [] ouverte /\ entete = lienQ -> UNCHANGED pageVars   \* the same address
       [] OTHER -> SuivreLien(entete)
  /\ entete' = Vide /\ enteteArme' = FALSE /\ propose' = Vide
  /\ UNCHANGED comptes

DecouvrirNext ==
  \/ QuitterPage \/ Debonder \/ BasculerTag
  \/ \E q \in Textes : Ouvrir(q) \/ Naviguer(q)
  \/ \E t \in {"recent", "plays"} : TrierPar(t)
  \/ \E p \in 1..MaxPages : TournerPage(p)
  \/ \E r \in attendues : Repondu(r) \/ Echoue(r)

EnteteNext ==
  \/ \E q \in Textes : Saisir(q) \/ ComptesRepondent(q)
  \/ DemanderComptes \/ FermerListe \/ ChoisirCompte \/ Valider

RechercheNext == DecouvrirNext \/ EnteteNext

RechercheSpec == RechercheInit /\ [][RechercheNext]_rechercheVars

-----------------------------------------------------------------------------
(* Properties                                                              *)

\* Once something has been searched for, whichever of the four controls moved
\* last, what was asked last is what they say, unless the timer is running.
LastAskedIsWanted ==
  (ouverte /\ Cherche(filtre) /\ ~antirebond /\ derniere # RienMontre) => derniere = filtre
===============================================================================
