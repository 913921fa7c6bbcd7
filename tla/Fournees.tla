------------------------------ MODULE Fournees ------------------------------
(***************************************************************************)
(* Editorial issues: one Markdown file each, read twice.  The home page    *)
(* embeds the files at build time, shows as a banner the issue of the day  *)
(* and asks for its mixes one by one (content/fournees.ts, useFournee.ts). *)
(* The feed reads the files beside the backend at each request and asks    *)
(* the database once (fournees.reader.ts, feeds.service.ts).  The two      *)
(* parsers have no code in common, and a deployment replaces the bundle    *)
(* and the directory one after the other.                                  *)
(***************************************************************************)
EXTENDS Filtres

CONSTANTS
  Parus,       \* versions of the directory content/fournees
  Feuillets,   \* the files of each, in order of name
  Citables,    \* mixes
  Cite,        \* the mix a reference account/title names, whatever its case
  Manque,      \* no directory, no file, no mix
  Jours,       \* the local dates a page may be opened on
  MaxRemous    \* bound: changes of the catalogue

ASSUME FourneesAssumption ==
  /\ Manque \notin Parus /\ Manque \notin Citables
  /\ {"attendue", "refusee"} \cap Citables = {}
  /\ \A v \in Parus :
       /\ Feuillets[v] \in Seq(ToSet(Feuillets[v]))
       /\ \A f \in ToSet(Feuillets[v]) : f.de \in Nat /\ f.refs \in Seq(ToSet(f.refs))
  /\ \A r \in DOMAIN Cite : Cite[r] \in Citables
  /\ Jours \subseteq Nat /\ MaxRemous \in Nat

VARIABLES
  paquet,      \* the version embedded in the bundle that is served
  dossier,     \* the version under FOURNEES_DIR, or Manque
  enBase,      \* the citable mixes that exist
  remous,      \* changes of the catalogue so far
  accueil,     \* the page opened last: its version, its file, the answer to each reference
  flux,        \* the request for a feed made last
  temoins      \* history: which of the two told the catalogue as it is now

fourneesVars == <<paquet, dossier, enBase, remous, accueil, flux, temoins>>

-----------------------------------------------------------------------------
NombreDeMix == [large |-> 4, tall |-> 5]
MixMinimum == 3

\* parseFournee of the site.
LisibleAuSite(f) ==
  /\ f.gabarit \in DOMAIN NombreDeMix
  /\ f.entete /\ f.habillage /\ f.de <= f.a
  /\ Len(f.refs) = NombreDeMix[f.gabarit] /\ ToSet(f.refs) \subseteq DOMAIN Cite

\* parseFournee of the feeds: what dresses the banner is not looked at.
LisibleAuFlux(f) == f.entete /\ ToSet(f.refs) \subseteq DOMAIN Cite

\* selectFournee: among those whose window holds the day, the first of the latest.
Elue(v, j) ==
  LET fs == Feuillets[v]
      candidates == {i \in DOMAIN fs : /\ LisibleAuSite(fs[i]) /\ fs[i].affichee
                                       /\ fs[i].de <= j /\ j <= fs[i].a}
  IN  IF candidates = {} THEN Manque
      ELSE fs[CHOOSE i \in candidates : \A k \in candidates \ {i} :
                 fs[k].de < fs[i].de \/ (fs[k].de = fs[i].de /\ i < k)]

\* The places of s whose value, as n says it, was not met before.
Inedits(s, n) == {i \in DOMAIN s : \A k \in 1..(i - 1) : n[s[k]] # n[s[i]]}

\* Mutant: two spellings of an account are two references.
DedoublonnerTelQuel(refs) == AuxPlaces(refs, Inedits(refs, [r \in DOMAIN Cite |-> r]))

\* The references of a feed: the first one to each mix.
Dedoublonner(refs) == AuxPlaces(refs, Inedits(refs, Cite))

\* The mixes that references name.
Cites(refs) == [i \in DOMAIN refs |-> Cite[refs[i]]]

PageFermee == [version |-> Manque, fichier |-> Manque, reponses |-> <<>>, montre |-> FALSE]
FluxMuet == [etat |-> "muet", version |-> Manque, fichier |-> Manque, items |-> <<>>]

FourneesInit ==
  /\ paquet \in Parus /\ dossier \in {paquet, Manque}
  /\ enBase = Citables /\ remous = 0
  /\ accueil = PageFermee /\ flux = FluxMuet /\ temoins = {}

-----------------------------------------------------------------------------
\* useFournee: the banner is up before its mixes, and each is asked for.  Of the
\* requests for feeds, those this page leads to are kept.
OuvrirAccueil(j) ==
  LET f == Elue(paquet, j)
  IN  /\ accueil' = IF f = Manque THEN PageFermee
                    ELSE [version |-> paquet, fichier |-> f, montre |-> TRUE,
                          reponses |-> [i \in DOMAIN f.refs |-> "attendue"]]
      /\ temoins' = {"accueil"} /\ flux' = FluxMuet
      /\ UNCHANGED <<paquet, dossier, enBase, remous>>

\* The mixes that came, in the order of the file.
Venus(reponses) == Filtrees(reponses, Citables)

\* One reference is answered (findBySlug), or its request fails, which looks
\* the same; with the last answer the banner takes the mixes that came, or goes.
RepondreRef(i) ==
  /\ i \in DOMAIN accueil.reponses /\ accueil.reponses[i] = "attendue"
  /\ LET m == Cite[accueil.fichier.refs[i]]
     IN  \E r \in {m, "refusee"} :
           LET toutes == [accueil.reponses EXCEPT ![i] = r]
           IN  /\ r = m => m \in enBase
               /\ accueil' = [accueil EXCEPT !.reponses = toutes,
                    !.montre = "attendue" \in ToSet(toutes) \/ Len(Venus(toutes)) >= MixMinimum]
               /\ temoins' = IF r = "refusee" /\ m \in enBase THEN temoins \ {"accueil"}
                             ELSE temoins
  /\ UNCHANGED <<paquet, dossier, enBase, remous, flux>>

\* readFournees and findFournee: drafts named `exemple...` are no issues, no
\* directory is no issue, and one file that cannot be read fails every number.
DemanderFlux(numero) ==
  LET lus == IF dossier = Manque THEN <<>>
             ELSE LET fs == Feuillets[dossier] IN Filtrees(fs, {f \in ToSet(fs) : ~f.exemple})
      trouves == Filtrees(lus, {f \in ToSet(lus) : f.numero = numero})
  IN  /\ flux' = IF \E i \in DOMAIN lus : ~LisibleAuFlux(lus[i])
                 THEN [FluxMuet EXCEPT !.etat = "500", !.version = dossier]
                 ELSE IF trouves = <<>> THEN [FluxMuet EXCEPT !.etat = "404", !.version = dossier]
                 ELSE [etat |-> "en base", version |-> dossier, fichier |-> trouves[1],
                       items |-> <<>>]
      /\ temoins' = temoins \cup {"flux"}
      /\ UNCHANGED <<paquet, dossier, enBase, remous, accueil>>

\* The one query of fournee: its rows are put in the order of the references.
ServirFlux ==
  /\ flux.etat = "en base"
  /\ flux' = [flux EXCEPT !.etat = "servi",
                !.items = Filtrees(Cites(Dedoublonner(flux.fichier.refs)), enBase)]
  /\ UNCHANGED <<paquet, dossier, enBase, remous, accueil, temoins>>

\* create, remove, or an account that comes or goes.
ChangerCatalogue(m) ==
  /\ remous < MaxRemous /\ remous' = remous + 1
  /\ enBase' = IF m \in enBase THEN enBase \ {m} ELSE enBase \cup {m}
  /\ temoins' = {}
  /\ UNCHANGED <<paquet, dossier, accueil, flux>>

\* The script replaces the bundle, then the directory; it may stop in between.
RemplacerPaquet(v) ==
  /\ paquet' = v
  /\ UNCHANGED <<dossier, enBase, remous, accueil, flux, temoins>>

RemplacerDossier ==
  /\ dossier' = paquet
  /\ UNCHANGED <<paquet, enBase, remous, accueil, flux, temoins>>

FourneesNext ==
  \/ \E j \in Jours : OuvrirAccueil(j)
  \/ \E i \in DOMAIN accueil.reponses : RepondreRef(i)
  \/ accueil.fichier # Manque /\ DemanderFlux(accueil.fichier.numero)
  \/ ServirFlux
  \/ \E m \in Citables : ChangerCatalogue(m)
  \/ \E v \in Parus : RemplacerPaquet(v)
  \/ RemplacerDossier

-----------------------------------------------------------------------------
\* Every reference has its answer, the feed that the banner proposes has its
\* own, no request failed, and the catalogue has not changed since the first.
Comparables ==
  /\ temoins = {"accueil", "flux"} /\ flux.etat \notin {"muet", "en base"}
  /\ "attendue" \notin ToSet(accueil.reponses)

SansRepetition(s) == AuxPlaces(s, Inedits(s, [m \in ToSet(s) |-> m]))

\* What fournees-files.spec.ts asks of a version, and what nothing asks of it.
AdmiseEnCI(v) == \A i \in DOMAIN Feuillets[v] : LisibleAuSite(Feuillets[v][i])
NumerosDistincts(v) ==
  \A i, k \in DOMAIN Feuillets[v] :
    Feuillets[v][i].numero = Feuillets[v][k].numero => i = k

\* The banner of the home page and the feed it links to are two readings of one
\* issue.  Made from one version that passed CI, of an issue that is no draft
\* and has a number of its own, they agree: the feed is served, and has the
\* mixes of the banner, each once, in the same order, although one reading asks
\* for each mix as the file spells it and the other drops what it takes for a
\* repetition before it asks for all.
BannerAndFeedAgree ==
  Comparables =>
    LET v == accueil.version
    IN  /\ v # Manque /\ v = flux.version /\ AdmiseEnCI(v) /\ NumerosDistincts(v)
        /\ ~accueil.fichier.exemple
        => /\ flux.etat = "servi"
           /\ flux.items = SansRepetition(Venus(accueil.reponses))
===============================================================================
