------------------------------- MODULE Veille -------------------------------
(***************************************************************************)
(* The sources a member watches (veille.service.ts): one row of            *)
(* WatchedSource per address, with the items last read, the instant of     *)
(* that reading and its error.  Any visit of a profile refreshes what is   *)
(* older than CACHE_TTL_MS, source by source and in parallel; the owner    *)
(* meanwhile adds and removes sources.  Items, labels and positions are    *)
(* data that no guard reads: they are left out, and updateSource with them.*)
(***************************************************************************)
EXTENDS Integers, FiniteSets

CONSTANTS
  Sources,      \* ids of rows, given in increasing order and never again
  Adresses,     \* canonical addresses
  Visites,      \* getFeed calls, each may be made again
  Abonnements,       \* addSource calls, each may be made again
  Plafond,      \* MAX_SOURCES_PER_USER
  Ttl,          \* CACHE_TTL_MS, in ticks
  Fin           \* bound: last tick

ASSUME VeilleAssumption ==
  /\ Sources \subseteq Nat \ {0} /\ Plafond \in Nat /\ Ttl \in Nat \ {0} /\ Fin \in Nat
  /\ IsFiniteSet(Abonnements) /\ Adresses \cap {"hors", "a_resoudre"} = {}

Jamais == -1

VARIABLES
  suivies,    \* watched_sources: the rows by id
  emises,     \* ids given so far
  visites,    \* each visit, by source: how far its refresh is, what was read
              \* in fetchedAt and (history) of sorties
  ajouts,     \* each addition: how far it is, then the address to create
  horloge,    \* Date.now()
  sorties     \* history: by source, instant of the last request that left
              \* with its stamp recorded; a failed stamp forgets it

veilleVars == <<suivies, emises, visites, ajouts, horloge, sorties>>

-----------------------------------------------------------------------------
Oter(f, x) == [y \in DOMAIN f \ {x} |-> f[y]]
Inscrire(f, x, v) == [y \in DOMAIN f \cup {x} |-> IF y = x THEN v ELSE f[y]]

VeilleInit ==
  /\ suivies = <<>> /\ emises = 0
  /\ visites = [v \in Visites |-> <<>>]
  /\ ajouts = [a \in Abonnements |-> "hors"]
  /\ horloge = 0
  /\ sorties = <<>>

-----------------------------------------------------------------------------
\* A visit of the profile: the rows of its owner, as they are now.
LireSources(v) ==
  /\ visites[v] = <<>>
  /\ visites' = [visites EXCEPT ![v] = [s \in DOMAIN suivies |->
       [etape |-> "a_juger", lue |-> suivies[s].lue,
        connue |-> IF s \in DOMAIN sorties THEN sorties[s] ELSE Jamais]]]
  /\ UNCHANGED <<suivies, emises, ajouts, horloge, sorties>>

Fraiche(lue) == lue # Jamais /\ horloge - lue < Ttl

\* The rows come back: what is young enough is served, the rest is refreshed.
Juger(v) ==
  /\ \E s \in DOMAIN visites[v] : visites[v][s].etape = "a_juger"
  /\ visites' = [visites EXCEPT ![v] =
       [s \in {x \in DOMAIN @ : ~Fraiche(@[x].lue)} |-> [etape |-> "a_marquer", connue |-> @[s].connue]]]
  /\ UNCHANGED <<suivies, emises, ajouts, horloge, sorties>>

\* What the visit keeps of a refresh that goes on: its step alone.
Avancer(v, s, de, vers) ==
  /\ visites[v][s].etape = de
  /\ visites' = [visites EXCEPT ![v][s] = [etape |-> vers]]

\* A refresh that is over; with the last one the answer leaves.
Rendre(v, s, de) ==
  /\ visites[v][s].etape = de
  /\ visites' = [visites EXCEPT ![v] = Oter(@, s)]

\* Mutant: the request leaves and nothing is stamped before it.
PartirSansMarquer(v, s) ==
  /\ Avancer(v, s, "a_marquer", "partie")
  /\ sorties' = Inscrire(sorties, s, horloge)
  /\ UNCHANGED <<suivies, emises, ajouts, horloge>>

\* The stamp, then the request.  A stamp that cannot be written is swallowed;
\* that of a source removed in between too.
Marquer(v, s) ==
  /\ Avancer(v, s, "a_marquer", "partie")
  /\ \/ /\ s \in DOMAIN suivies
        /\ suivies' = [suivies EXCEPT ![s].lue = horloge]
        /\ sorties' = Inscrire(sorties, s, horloge)
     \/ /\ suivies' = suivies
        /\ sorties' = Oter(sorties, s)
  /\ UNCHANGED <<emises, ajouts, horloge>>

\* The site answers, or not: the visit shows what it got, or else what the
\* row held, whatever becomes of the writes below.
Obtenir(v, s) ==
  /\ Avancer(v, s, "partie", "lue") \/ Avancer(v, s, "partie", "en_echec")
  /\ UNCHANGED <<suivies, emises, ajouts, horloge, sorties>>

Noter(s, erreur) ==
  \/ s \in DOMAIN suivies /\ suivies' = [suivies EXCEPT ![s].erreur = erreur]
  \/ suivies' = suivies

Consigner(v, s) ==
  /\ \/ Rendre(v, s, "lue") /\ Noter(s, FALSE)
     \/ Rendre(v, s, "en_echec") /\ Noter(s, TRUE)
  /\ UNCHANGED <<emises, ajouts, horloge, sorties>>

-----------------------------------------------------------------------------
\* Mutant: one more than the cap goes through.
PleinTropTard == Cardinality(DOMAIN suivies) > Plafond

Plein == Cardinality(DOMAIN suivies) >= Plafond

\* addSource: the rows are counted before the address is read.
Compter(a) ==
  /\ ajouts[a] = "hors"
  /\ ajouts' = [ajouts EXCEPT ![a] = IF Plein THEN "hors" ELSE "a_resoudre"]
  /\ UNCHANGED <<suivies, emises, visites, horloge, sorties>>

Connue(url) == \E s \in DOMAIN suivies : suivies[s].url = url

\* The address is read and found not to be one of the rows; or refused.
Resoudre(a) ==
  /\ ajouts[a] = "a_resoudre"
  /\ \E suite \in {url \in Adresses : ~Connue(url)} \cup {"hors"} :
       ajouts' = [ajouts EXCEPT ![a] = suite]
  /\ UNCHANGED <<suivies, emises, visites, horloge, sorties>>

\* The row, unless the index on (userId, url) refuses it: then a 500.
Creer(a) ==
  /\ ajouts[a] \in Adresses
  /\ ajouts' = [ajouts EXCEPT ![a] = "hors"]
  /\ IF Connue(ajouts[a])
     THEN UNCHANGED <<suivies, emises>>
     ELSE /\ emises + 1 \in Sources
          /\ emises' = emises + 1
          /\ suivies' = Inscrire(suivies, emises + 1,
               [url |-> ajouts[a], lue |-> horloge, erreur |-> FALSE])
  /\ UNCHANGED <<visites, horloge, sorties>>

RetirerSource(s) ==
  /\ s \in DOMAIN suivies
  /\ suivies' = Oter(suivies, s)
  /\ sorties' = Oter(sorties, s)
  /\ UNCHANGED <<emises, visites, ajouts, horloge>>

\* Time passes, but not while a stamp is on its way to the base: the write of
\* a row lasts less than a tick.
TicVeille ==
  /\ horloge < Fin
  /\ \A v \in Visites : \A s \in DOMAIN visites[v] : visites[v][s].etape # "a_marquer"
  /\ horloge' = horloge + 1
  /\ UNCHANGED <<suivies, emises, visites, ajouts, sorties>>

VeilleNext ==
  \/ \E v \in Visites :
       \/ LireSources(v) \/ Juger(v)
       \/ \E s \in DOMAIN visites[v] : Marquer(v, s) \/ Obtenir(v, s) \/ Consigner(v, s)
  \/ \E a \in Abonnements : Compter(a) \/ Resoudre(a) \/ Creer(a)
  \/ \E s \in DOMAIN suivies : RetirerSource(s)
  \/ TicVeille

VeilleSpec == VeilleInit /\ [][VeilleNext]_veilleVars

-----------------------------------------------------------------------------
(* Once a request has left for a source, its stamp recorded, no visit made *)
(* after it sends another within the TTL, whatever becomes of the answer   *)
(* and of the writes that follow it.                                       *)
CacheCloses ==
  \A v \in Visites : \A s \in DOMAIN visites[v] :
    visites[v][s].etape = "a_marquer" =>
      visites[v][s].connue = Jamais \/ horloge >= visites[v][s].connue + Ttl

(* Additions that cross may go past the cap of the sources of an account,  *)
(* but by no more than there are of them beyond the first.                 *)
SourceCap ==
  Plafond > 0 => Cardinality(DOMAIN suivies) < Plafond + Cardinality(Abonnements)
=============================================================================
