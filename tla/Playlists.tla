------------------------------ MODULE Playlists ------------------------------
(***************************************************************************)
(* The playlists (playlists.service.ts).  Adding a mix is four statements  *)
(* outside any transaction: the owner, the mix, the last position, the     *)
(* upsert.  The reads always sort by position, which is meant to be the    *)
(* order of insertion.                                                     *)
(***************************************************************************)
EXTENDS Integers, FiniteSets

CONSTANTS
  Listes,      \* playlists
  Morceaux,    \* mixes
  Membres,     \* accounts
  Ajouts,      \* requests of the service in flight at the same time
  Personne,    \* no account
  MaxPosition  \* bound on positions

ASSUME PlaylistsAssumption == Personne \notin Membres /\ MaxPosition \in Nat

VARIABLES
  proprietaire,  \* owner of each playlist, Personne when it is gone
  enLigne,       \* mixes that exist
  position,      \* position of each mix of each playlist, -1 when absent
  ajout,         \* what each request is doing
  precede        \* history: for each item, those that were there when its
                 \* addition began and have not left since

playlistsVars == <<proprietaire, enLigne, position, ajout, precede>>

-----------------------------------------------------------------------------
Repos == [quoi |-> "", etape |-> "", liste |-> "", mix |-> "", derniere |-> -1, vus |-> {}]

Dedans(l) == {m \in Morceaux : position[l][m] >= 0}

\* findFirst by descending position, -1 when the playlist is empty.
DernierePosition(l) ==
  IF Dedans(l) = {} THEN -1
  ELSE CHOOSE p \in {position[l][m] : m \in Dedans(l)} :
         \A m \in Dedans(l) : position[l][m] <= p

PlaylistsInit ==
  /\ proprietaire = [l \in Listes |-> Personne]
  /\ enLigne = Morceaux
  /\ position = [l \in Listes |-> [m \in Morceaux |-> -1]]
  /\ ajout = [a \in Ajouts |-> Repos]
  /\ precede = [l \in Listes |-> [m \in Morceaux |-> {}]]

Passe(a, e) == ajout' = [ajout EXCEPT ![a].etape = e]
Clore(a) == ajout' = [ajout EXCEPT ![a] = Repos]

\* assertOwnership opens every request that writes: it needs the playlist to
\* be there, and to be the caller's.
Demander(a, u, l, m, quoi) ==
  /\ ajout[a] = Repos
  /\ proprietaire[l] = u
  /\ ajout' = [ajout EXCEPT ![a] =
       [quoi |-> quoi, etape |-> IF quoi = "ajouter" THEN "mix" ELSE "ecrire",
        liste |-> l, mix |-> m, derniere |-> -1, vus |-> Dedans(l)]]
  /\ UNCHANGED <<proprietaire, enLigne, position, precede>>

\* addMix: the mix exists.
LireMorceau(a) ==
  /\ ajout[a].etape = "mix"
  /\ IF ajout[a].mix \in enLigne THEN Passe(a, "derniere") ELSE Clore(a)
  /\ UNCHANGED <<proprietaire, enLigne, position, precede>>

\* addMix: the last position.
LireDerniere(a) ==
  /\ ajout[a].etape = "derniere"
  /\ ajout' = [ajout EXCEPT ![a].etape = "ecrire",
                            ![a].derniere = DernierePosition(ajout[a].liste)]
  /\ UNCHANGED <<proprietaire, enLigne, position, precede>>

\* Mutant: the number of items stands for the last position.
PositionSuivanteParLeCompte(a) == Cardinality(Dedans(ajout[a].liste))

PositionSuivante(a) == ajout[a].derniere + 1

\* addMix: the upsert keeps an item that is already there; the foreign keys
\* refuse a playlist or a mix that left meanwhile.
Ajouter(a) ==
  /\ ajout[a].etape = "ecrire" /\ ajout[a].quoi = "ajouter"
  /\ LET q == ajout[a]
         l == q.liste
         m == q.mix
     IN IF proprietaire[l] = Personne \/ m \notin enLigne \/ position[l][m] >= 0
        THEN UNCHANGED <<position, precede>>
        ELSE /\ PositionSuivante(a) <= MaxPosition
             /\ position' = [position EXCEPT ![l][m] = PositionSuivante(a)]
             /\ precede' = [precede EXCEPT ![l][m] = q.vus \cap Dedans(l)]
  /\ Clore(a)
  /\ UNCHANGED <<proprietaire, enLigne>>

\* What goes when items leave: nobody counts on their place any more.
Sortir(l, ms) ==
  /\ position' = [position EXCEPT ![l] = [m \in Morceaux |-> IF m \in ms THEN -1 ELSE @[m]]]
  /\ precede' = [precede EXCEPT ![l] =
       [m \in Morceaux |-> IF m \in ms THEN {} ELSE @[m] \ ms]]

\* An addition under way no longer counts on what has just left.
Oublier(l, ms) ==
  [a \in Ajouts |-> IF ajout[a].liste = l THEN [ajout[a] EXCEPT !.vus = @ \ ms] ELSE ajout[a]]

\* removeMix: a deleteMany, which may find nothing.
Enlever(a) ==
  /\ ajout[a].etape = "ecrire" /\ ajout[a].quoi = "enlever"
  /\ Sortir(ajout[a].liste, {ajout[a].mix})
  /\ ajout' = [Oublier(ajout[a].liste, {ajout[a].mix}) EXCEPT ![a] = Repos]
  /\ UNCHANGED <<proprietaire, enLigne>>

\* remove: the playlist and, by cascade, its items; gone already, it fails.
SupprimerListe(a) ==
  /\ ajout[a].etape = "ecrire" /\ ajout[a].quoi = "supprimer"
  /\ LET l == ajout[a].liste IN
     IF proprietaire[l] = Personne
     THEN Clore(a) /\ UNCHANGED <<proprietaire, position, precede>>
     ELSE /\ proprietaire' = [proprietaire EXCEPT ![l] = Personne]
          /\ Sortir(l, Morceaux)
          /\ ajout' = [Oublier(l, Morceaux) EXCEPT ![a] = Repos]
  /\ UNCHANGED enLigne

\* create: an empty playlist.  The identifier of one that is gone stands for a
\* new one once no request names it.
CreerListe(u, l) ==
  /\ proprietaire[l] = Personne /\ \A a \in Ajouts : ajout[a].liste # l
  /\ proprietaire' = [proprietaire EXCEPT ![l] = u]
  /\ UNCHANGED <<enLigne, position, ajout, precede>>

\* update writes the title and the description, and nothing seen here.
Modifier(a) ==
  /\ ajout[a].etape = "ecrire" /\ ajout[a].quoi = "modifier"
  /\ Clore(a)
  /\ UNCHANGED <<proprietaire, enLigne, position, precede>>

\* A mix is deleted: its items go from every playlist.
MorceauSupprime(m) ==
  /\ m \in enLigne
  /\ enLigne' = enLigne \ {m}
  /\ position' = [l \in Listes |-> [position[l] EXCEPT ![m] = -1]]
  /\ precede' = [l \in Listes |->
       [n \in Morceaux |-> IF n = m THEN {} ELSE precede[l][n] \ {m}]]
  /\ ajout' = [a \in Ajouts |-> [ajout[a] EXCEPT !.vus = @ \ {m}]]
  /\ UNCHANGED proprietaire

\* An account is deleted: its playlists go with it.
MembreParti(u) ==
  /\ \E l \in Listes : proprietaire[l] = u
  /\ LET siennes == {l \in Listes : proprietaire[l] = u} IN
     /\ proprietaire' = [l \in Listes |-> IF l \in siennes THEN Personne ELSE proprietaire[l]]
     /\ position' = [l \in Listes |->
          IF l \in siennes THEN [m \in Morceaux |-> -1] ELSE position[l]]
     /\ precede' = [l \in Listes |->
          IF l \in siennes THEN [m \in Morceaux |-> {}] ELSE precede[l]]
     /\ ajout' = [a \in Ajouts |->
          IF ajout[a].liste \in siennes THEN [ajout[a] EXCEPT !.vus = {}] ELSE ajout[a]]
  /\ UNCHANGED enLigne

PlaylistsNext ==
  \/ \E a \in Ajouts :
       \/ \E u \in Membres, l \in Listes, m \in Morceaux,
            quoi \in {"ajouter", "enlever", "supprimer", "modifier"} : Demander(a, u, l, m, quoi)
       \/ LireMorceau(a) \/ LireDerniere(a) \/ Ajouter(a) \/ Enlever(a)
       \/ SupprimerListe(a) \/ Modifier(a)
  \/ \E m \in Morceaux : MorceauSupprime(m)
  \/ \E u \in Membres : MembreParti(u) \/ \E l \in Listes : CreerListe(u, l)

PlaylistsSpec == PlaylistsInit /\ [][PlaylistsNext]_playlistsVars

-----------------------------------------------------------------------------
(* Properties                                                              *)

\* "Insertion order. Gaps are expected after removals": a mix stands after
\* every mix that was in the playlist when its addition began, whatever was
\* added or removed meanwhile.  Two additions that overlap may tie.
InsertionOrder ==
  \A l \in Listes, m \in Morceaux :
    \A n \in precede[l][m] : position[l][n] < position[l][m]
===============================================================================
