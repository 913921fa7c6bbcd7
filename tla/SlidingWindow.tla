----------------------------- MODULE SlidingWindow -----------------------------
(***************************************************************************)
(* The bounded request budget of password recovery (SlidingWindow of       *)
(* password-reset.service.ts): at most Limit accepted requests per key in  *)
(* any window, kept in a JavaScript Map that never holds more than MaxKeys *)
(* keys.  `tryConsume` has no await: it is one step.  A Map iterates in    *)
(* insertion order, so it is a sequence of entries here.                   *)
(***************************************************************************)
EXTENDS Filtres

CONSTANTS
  Keys,        \* addresses, or callers
  Limit,       \* accepted requests per window
  Window,      \* windowMs, in clock ticks
  MaxKeys,     \* ceiling of tracked keys
  SweepEvery,  \* SWEEP_EVERY_CALLS
  FinFenetre      \* bound on the clock

ASSUME BudgetAssumption ==
  /\ Limit \in Nat \ {0} /\ Window \in Nat \ {0}
  /\ MaxKeys \in Nat \ {0} /\ SweepEvery \in Nat \ {0} /\ FinFenetre \in Nat

VARIABLES
  hits,        \* the Map, in insertion order
  depuis,      \* callsSinceSweep
  heure,  \* Date.now()
  acceptes,    \* history: dates at which a key was accepted since it was evicted
  appels       \* history: when each key was last presented, 0 for never

windowVars == <<hits, depuis, heure, acceptes, appels>>

-----------------------------------------------------------------------------
\* Dates of a window that is still open at date n.
Ouvertes(dates, n) == Filtrees(dates, {t \in Nat : t > n - Window})

Derniere(dates) == dates[Len(dates)]

Cles(h) == {e.cle : e \in ToSet(h)}

Dates(h, c) ==
  IF c \in Cles(h) THEN (CHOOSE e \in ToSet(h) : e.cle = c).dates
  ELSE <<>>

Sans(h, c) == Filtrees(h, {e \in ToSet(h) : e.cle # c})

\* The first of what is left once the head that overflows is dropped.
Plafonner(h) ==
  IF Len(h) < MaxKeys THEN h ELSE SubSeq(h, Len(h) - MaxKeys + 2, Len(h))

\* Mutant: a key is swept as soon as its first request is out of the window.
EncoreUtileSelonLaPremiere(e) == e.dates[1] > heure - Window

\* A key whose last request is out of the window carries no information.
EncoreUtile(e) == Derniere(e.dates) > heure - Window

\* sweep: reclaim the keys that carry nothing, then drop the stalest ones
\* until there is room for one more.
Sweep(h) == Plafonner(Filtrees(h, {e \in ToSet(h) : EncoreUtile(e)}))

DoitBalayer(h) == depuis + 1 >= SweepEvery \/ Len(h) >= MaxKeys

DansLeBudget(dates) == Len(dates) < Limit

\* An accepted key goes to the end of the Map.
Placer(h, c, dates) == Append(Sans(h, c), [cle |-> c, dates |-> dates])

\* A refused one keeps its place, its dates pruned.
Elaguer(h, c, dates) ==
  [i \in DOMAIN h |-> IF h[i].cle = c THEN [h[i] EXCEPT !.dates = dates] ELSE h[i]]

WindowInit ==
  /\ hits = <<>>
  /\ depuis = 0
  /\ heure = 1
  /\ acceptes = [c \in Keys |-> <<>>]
  /\ appels = [c \in Keys |-> 0]

\* The keys the ceiling costs: what a sweep of the full Map forgets.
Evincees(h) == {c \in Cles(hits) \ Cles(h) : Len(hits) >= MaxKeys}

TryConsume(c) ==
  LET h == IF DoitBalayer(hits) THEN Sweep(hits) ELSE hits
      recent == Ouvertes(Dates(h, c), heure)
      accepte == DansLeBudget(recent)
      retenus == [k \in Keys |-> IF k \in Evincees(h) THEN <<>> ELSE acceptes[k]]
  IN /\ depuis' = IF DoitBalayer(hits) THEN 0 ELSE depuis + 1
     /\ hits' = IF accepte THEN Placer(h, c, Append(recent, heure))
                ELSE Elaguer(h, c, recent)
     /\ acceptes' = IF accepte
                    THEN [retenus EXCEPT ![c] = Append(Ouvertes(@, heure), heure)]
                    ELSE retenus
     /\ appels' = [appels EXCEPT ![c] = heure]
     /\ UNCHANGED heure

TicFenetre ==
  /\ heure < FinFenetre
  /\ heure' = heure + 1
  /\ UNCHANGED <<hits, depuis, acceptes, appels>>

\* The process restarts with an empty Map: every budget is whole again.
ViderBudgets ==
  /\ hits' = <<>> /\ depuis' = 0
  /\ acceptes' = [c \in Keys |-> <<>>]
  /\ UNCHANGED <<heure, appels>>

WindowNext ==
  \/ \E c \in Keys : TryConsume(c)
  \/ TicFenetre
  \/ ViderBudgets

WindowSpec == WindowInit /\ [][WindowNext]_windowVars

-----------------------------------------------------------------------------
(* Properties                                                              *)

\* Unless it was evicted at the ceiling, a key is never accepted more than
\* Limit times in one window: sweeping and pruning give no budget back early.
BudgetHeld ==
  \A c \in Keys : Len(Ouvertes(acceptes[c], heure)) <= Limit

\* "Map insertion order tracks least recently touched": an entry that comes
\* before another was not presented after it.
OrderTracksTouches ==
  \A i, j \in DOMAIN hits : i < j => appels[hits[i].cle] <= appels[hits[j].cle]
=============================================================================
