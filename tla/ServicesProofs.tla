---------------------------- MODULE ServicesProofs ----------------------------
(***************************************************************************)
(* The services whose state is their own, each for every value of its      *)
(* constants: the threads of comments, the order of playlists, the cap and *)
(* the cache of the watched sources, the deadlines of outgoing requests,   *)
(* the suggestions that follow a mix, the documents given to machines, the *)
(* budgets of recovery requests, the issue the home page shows.            *)
(***************************************************************************)
EXTENDS Comments, Playlists, Veille, Outgoing, Suggestions, Publications,
        SlidingWindow, Fournees, FiniteSetTheorems, SequenceTheorems,
        WellFoundedInduction, TLAPS

(***************************************************************************)
(* Comments.  What a request has checked of a parent stays true of it      *)
(* while it exists, because a comment never changes its mix or its parent  *)
(* and its identifier is never given again (ParentStillFits); and a        *)
(* deletion takes the replies of what it deletes.                          *)
(***************************************************************************)

Commentaire == [set : Sets, auteur : Auteurs, parent : Fils \cup {Rien}]

Envoi == [quoi : {"", "creer", "retirer"}, etape : {"", "mix", "parent", "inserer", "effacer"},
          auteur : Auteurs \cup {Rien}, set : Sets \cup {Rien}, fil : Fils \cup {Rien},
          parent : Fils \cup {Rien}]

CommentsTypeOK ==
  /\ inscrits \subseteq Auteurs /\ sets \subseteq Sets /\ utilises \subseteq Fils
  /\ commentaire \in [Fils -> Commentaire \cup {Rien}]
  /\ envoi \in [Envois -> Envoi]

\* An identifier is drawn before its comment exists.
DrawnFirst == \A c \in Fils : Poste(c) => c \in utilises

\* A request names parents that were drawn; the one it has checked, if it is
\* still there, is still what it was.
ParentStillFits ==
  \A e \in Envois : LET p == envoi[e].parent IN
    /\ p # Rien => p \in utilises
    /\ envoi[e].etape = "parent" => p # Rien
    /\ envoi[e].etape = "effacer" => envoi[e].fil \in Fils
    /\ envoi[e].etape = "inserer" /\ p # Rien /\ Poste(p) =>
         commentaire[p].set = envoi[e].set /\ commentaire[p].parent = Rien

CommentsInv == CommentsTypeOK /\ DrawnFirst /\ ParentStillFits /\ OneLevelThreads

-----------------------------------------------------------------------------
(* Records are opaque beyond these facts.                                  *)

LEMMA EnvoiFields ==
  ASSUME NEW q \in Envoi
  PROVE  /\ q.auteur \in Auteurs \cup {Rien} /\ q.set \in Sets \cup {Rien}
         /\ q.fil \in Fils \cup {Rien} /\ q.parent \in Fils \cup {Rien}
BY DEF Envoi

LEMMA CommentaireFields ==
  ASSUME NEW q \in Commentaire
  PROVE  q.set \in Sets /\ q.auteur \in Auteurs /\ q.parent \in Fils \cup {Rien}
BY DEF Commentaire

LEMMA InactifIsEnvoi ==
  Inactif \in Envoi /\ Inactif.etape = "" /\ Inactif.parent = Rien
BY DEF Inactif, Envoi

\* Moving a request to another step changes nothing else of it.
LEMMA EnvoiAtStep ==
  ASSUME NEW q \in Envoi, NEW s \in {"", "mix", "parent", "inserer", "effacer"}
  PROVE  /\ [q EXCEPT !.etape = s] \in Envoi
         /\ [q EXCEPT !.etape = s].etape = s
         /\ [q EXCEPT !.etape = s].set = q.set
         /\ [q EXCEPT !.etape = s].parent = q.parent
BY DEF Envoi

LEMMA CommentsInvInit == CommentsInit => CommentsInv
<1> SUFFICES ASSUME CommentsInit PROVE CommentsInv
    OBVIOUS
<1>1. /\ inscrits = Auteurs /\ sets = Sets /\ utilises = {}
      /\ commentaire = [c \in Fils |-> Rien]
      /\ envoi = [e \in Envois |-> Inactif]
    BY DEF CommentsInit
<1>2. CommentsTypeOK
    BY <1>1, InactifIsEnvoi DEF CommentsTypeOK
<1>3. \A c \in Fils : ~Poste(c)
    BY <1>1 DEF Poste
<1>4. ParentStillFits
    BY <1>1, InactifIsEnvoi DEF ParentStillFits
<1> QED BY <1>2, <1>3, <1>4 DEF CommentsInv, DrawnFirst, OneLevelThreads

\* Requests that take a step of their own, or none, while comments stay.
LEMMA RequestMoves ==
  ASSUME CommentsInv, UNCHANGED <<inscrits, sets, commentaire, utilises>>,
         NEW e \in Envois, NEW q \in Envoi, envoi' = [envoi EXCEPT ![e] = q],
         q.parent # Rien => q.parent \in utilises,
         q.etape = "parent" => q.parent # Rien,
         q.etape = "effacer" => q.fil \in Fils,
         q.etape = "inserer" /\ q.parent # Rien /\ Poste(q.parent) =>
           commentaire[q.parent].set = q.set /\ commentaire[q.parent].parent = Rien
  PROVE  CommentsInv'
<1>0. CommentsTypeOK /\ DrawnFirst /\ ParentStillFits /\ OneLevelThreads
    BY DEF CommentsInv
<1>1. envoi' \in [Envois -> Envoi]
    BY <1>0 DEF CommentsTypeOK
<1>2. CommentsTypeOK'
    BY <1>0, <1>1 DEF CommentsTypeOK
<1>3. DrawnFirst' /\ OneLevelThreads'
    BY <1>0 DEF DrawnFirst, OneLevelThreads, Poste
<1>4. \A f \in Envois : envoi'[f] = IF f = e THEN q ELSE envoi[f]
    BY <1>0 DEF CommentsTypeOK
<1>5. ParentStillFits'
    BY <1>0, <1>4 DEF ParentStillFits, Poste
<1> QED BY <1>2, <1>3, <1>5 DEF CommentsInv

\* A deletion and its cascade: what stays keeps its parent and its mix.
LEMMA Cascades ==
  ASSUME CommentsInv, NEW cs \in SUBSET Fils, Emporter(cs), UNCHANGED utilises,
         inscrits' \subseteq inscrits, sets' \subseteq sets,
         \A c \in Fils : Poste(c) /\ commentaire[c].set \notin sets' => c \in cs,
         \A e \in Envois : envoi'[e] \in {envoi[e], Inactif},
         envoi' \in [Envois -> Envoi]
  PROVE  CommentsInv'
<1>0. CommentsTypeOK /\ DrawnFirst /\ ParentStillFits /\ OneLevelThreads
    BY DEF CommentsInv
<1>1. \A c \in Fils : commentaire'[c] =
        IF c \in cs \/ (Poste(c) /\ commentaire[c].parent \in cs) THEN Rien ELSE commentaire[c]
    BY DEF Emporter
<1>2. commentaire' \in [Fils -> Commentaire \cup {Rien}]
    BY <1>0 DEF Emporter, CommentsTypeOK
<1>3. CommentsTypeOK'
    BY <1>0, <1>2 DEF CommentsTypeOK
<1>4. \A c \in Fils : Poste(c)' => /\ Poste(c) /\ commentaire'[c] = commentaire[c]
                                   /\ c \notin cs /\ commentaire[c].parent \notin cs
    BY <1>1 DEF Poste
<1>5. DrawnFirst'
    BY <1>0, <1>4 DEF DrawnFirst
<1>6. Rien \notin cs
    BY CommentsAssumption
<1>7. OneLevelThreads'
  <2> SUFFICES ASSUME NEW c \in Fils, Poste(c)'
               PROVE  /\ commentaire'[c].set \in sets'
                      /\ commentaire'[c].parent # Rien =>
                           /\ commentaire'[commentaire'[c].parent] # Rien
                           /\ commentaire'[commentaire'[c].parent].set = commentaire'[c].set
                           /\ commentaire'[commentaire'[c].parent].parent = Rien
      BY DEF OneLevelThreads, Poste
  <2>1. /\ Poste(c) /\ commentaire'[c] = commentaire[c]
        /\ c \notin cs /\ commentaire[c].parent \notin cs
      BY <1>4
  <2>2. commentaire[c] \in Commentaire
      BY <1>0, <2>1 DEF CommentsTypeOK, Poste
  <2>3. commentaire'[c].set \in sets'
      BY <2>1
  <2>4. ASSUME commentaire[c].parent # Rien
        PROVE  /\ commentaire[c].parent \in Fils
               /\ commentaire'[commentaire[c].parent] = commentaire[commentaire[c].parent]
               /\ Poste(commentaire[c].parent)
               /\ commentaire[commentaire[c].parent].set = commentaire[c].set
               /\ commentaire[commentaire[c].parent].parent = Rien
    <3>1. commentaire[c].parent \in Fils
        BY <2>2, <2>4, CommentaireFields
    <3>2. /\ Poste(commentaire[c].parent)
          /\ commentaire[commentaire[c].parent].set = commentaire[c].set
          /\ commentaire[commentaire[c].parent].parent = Rien
        BY <1>0, <2>1, <2>4 DEF OneLevelThreads
    <3>3. commentaire[commentaire[c].parent].parent \notin cs
        BY <1>6, <3>2
    <3> QED BY <1>1, <2>1, <3>1, <3>2, <3>3
  <2> QED BY <2>1, <2>3, <2>4 DEF Poste
<1>8. ParentStillFits'
  <2> SUFFICES ASSUME NEW e \in Envois
               PROVE  /\ envoi'[e].parent # Rien => envoi'[e].parent \in utilises
                      /\ envoi'[e].etape = "parent" => envoi'[e].parent # Rien
                      /\ envoi'[e].etape = "effacer" => envoi'[e].fil \in Fils
                      /\ envoi'[e].etape = "inserer" /\ envoi'[e].parent # Rien
                           /\ commentaire'[envoi'[e].parent] # Rien =>
                             /\ commentaire'[envoi'[e].parent].set = envoi'[e].set
                             /\ commentaire'[envoi'[e].parent].parent = Rien
      BY DEF ParentStillFits, Poste
  <2>1. CASE envoi'[e] = Inactif
      BY <2>1, InactifIsEnvoi
  <2>2. CASE envoi'[e] = envoi[e]
    <3>1. envoi[e] \in Envoi
        BY <1>0 DEF CommentsTypeOK
    <3>2. envoi[e].parent \in Fils \cup {Rien}
        BY <3>1, EnvoiFields
    <3>3. ASSUME envoi[e].parent # Rien, commentaire'[envoi[e].parent] # Rien
          PROVE  /\ Poste(envoi[e].parent)
                 /\ commentaire'[envoi[e].parent] = commentaire[envoi[e].parent]
        BY <1>4, <3>2, <3>3 DEF Poste
    <3> QED BY <1>0, <2>2, <3>3 DEF ParentStillFits
  <2> QED BY <2>1, <2>2
<1> QED BY <1>3, <1>5, <1>7, <1>8 DEF CommentsInv

\* A comment comes: the identifier is fresh, and its parent is as it was
\* checked.
LEMMA Inserts ==
  ASSUME CommentsInv, NEW e \in Envois, NEW c \in Fils, InsererCommentaire(e, c)
  PROVE  CommentsInv'
<1>0. CommentsTypeOK /\ DrawnFirst /\ ParentStillFits /\ OneLevelThreads
    BY DEF CommentsInv
<1>1. /\ envoi[e] \in Envoi /\ envoi[e].etape = "inserer" /\ c \notin utilises
      /\ UNCHANGED <<inscrits, sets>> /\ envoi' = [envoi EXCEPT ![e] = Inactif]
    BY <1>0 DEF InsererCommentaire, CommentsTypeOK
<1>2. CASE ~(/\ envoi[e].auteur \in inscrits /\ envoi[e].set \in sets
             /\ envoi[e].parent = Rien \/ Poste(envoi[e].parent))
  <2>1. UNCHANGED <<commentaire, utilises>>
      BY <1>2 DEF InsererCommentaire
  <2> QED BY <1>1, <2>1, InactifIsEnvoi, RequestMoves
<1>3. CASE /\ envoi[e].auteur \in inscrits /\ envoi[e].set \in sets
           /\ envoi[e].parent = Rien \/ Poste(envoi[e].parent)
  <2> DEFINE n == [set |-> envoi[e].set, auteur |-> envoi[e].auteur, parent |-> envoi[e].parent]
  <2>1. commentaire' = [commentaire EXCEPT ![c] = n] /\ utilises' = utilises \cup {c}
      BY <1>3 DEF InsererCommentaire
  <2>2. /\ n \in Commentaire /\ n.set = envoi[e].set /\ n.parent = envoi[e].parent
        /\ envoi[e].parent \in Fils \cup {Rien}
      BY <1>0, <1>1, <1>3, EnvoiFields DEF Commentaire, CommentsTypeOK
  <2> HIDE DEF n
  <2>3. /\ ~Poste(c)
        /\ \A k \in Fils : commentaire'[k] = IF k = c THEN n ELSE commentaire[k]
        /\ commentaire' \in [Fils -> Commentaire \cup {Rien}]
      BY <1>0, <1>1, <2>1, <2>2 DEF CommentsTypeOK, DrawnFirst
  <2>4. /\ envoi' \in [Envois -> Envoi]
        /\ \A f \in Envois : envoi'[f] = IF f = e THEN Inactif ELSE envoi[f]
      BY <1>0, <1>1, InactifIsEnvoi DEF CommentsTypeOK
  <2>5. CommentsTypeOK'
      BY <1>0, <1>1, <2>1, <2>3, <2>4 DEF CommentsTypeOK
  <2>6. DrawnFirst'
      BY <1>0, <2>1, <2>3 DEF DrawnFirst, Poste
  <2>7. ASSUME NEW p \in Fils, Poste(p)
        PROVE  p # c /\ commentaire'[p] = commentaire[p]
      BY <2>3, <2>7
  <2>8. OneLevelThreads'
    <3> SUFFICES ASSUME NEW k \in Fils, commentaire'[k] # Rien
                 PROVE  /\ commentaire'[k].set \in sets'
                        /\ commentaire'[k].parent # Rien =>
                             /\ commentaire'[commentaire'[k].parent] # Rien
                             /\ commentaire'[commentaire'[k].parent].set = commentaire'[k].set
                             /\ commentaire'[commentaire'[k].parent].parent = Rien
        BY DEF OneLevelThreads, Poste
    <3>1. CASE k = c
      <4>1. commentaire'[k] = n
          BY <2>3, <3>1
      <4>2. ASSUME n.parent # Rien
            PROVE  /\ n.parent \in Fils /\ Poste(n.parent)
                   /\ commentaire[n.parent].set = n.set
                   /\ commentaire[n.parent].parent = Rien
          BY <1>0, <1>1, <1>3, <2>2, <4>2 DEF ParentStillFits
      <4> QED BY <1>1, <1>3, <2>2, <2>7, <4>1, <4>2 DEF Poste
    <3>2. CASE k # c
      <4>1. commentaire'[k] = commentaire[k] /\ Poste(k)
          BY <2>3, <3>2 DEF Poste
      <4>2. commentaire[k] \in Commentaire
          BY <1>0, <4>1 DEF CommentsTypeOK, Poste
      <4>3. commentaire[k].parent \in Fils \cup {Rien}
          BY <4>2, CommentaireFields
      <4>4. /\ commentaire[k].set \in sets
            /\ commentaire[k].parent # Rien =>
                 /\ Poste(commentaire[k].parent)
                 /\ commentaire[commentaire[k].parent].set = commentaire[k].set
                 /\ commentaire[commentaire[k].parent].parent = Rien
          BY <1>0, <4>1 DEF OneLevelThreads
      <4> QED BY <1>1, <2>7, <4>1, <4>3, <4>4 DEF Poste
    <3> QED BY <3>1, <3>2
  <2>9. ParentStillFits'
    <3> SUFFICES ASSUME NEW f \in Envois
                 PROVE  /\ envoi'[f].parent # Rien => envoi'[f].parent \in utilises'
                        /\ envoi'[f].etape = "parent" => envoi'[f].parent # Rien
                        /\ envoi'[f].etape = "effacer" => envoi'[f].fil \in Fils
                        /\ envoi'[f].etape = "inserer" /\ envoi'[f].parent # Rien
                             /\ commentaire'[envoi'[f].parent] # Rien =>
                               /\ commentaire'[envoi'[f].parent].set = envoi'[f].set
                               /\ commentaire'[envoi'[f].parent].parent = Rien
        BY DEF ParentStillFits, Poste
    <3>1. CASE f = e
        BY <2>4, <3>1, InactifIsEnvoi
    <3>2. CASE f # e
      <4>1. envoi'[f] = envoi[f] /\ envoi[f] \in Envoi
          BY <1>0, <2>4, <3>2 DEF CommentsTypeOK
      <4>2. ASSUME envoi[f].parent # Rien
            PROVE  /\ envoi[f].parent \in Fils /\ envoi[f].parent \in utilises
                   /\ commentaire'[envoi[f].parent] = commentaire[envoi[f].parent]
        <5>1. envoi[f].parent \in Fils /\ envoi[f].parent \in utilises
            BY <1>0, <4>1, <4>2, EnvoiFields DEF ParentStillFits
        <5>2. envoi[f].parent # c
            BY <1>1, <5>1
        <5> QED BY <2>3, <5>1, <5>2
      <4> QED BY <1>0, <2>1, <4>1, <4>2 DEF ParentStillFits, Poste
    <3> QED BY <3>1, <3>2
  <2> QED BY <2>5, <2>6, <2>8, <2>9 DEF CommentsInv
<1> QED BY <1>2, <1>3

\* Each step of a request, and each deletion, keeps the invariant.
LEMMA CommentsInvNext == CommentsInv /\ [CommentsNext]_commentsVars => CommentsInv'
<1> SUFFICES ASSUME CommentsInv, [CommentsNext]_commentsVars PROVE CommentsInv'
    OBVIOUS
<1>0. CommentsTypeOK /\ DrawnFirst /\ ParentStillFits /\ OneLevelThreads
    BY DEF CommentsInv
<1>1. CASE \E e \in Envois : \E u \in Auteurs, s \in Sets, p \in Fils \cup {Rien} :
             Commenter(e, u, s, p)
  <2>1. PICK e \in Envois, u \in Auteurs, s \in Sets, p \in Fils \cup {Rien} :
          Commenter(e, u, s, p)
      BY <1>1
  <2> DEFINE q == [Inactif EXCEPT !.quoi = "creer", !.etape = "mix", !.auteur = u, !.set = s,
                                  !.parent = p]
  <2>2. envoi' = [envoi EXCEPT ![e] = q] /\ (p = Rien \/ p \in utilises)
        /\ UNCHANGED <<inscrits, sets, commentaire, utilises>>
      BY <2>1 DEF Commenter
  <2>3. q \in Envoi /\ q.etape = "mix" /\ q.parent = p
      BY DEF Inactif, Envoi
  <2> HIDE DEF q
  <2> QED BY <2>2, <2>3, RequestMoves
<1>2. CASE \E e \in Envois : LireSet(e)
  <2>1. PICK e \in Envois : LireSet(e)
      BY <1>2
  <2>2. UNCHANGED <<inscrits, sets, commentaire, utilises>> /\ envoi[e] \in Envoi
      BY <1>0, <2>1 DEF LireSet, CommentsTypeOK
  <2>3. CASE envoi[e].set \notin sets
    <3>1. envoi' = [envoi EXCEPT ![e] = Inactif]
        BY <2>1, <2>3 DEF LireSet
    <3> QED BY <2>2, <3>1, InactifIsEnvoi, RequestMoves
  <2>4. CASE envoi[e].set \in sets
    <3> DEFINE t == IF envoi[e].parent = Rien THEN "inserer" ELSE "parent"
               q == [envoi[e] EXCEPT !.etape = t]
    <3>1. envoi' = [envoi EXCEPT ![e] = q]
        BY <2>1, <2>4 DEF LireSet
    <3>a. t \in {"", "mix", "parent", "inserer", "effacer"}
        OBVIOUS
    <3> HIDE DEF t
    <3>2. q \in Envoi /\ q.etape = t /\ q.parent = envoi[e].parent
        BY <2>2, <3>a, EnvoiAtStep
    <3>3. q.parent # Rien => q.parent \in utilises
        BY <1>0, <3>2 DEF ParentStillFits
    <3>4. (q.etape = "parent" => q.parent # Rien) /\ (q.etape = "inserer" => q.parent = Rien)
          /\ q.etape # "effacer"
        BY <3>2 DEF t
    <3> HIDE DEF q
    <3> QED BY <2>2, <3>1, <3>2, <3>3, <3>4, RequestMoves
  <2> QED BY <2>3, <2>4
<1>3. CASE \E e \in Envois : LireParent(e)
  <2>1. PICK e \in Envois : LireParent(e)
      BY <1>3
  <2>2. /\ UNCHANGED <<inscrits, sets, commentaire, utilises>> /\ envoi[e] \in Envoi
        /\ envoi[e].etape = "parent"
      BY <1>0, <2>1 DEF LireParent, CommentsTypeOK
  <2>3. CASE ~ParentConvenable(envoi[e].parent, envoi[e].set)
    <3>1. envoi' = [envoi EXCEPT ![e] = Inactif]
        BY <2>1, <2>3 DEF LireParent
    <3> QED BY <2>2, <3>1, InactifIsEnvoi, RequestMoves
  <2>4. CASE ParentConvenable(envoi[e].parent, envoi[e].set)
    <3> DEFINE q == [envoi[e] EXCEPT !.etape = "inserer"]
    <3>1. envoi' = [envoi EXCEPT ![e] = q]
        BY <2>1, <2>4 DEF LireParent
    <3>2. /\ q \in Envoi /\ q.etape = "inserer" /\ q.parent = envoi[e].parent
          /\ q.set = envoi[e].set
        BY <2>2, EnvoiAtStep
    <3>3. q.parent # Rien => q.parent \in utilises
        BY <1>0, <3>2 DEF ParentStillFits
    <3>4. commentaire[q.parent].set = q.set /\ commentaire[q.parent].parent = Rien
        BY <2>4, <3>2 DEF ParentConvenable
    <3> HIDE DEF q
    <3> QED BY <2>2, <3>1, <3>2, <3>3, <3>4, RequestMoves
  <2> QED BY <2>3, <2>4
<1>4. CASE \E e \in Envois : Retirer(e)
  <2>1. PICK e \in Envois : Retirer(e)
      BY <1>4
  <2>2. UNCHANGED <<inscrits, sets, utilises>> /\ envoi' = [envoi EXCEPT ![e] = Inactif]
      BY <2>1 DEF Retirer
  <2>3. /\ envoi' \in [Envois -> Envoi]
        /\ \A f \in Envois : envoi'[f] \in {envoi[f], Inactif}
      BY <1>0, <2>2, InactifIsEnvoi DEF CommentsTypeOK
  <2>4. CASE Poste(envoi[e].fil)
    <3>1. Emporter({envoi[e].fil}) /\ {envoi[e].fil} \in SUBSET Fils
        BY <1>0, <2>1, <2>4 DEF Retirer, ParentStillFits
    <3>2. \A c \in Fils : Poste(c) => commentaire[c].set \in sets'
        BY <1>0, <2>2 DEF OneLevelThreads
    <3> QED BY <2>2, <2>3, <3>1, <3>2, Cascades
  <2>5. CASE ~Poste(envoi[e].fil)
    <3>1. UNCHANGED commentaire
        BY <2>1, <2>5 DEF Retirer
    <3> QED BY <2>2, <3>1, InactifIsEnvoi, RequestMoves
  <2> QED BY <2>4, <2>5
<1>5. CASE \E e \in Envois : \E c \in Fils : InsererCommentaire(e, c)
    BY <1>5, Inserts
<1>6. CASE \E e \in Envois : \E u \in Auteurs, c \in Fils : DemanderRetrait(e, u, c)
  <2>1. PICK e \in Envois, u \in Auteurs, c \in Fils : DemanderRetrait(e, u, c)
      BY <1>6
  <2> DEFINE q == [Inactif EXCEPT !.quoi = "retirer", !.etape = "effacer", !.auteur = u, !.fil = c]
  <2>2. /\ envoi' = [envoi EXCEPT ![e] = q]
        /\ UNCHANGED <<inscrits, sets, commentaire, utilises>>
      BY <2>1 DEF DemanderRetrait
  <2>3. q \in Envoi /\ q.etape = "effacer" /\ q.fil = c /\ q.parent = Rien
      BY DEF Inactif, Envoi
  <2> HIDE DEF q
  <2> QED BY <2>2, <2>3, RequestMoves
<1>7. CASE \E s \in Sets : SetSupprime(s)
  <2>1. PICK s \in Sets : SetSupprime(s)
      BY <1>7
  <2>2. /\ sets' = sets \ {s} /\ UNCHANGED <<inscrits, envoi, utilises>>
        /\ Emporter({c \in Fils : Poste(c) /\ commentaire[c].set = s})
      BY <2>1 DEF SetSupprime
  <2>3. \A c \in Fils : Poste(c) /\ commentaire[c].set \notin sets' => commentaire[c].set = s
      BY <1>0, <2>2 DEF OneLevelThreads
  <2> QED BY <1>0, <2>2, <2>3, Cascades DEF CommentsTypeOK
<1>8. CASE \E u \in Auteurs : AuteurParti(u)
  <2>1. PICK u \in Auteurs : AuteurParti(u)
      BY <1>8
  <2>2. /\ inscrits' \subseteq inscrits /\ sets' \subseteq sets /\ UNCHANGED <<envoi, utilises>>
        /\ Emporter({c \in Fils : Poste(c) /\ (commentaire[c].auteur = u
                                                 \/ commentaire[c].set \notin sets')})
      BY <2>1 DEF AuteurParti
  <2> QED BY <1>0, <2>2, Cascades DEF CommentsTypeOK
<1>9. CASE UNCHANGED commentsVars
    BY <1>0, <1>9 DEF commentsVars, CommentsInv, CommentsTypeOK, DrawnFirst, ParentStillFits,
                      OneLevelThreads, Poste
<1> QED BY <1>1, <1>2, <1>3, <1>4, <1>5, <1>6, <1>7, <1>8, <1>9 DEF CommentsNext

\* Whatever is deleted between the checks on a parent and the insertion, a reply
\* stands under a first-level comment of the same mix.
THEOREM OneLevelThreadsAlways == CommentsSpec => []OneLevelThreads
<1>1. CommentsInv => OneLevelThreads
    BY DEF CommentsInv
<1> QED BY <1>1, CommentsInvInit, CommentsInvNext, PTL DEF CommentsSpec

(***************************************************************************)
(* Playlists.  An addition remembers who was there when it began and has   *)
(* not left since (its `vus`), and reads the last position after that:     *)
(* what it remembers stands no further than what it has read (ReadLast),   *)
(* because an item that stays never moves.  The position it then takes is  *)
(* beyond all of them.                                                     *)
(***************************************************************************)

Requete == [quoi : {"", "ajouter", "enlever", "supprimer", "modifier"},
            etape : {"", "mix", "derniere", "ecrire"},
            liste : Listes \cup {""}, mix : Morceaux \cup {""},
            derniere : Int, vus : SUBSET Morceaux]

PlaylistsTypeOK ==
  /\ position \in [Listes -> [Morceaux -> -1..MaxPosition]]
  /\ precede \in [Listes -> [Morceaux -> SUBSET Morceaux]]
  /\ ajout \in [Ajouts -> Requete]

\* A request that is under way names a playlist and a mix, and those it
\* remembers are still there.
SeenStay ==
  \A a \in Ajouts :
    /\ ajout[a].etape # "" => ajout[a].liste \in Listes /\ ajout[a].mix \in Morceaux
    /\ \A n \in ajout[a].vus :
         ajout[a].liste \in Listes /\ position[ajout[a].liste][n] >= 0

\* Those an addition remembers stand no further than the last it has read.
ReadLast ==
  \A a \in Ajouts :
    ajout[a].etape = "ecrire" /\ ajout[a].quoi = "ajouter" =>
      /\ ajout[a].derniere >= -1
      /\ \A n \in ajout[a].vus : position[ajout[a].liste][n] <= ajout[a].derniere

\* InsertionOrder, and what it leaves out: those before an item are there.
Ordered ==
  \A l \in Listes, m \in Morceaux : \A n \in precede[l][m] :
    position[l][n] >= 0 /\ position[l][n] < position[l][m]

PlaylistsInv == PlaylistsTypeOK /\ SeenStay /\ ReadLast /\ Ordered

-----------------------------------------------------------------------------
\* A set of positions that is not empty has a last one.
LEMMA HasGreatest ==
  ASSUME NEW S, S # {}, NEW b \in Nat, S \subseteq 0..b
  PROVE  \E p \in S : \A q \in S : q <= p
<1> DEFINE T == {b - p : p \in S}
<1>0. \A p \in S : p \in Nat /\ p <= b
    OBVIOUS
<1>1. T \subseteq Nat /\ T # {}
  <2>1. \A p \in S : b - p \in Nat
      BY <1>0
  <2> QED BY <2>1
<1>2. PICK x \in T : \A y \in T : ~(<<y, x>> \in OpToRel(<, Nat))
    BY <1>1, NatLessThanWellFounded, WFMin
<1>3. \A y \in T : ~(y < x)
    BY <1>1, <1>2 DEF OpToRel
<1>4. PICK p \in S : x = b - p
    OBVIOUS
<1>5. \A q \in S : ~(b - q < b - p)
  <2>1. \A q \in S : b - q \in T
      OBVIOUS
  <2> QED BY <1>3, <1>4, <2>1
<1>6. \A q \in S : q <= p
    BY <1>0, <1>5
<1> QED BY <1>6

LEMMA PositionType ==
  ASSUME PlaylistsTypeOK, NEW l \in Listes, NEW m \in Morceaux
  PROVE  /\ position[l][m] \in Int /\ position[l][m] >= -1 /\ position[l][m] <= MaxPosition
         /\ MaxPosition \in Nat
BY PlaylistsAssumption DEF PlaylistsTypeOK

\* The last position is that of an item, or -1, and no item stands further.
LEMMA DerniereIsLast ==
  ASSUME PlaylistsTypeOK, NEW l \in Listes
  PROVE  /\ DernierePosition(l) \in Int /\ DernierePosition(l) >= -1
         /\ \A m \in Morceaux : position[l][m] <= DernierePosition(l)
<1>1. CASE Dedans(l) = {}
  <2>1. DernierePosition(l) = -1
      BY <1>1 DEF DernierePosition
  <2>2. \A m \in Morceaux : ~(position[l][m] >= 0)
      BY <1>1 DEF Dedans
  <2> QED BY <2>1, <2>2, PositionType
<1>2. CASE Dedans(l) # {}
  <2> DEFINE S == {position[l][m] : m \in Dedans(l)}
  <2>1. S # {} /\ S \subseteq 0..MaxPosition
    <3>1. \A m \in Dedans(l) : position[l][m] \in 0..MaxPosition
        BY PositionType DEF Dedans
    <3> QED BY <1>2, <3>1
  <2>2. \E p \in S : \A q \in S : q <= p
      BY <2>1, HasGreatest, PlaylistsAssumption
  <2>3. \E p \in S : \A m \in Dedans(l) : position[l][m] <= p
      BY <2>2
  <2>4. DernierePosition(l) = CHOOSE p \in S : \A m \in Dedans(l) : position[l][m] <= p
      BY <1>2 DEF DernierePosition
  <2>5. DernierePosition(l) \in S /\ \A m \in Dedans(l) : position[l][m] <= DernierePosition(l)
      BY <2>3, <2>4
  <2>6. DernierePosition(l) \in Int /\ DernierePosition(l) >= 0
      BY <2>1, <2>5, PlaylistsAssumption
  <2>7. \A m \in Morceaux : m \notin Dedans(l) => position[l][m] < 0
      BY PositionType DEF Dedans
  <2> QED BY <2>5, <2>6, <2>7, PositionType
<1> QED BY <1>1, <1>2

LEMMA ReposIsRequete ==
  Repos \in Requete /\ Repos.etape = "" /\ Repos.vus = {}
BY DEF Repos, Requete

LEMMA PlaylistsInvInit == PlaylistsInit => PlaylistsInv
<1> SUFFICES ASSUME PlaylistsInit PROVE PlaylistsInv
    OBVIOUS
<1>1. /\ position = [l \in Listes |-> [m \in Morceaux |-> -1]]
      /\ ajout = [a \in Ajouts |-> Repos]
      /\ precede = [l \in Listes |-> [m \in Morceaux |-> {}]]
    BY DEF PlaylistsInit
<1>2. PlaylistsTypeOK
  <2>1. -1 \in -1..MaxPosition
      BY PlaylistsAssumption
  <2>2. position \in [Listes -> [Morceaux -> -1..MaxPosition]]
      BY <1>1, <2>1
  <2>3. precede \in [Listes -> [Morceaux -> SUBSET Morceaux]]
      BY <1>1
  <2>4. ajout \in [Ajouts -> Requete]
      BY <1>1, ReposIsRequete
  <2> QED BY <2>2, <2>3, <2>4 DEF PlaylistsTypeOK
<1>3. SeenStay /\ ReadLast
    BY <1>1, ReposIsRequete DEF SeenStay, ReadLast
<1>4. Ordered
    BY <1>1 DEF Ordered
<1> QED BY <1>2, <1>3, <1>4 DEF PlaylistsInv

\* One request takes a step, and items stay where they are.
LEMMA AjoutMoves ==
  ASSUME PlaylistsInv, UNCHANGED <<position, precede>>,
         NEW a \in Ajouts, NEW q \in Requete, ajout' = [ajout EXCEPT ![a] = q],
         q.etape # "" => q.liste \in Listes /\ q.mix \in Morceaux,
         \A n \in q.vus : q.liste \in Listes /\ position[q.liste][n] >= 0,
         q.etape = "ecrire" /\ q.quoi = "ajouter" =>
           q.derniere >= -1 /\ \A n \in q.vus : position[q.liste][n] <= q.derniere
  PROVE  PlaylistsInv'
<1>0. PlaylistsTypeOK /\ SeenStay /\ ReadLast /\ Ordered
    BY DEF PlaylistsInv
<1>1. PlaylistsTypeOK'
    BY <1>0 DEF PlaylistsTypeOK
<1>2. \A b \in Ajouts : ajout'[b] = IF b = a THEN q ELSE ajout[b]
    BY <1>0 DEF PlaylistsTypeOK
<1>3. SeenStay'
  <2> SUFFICES ASSUME NEW b \in Ajouts
               PROVE  /\ ajout'[b].etape # "" =>
                           ajout'[b].liste \in Listes /\ ajout'[b].mix \in Morceaux
                      /\ \A n \in ajout'[b].vus :
                           ajout'[b].liste \in Listes /\ position'[ajout'[b].liste][n] >= 0
      BY DEF SeenStay
  <2>1. CASE b = a
      BY <1>2, <2>1
  <2>2. CASE b # a
      BY <1>0, <1>2, <2>2 DEF SeenStay
  <2> QED BY <2>1, <2>2
<1>4. ReadLast'
  <2> SUFFICES ASSUME NEW b \in Ajouts, ajout'[b].etape = "ecrire", ajout'[b].quoi = "ajouter"
               PROVE  /\ ajout'[b].derniere >= -1
                      /\ \A n \in ajout'[b].vus :
                           position'[ajout'[b].liste][n] <= ajout'[b].derniere
      BY DEF ReadLast
  <2>1. CASE b = a
      BY <1>2, <2>1
  <2>2. CASE b # a
      BY <1>0, <1>2, <2>2 DEF ReadLast
  <2> QED BY <2>1, <2>2
<1>5. Ordered'
    BY <1>0 DEF Ordered
<1> QED BY <1>1, <1>3, <1>4, <1>5 DEF PlaylistsInv

\* Items leave, of one playlist or of several; who stays does not move, and
\* nobody counts on who leaves.
LEMMA ItemsLeave ==
  ASSUME PlaylistsInv,
         position' \in [Listes -> [Morceaux -> -1..MaxPosition]],
         precede' \in [Listes -> [Morceaux -> SUBSET Morceaux]],
         ajout' \in [Ajouts -> Requete],
         \A l \in Listes, m \in Morceaux : \A n \in precede'[l][m] :
           /\ n \in precede[l][m]
           /\ position'[l][n] = position[l][n] /\ position'[l][m] = position[l][m],
         \A a \in Ajouts : \/ ajout'[a] = Repos
                          \/ /\ ajout'[a].etape = ajout[a].etape /\ ajout'[a].quoi = ajout[a].quoi
                             /\ ajout'[a].liste = ajout[a].liste /\ ajout'[a].mix = ajout[a].mix
                             /\ ajout'[a].derniere = ajout[a].derniere
                             /\ \A n \in ajout'[a].vus :
                                  /\ n \in ajout[a].vus
                                  /\ position'[ajout[a].liste][n] = position[ajout[a].liste][n]
  PROVE  PlaylistsInv'
<1>0. SeenStay /\ ReadLast /\ Ordered
    BY DEF PlaylistsInv
<1>1. PlaylistsTypeOK'
    BY DEF PlaylistsTypeOK
<1>2. SeenStay'
  <2> SUFFICES ASSUME NEW a \in Ajouts
               PROVE  /\ ajout'[a].etape # "" =>
                           ajout'[a].liste \in Listes /\ ajout'[a].mix \in Morceaux
                      /\ \A n \in ajout'[a].vus :
                           ajout'[a].liste \in Listes /\ position'[ajout'[a].liste][n] >= 0
      BY DEF SeenStay
  <2>1. CASE ajout'[a] = Repos
      BY <2>1, ReposIsRequete
  <2>2. CASE ajout'[a] # Repos
    <3>1. /\ ajout'[a].etape = ajout[a].etape /\ ajout'[a].quoi = ajout[a].quoi
          /\ ajout'[a].liste = ajout[a].liste /\ ajout'[a].mix = ajout[a].mix
          /\ ajout'[a].derniere = ajout[a].derniere
        BY <2>2
    <3>2. \A n \in ajout'[a].vus :
            /\ n \in ajout[a].vus
            /\ position'[ajout[a].liste][n] = position[ajout[a].liste][n]
        BY <2>2
    <3>3. /\ ajout[a].etape # "" => ajout[a].liste \in Listes /\ ajout[a].mix \in Morceaux
          /\ \A n \in ajout[a].vus :
               ajout[a].liste \in Listes /\ position[ajout[a].liste][n] >= 0
        BY <1>0 DEF SeenStay
    <3> QED BY <3>1, <3>2, <3>3
  <2> QED BY <2>1, <2>2
<1>3. ReadLast'
  <2> SUFFICES ASSUME NEW a \in Ajouts, ajout'[a].etape = "ecrire", ajout'[a].quoi = "ajouter"
               PROVE  /\ ajout'[a].derniere >= -1
                      /\ \A n \in ajout'[a].vus :
                           position'[ajout'[a].liste][n] <= ajout'[a].derniere
      BY DEF ReadLast
  <2>1. CASE ajout'[a] = Repos
      BY <2>1, ReposIsRequete
  <2>2. CASE ajout'[a] # Repos
    <3>1. /\ ajout'[a].etape = ajout[a].etape /\ ajout'[a].quoi = ajout[a].quoi
          /\ ajout'[a].liste = ajout[a].liste /\ ajout'[a].mix = ajout[a].mix
          /\ ajout'[a].derniere = ajout[a].derniere
        BY <2>2
    <3>2. \A n \in ajout'[a].vus :
            /\ n \in ajout[a].vus
            /\ position'[ajout[a].liste][n] = position[ajout[a].liste][n]
        BY <2>2
    <3>3. /\ ajout[a].derniere >= -1
          /\ \A n \in ajout[a].vus : position[ajout[a].liste][n] <= ajout[a].derniere
        BY <1>0, <3>1 DEF ReadLast
    <3> QED BY <3>1, <3>2, <3>3
  <2> QED BY <2>1, <2>2
<1>4. Ordered'
    BY <1>0 DEF Ordered
<1> QED BY <1>1, <1>2, <1>3, <1>4 DEF PlaylistsInv

\* What a request remembers is one field of it.
LEMMA VusAlone ==
  ASSUME NEW q \in Requete, NEW v \in SUBSET Morceaux
  PROVE  LET r == [q EXCEPT !.vus = v] IN
         /\ r \in Requete /\ r.vus = v
         /\ r.etape = q.etape /\ r.quoi = q.quoi /\ r.liste = q.liste /\ r.mix = q.mix
         /\ r.derniere = q.derniere
BY DEF Requete

LEMMA RequeteFields ==
  ASSUME NEW q \in Requete
  PROVE  /\ q.liste \in Listes \cup {""} /\ q.mix \in Morceaux \cup {""}
         /\ q.derniere \in Int /\ q.vus \in SUBSET Morceaux
BY DEF Requete

\* The step of a request, with what it has read of the last position.
LEMMA RequeteAtStep ==
  ASSUME NEW q \in Requete, NEW d \in Int
  PROVE  LET r == [[q EXCEPT !.etape = "ecrire"] EXCEPT !.derniere = d] IN
         /\ r \in Requete /\ r.etape = "ecrire" /\ r.derniere = d
         /\ r.quoi = q.quoi /\ r.liste = q.liste /\ r.mix = q.mix /\ r.vus = q.vus
BY DEF Requete

\* Items that leave one playlist: the rest is where it was.
LEMMA SortirKeeps ==
  ASSUME PlaylistsTypeOK, NEW l \in Listes, NEW ms \in SUBSET Morceaux, Sortir(l, ms)
  PROVE  /\ position' \in [Listes -> [Morceaux -> -1..MaxPosition]]
         /\ precede' \in [Listes -> [Morceaux -> SUBSET Morceaux]]
         /\ \A k \in Listes, m \in Morceaux : position'[k][m] =
              IF k = l /\ m \in ms THEN -1 ELSE position[k][m]
         /\ \A k \in Listes, m \in Morceaux : \A n \in precede'[k][m] :
              /\ n \in precede[k][m] /\ n \in Morceaux
              /\ ~(k = l /\ m \in ms) /\ ~(k = l /\ n \in ms)
<1>0. -1 \in -1..MaxPosition
    BY PlaylistsAssumption
<1>1. position' = [position EXCEPT ![l] =
        [m \in Morceaux |-> IF m \in ms THEN -1 ELSE position[l][m]]]
    BY DEF Sortir
<1>2. precede' = [precede EXCEPT ![l] =
        [m \in Morceaux |-> IF m \in ms THEN {} ELSE precede[l][m] \ ms]]
    BY DEF Sortir
<1>3. position \in [Listes -> [Morceaux -> -1..MaxPosition]]
      /\ precede \in [Listes -> [Morceaux -> SUBSET Morceaux]]
    BY DEF PlaylistsTypeOK
<1>4. [m \in Morceaux |-> IF m \in ms THEN -1 ELSE position[l][m]] \in [Morceaux -> -1..MaxPosition]
    BY <1>0, <1>3
<1>5. [m \in Morceaux |-> IF m \in ms THEN {} ELSE precede[l][m] \ ms] \in [Morceaux -> SUBSET Morceaux]
    BY <1>3
<1>6. position' \in [Listes -> [Morceaux -> -1..MaxPosition]]
    BY <1>1, <1>3, <1>4
<1>7. precede' \in [Listes -> [Morceaux -> SUBSET Morceaux]]
    BY <1>2, <1>3, <1>5
<1>8. \A k \in Listes, m \in Morceaux : position'[k][m] =
        IF k = l /\ m \in ms THEN -1 ELSE position[k][m]
    BY <1>1, <1>3
<1>9. \A k \in Listes, m \in Morceaux : precede'[k][m] =
        IF k = l THEN IF m \in ms THEN {} ELSE precede[k][m] \ ms ELSE precede[k][m]
    BY <1>2, <1>3
<1>10. \A k \in Listes, m \in Morceaux : \A n \in precede'[k][m] : n \in Morceaux
    BY <1>7
<1>11. ASSUME NEW k \in Listes, NEW m \in Morceaux, NEW n \in precede'[k][m]
       PROVE  /\ n \in precede[k][m] /\ n \in Morceaux
              /\ ~(k = l /\ m \in ms) /\ ~(k = l /\ n \in ms)
  <2>1. n \in Morceaux
      BY <1>10
  <2>2. CASE k = l
      BY <1>9, <2>1, <2>2
  <2>3. CASE k # l
      BY <1>9, <2>1, <2>3
  <2> QED BY <2>2, <2>3
<1> QED BY <1>6, <1>7, <1>8, <1>11

\* ... and the additions under way forget those that left, and nothing else.
LEMMA OublierKeeps ==
  ASSUME PlaylistsTypeOK, NEW l, NEW ms
  PROVE  \A a \in Ajouts : LET r == Oublier(l, ms)[a] IN
           /\ r \in Requete
           /\ r.etape = ajout[a].etape /\ r.quoi = ajout[a].quoi
           /\ r.liste = ajout[a].liste /\ r.mix = ajout[a].mix
           /\ r.derniere = ajout[a].derniere
           /\ \A n \in r.vus : n \in ajout[a].vus /\ ~(ajout[a].liste = l /\ n \in ms)
<1> SUFFICES ASSUME NEW a \in Ajouts
             PROVE  LET r == Oublier(l, ms)[a] IN
                    /\ r \in Requete
                    /\ r.etape = ajout[a].etape /\ r.quoi = ajout[a].quoi
                    /\ r.liste = ajout[a].liste /\ r.mix = ajout[a].mix
                    /\ r.derniere = ajout[a].derniere
                    /\ \A n \in r.vus : n \in ajout[a].vus /\ ~(ajout[a].liste = l /\ n \in ms)
    OBVIOUS
<1>1. ajout[a] \in Requete /\ ajout[a].vus \ ms \in SUBSET Morceaux
    BY RequeteFields DEF PlaylistsTypeOK
<1>2. Oublier(l, ms)[a] = IF ajout[a].liste = l
                          THEN [ajout[a] EXCEPT !.vus = ajout[a].vus \ ms] ELSE ajout[a]
    BY DEF Oublier
<1>3. CASE ajout[a].liste = l
  <2> DEFINE r == [ajout[a] EXCEPT !.vus = ajout[a].vus \ ms]
  <2>1. /\ r \in Requete /\ r.vus = ajout[a].vus \ ms
        /\ r.etape = ajout[a].etape /\ r.quoi = ajout[a].quoi /\ r.liste = ajout[a].liste
        /\ r.mix = ajout[a].mix /\ r.derniere = ajout[a].derniere
      BY <1>1, VusAlone
  <2>2. Oublier(l, ms)[a] = r
      BY <1>2, <1>3
  <2> HIDE DEF r
  <2> QED BY <2>1, <2>2
<1>4. CASE ajout[a].liste # l
    BY <1>1, <1>2, <1>4
<1> QED BY <1>3, <1>4

\* An addition takes its place: beyond all those it remembers.
LEMMA Adds ==
  ASSUME PlaylistsInv, NEW a \in Ajouts, Ajouter(a)
  PROVE  PlaylistsInv'
<1>0. PlaylistsTypeOK /\ SeenStay /\ ReadLast /\ Ordered
    BY DEF PlaylistsInv
<1> DEFINE l == ajout[a].liste
           m == ajout[a].mix
           p == PositionSuivante(a)
<1>1. /\ ajout[a] \in Requete /\ ajout[a].etape = "ecrire" /\ ajout[a].quoi = "ajouter"
      /\ ajout' = [ajout EXCEPT ![a] = Repos]
    BY <1>0 DEF Ajouter, Clore, PlaylistsTypeOK
<1>2. l \in Listes /\ m \in Morceaux
    BY <1>0, <1>1 DEF SeenStay
<1>3. CASE proprietaire[l] = Personne \/ m \notin enLigne \/ position[l][m] >= 0
  <2>1. UNCHANGED <<position, precede>>
      BY <1>3 DEF Ajouter
  <2> QED BY <1>1, <2>1, ReposIsRequete, AjoutMoves
<1>4. CASE ~(proprietaire[l] = Personne \/ m \notin enLigne \/ position[l][m] >= 0)
  <2>1. /\ p <= MaxPosition
        /\ position' = [position EXCEPT ![l][m] = p]
        /\ precede' = [precede EXCEPT ![l][m] = ajout[a].vus \cap Dedans(l)]
      BY <1>4 DEF Ajouter
  <2>2. /\ ajout[a].derniere \in Int /\ ajout[a].derniere >= -1 /\ p = ajout[a].derniere + 1
        /\ \A n \in ajout[a].vus : position[l][n] <= ajout[a].derniere
      BY <1>0, <1>1, RequeteFields DEF ReadLast, PositionSuivante
  <2>3. p \in 0..MaxPosition /\ p \in -1..MaxPosition
      BY <2>1, <2>2, PlaylistsAssumption
  <2> DEFINE d == ajout[a].vus \cap Dedans(l)
  <2>4. d \in SUBSET Morceaux
      BY DEF Dedans
  <2> HIDE DEF p, d
  <2>5. /\ position' \in [Listes -> [Morceaux -> -1..MaxPosition]]
        /\ \A k \in Listes, n \in Morceaux :
             position'[k][n] = IF k = l /\ n = m THEN p ELSE position[k][n]
      BY <1>0, <1>2, <2>1, <2>3 DEF PlaylistsTypeOK
  <2>6. /\ precede' \in [Listes -> [Morceaux -> SUBSET Morceaux]]
        /\ \A k \in Listes, n \in Morceaux :
             precede'[k][n] = IF k = l /\ n = m THEN d ELSE precede[k][n]
      BY <1>0, <1>2, <2>1, <2>4 DEF PlaylistsTypeOK, d
  <2>7. /\ ajout' \in [Ajouts -> Requete]
        /\ \A b \in Ajouts : ajout'[b] = IF b = a THEN Repos ELSE ajout[b]
      BY <1>0, <1>1, ReposIsRequete DEF PlaylistsTypeOK
  <2>8. ~(position[l][m] >= 0)
      BY <1>4
  <2>9. PlaylistsTypeOK'
      BY <2>5, <2>6, <2>7 DEF PlaylistsTypeOK
  <2>10. ASSUME NEW b \in Ajouts, b # a, NEW n \in ajout[b].vus
         PROVE  /\ ajout[b].liste \in Listes /\ n \in Morceaux
                /\ position[ajout[b].liste][n] >= 0
                /\ position'[ajout[b].liste][n] = position[ajout[b].liste][n]
    <3>1. ajout[b].liste \in Listes /\ n \in Morceaux /\ position[ajout[b].liste][n] >= 0
        BY <1>0, RequeteFields DEF SeenStay, PlaylistsTypeOK
    <3>2. ~(ajout[b].liste = l /\ n = m)
        BY <2>8, <3>1
    <3> QED BY <2>5, <3>1, <3>2
  <2>11. SeenStay'
    <3> SUFFICES ASSUME NEW b \in Ajouts
                 PROVE  /\ ajout'[b].etape # "" =>
                             ajout'[b].liste \in Listes /\ ajout'[b].mix \in Morceaux
                        /\ \A n \in ajout'[b].vus :
                             ajout'[b].liste \in Listes /\ position'[ajout'[b].liste][n] >= 0
        BY DEF SeenStay
    <3>1. CASE b = a
        BY <2>7, <3>1, ReposIsRequete
    <3>2. CASE b # a
      <4>1. ajout'[b] = ajout[b]
          BY <2>7, <3>2
      <4>2. ajout[b].etape # "" => ajout[b].liste \in Listes /\ ajout[b].mix \in Morceaux
          BY <1>0 DEF SeenStay
      <4> QED BY <2>10, <3>2, <4>1, <4>2
    <3> QED BY <3>1, <3>2
  <2>12. ReadLast'
    <3> SUFFICES ASSUME NEW b \in Ajouts, ajout'[b].etape = "ecrire", ajout'[b].quoi = "ajouter"
                 PROVE  /\ ajout'[b].derniere >= -1
                        /\ \A n \in ajout'[b].vus :
                             position'[ajout'[b].liste][n] <= ajout'[b].derniere
        BY DEF ReadLast
    <3>1. b # a /\ ajout'[b] = ajout[b]
        BY <2>7, ReposIsRequete
    <3>2. /\ ajout[b].derniere >= -1
          /\ \A n \in ajout[b].vus : position[ajout[b].liste][n] <= ajout[b].derniere
        BY <1>0, <3>1 DEF ReadLast
    <3> QED BY <2>10, <3>1, <3>2
  <2>13. Ordered'
    <3> SUFFICES ASSUME NEW k \in Listes, NEW x \in Morceaux, NEW n \in precede'[k][x]
                 PROVE  position'[k][n] >= 0 /\ position'[k][n] < position'[k][x]
        BY DEF Ordered
    <3>0. n \in Morceaux
        BY <2>6
    <3>1. CASE k = l /\ x = m
      <4>1. n \in ajout[a].vus /\ position[l][n] >= 0
          BY <2>6, <3>1 DEF d, Dedans
      <4>2. n # m
          BY <2>8, <4>1
      <4>3. position'[k][n] = position[l][n] /\ position'[k][x] = p
          BY <2>5, <3>0, <3>1, <4>2
      <4>4. position[l][n] \in Int
          BY <1>0, <1>2, <3>0, PositionType
      <4> QED BY <2>2, <4>1, <4>3, <4>4
    <3>2. CASE ~(k = l /\ x = m)
      <4>1. n \in precede[k][x] /\ position'[k][x] = position[k][x]
          BY <2>5, <2>6, <3>2
      <4>2. position[k][n] >= 0 /\ position[k][n] < position[k][x]
          BY <1>0, <4>1 DEF Ordered
      <4>3. ~(k = l /\ n = m)
          BY <2>8, <4>2
      <4> QED BY <2>5, <3>0, <4>1, <4>2, <4>3
    <3> QED BY <3>1, <3>2
  <2> QED BY <2>9, <2>11, <2>12, <2>13 DEF PlaylistsInv
<1> QED BY <1>3, <1>4

\* What a request that begins says.
LEMMA NewRequete ==
  ASSUME NEW w \in {"ajouter", "enlever", "supprimer", "modifier"}, NEW e \in {"mix", "ecrire"},
         NEW l \in Listes, NEW m \in Morceaux, NEW v \in SUBSET Morceaux
  PROVE  [quoi |-> w, etape |-> e, liste |-> l, mix |-> m, derniere |-> -1, vus |-> v] \in Requete
<1>1. w \in {"", "ajouter", "enlever", "supprimer", "modifier"}
    OBVIOUS
<1>2. e \in {"", "mix", "derniere", "ecrire"}
    OBVIOUS
<1>3. l \in Listes \cup {""}
    OBVIOUS
<1>4. m \in Morceaux \cup {""}
    OBVIOUS
<1>5. -1 \in Int
    OBVIOUS
<1> QED BY <1>1, <1>2, <1>3, <1>4, <1>5 DEF Requete

\* Items leave one playlist, one request ends, the others forget.
LEMMA LeavesOne ==
  ASSUME PlaylistsInv, NEW a \in Ajouts, NEW l \in Listes, NEW ms \in SUBSET Morceaux,
         Sortir(l, ms), ajout' = [Oublier(l, ms) EXCEPT ![a] = Repos]
  PROVE  PlaylistsInv'
<1>0. PlaylistsTypeOK /\ SeenStay
    BY DEF PlaylistsInv
<1>1. /\ position' \in [Listes -> [Morceaux -> -1..MaxPosition]]
      /\ precede' \in [Listes -> [Morceaux -> SUBSET Morceaux]]
      /\ \A k \in Listes, m \in Morceaux : position'[k][m] =
           IF k = l /\ m \in ms THEN -1 ELSE position[k][m]
      /\ \A k \in Listes, m \in Morceaux : \A n \in precede'[k][m] :
           /\ n \in precede[k][m] /\ n \in Morceaux
           /\ ~(k = l /\ m \in ms) /\ ~(k = l /\ n \in ms)
    BY <1>0, SortirKeeps
<1> DEFINE o == Oublier(l, ms)
<1>2. \A b \in Ajouts : /\ o[b] \in Requete
                        /\ o[b].etape = ajout[b].etape /\ o[b].quoi = ajout[b].quoi
                        /\ o[b].liste = ajout[b].liste /\ o[b].mix = ajout[b].mix
                        /\ o[b].derniere = ajout[b].derniere
                        /\ \A n \in o[b].vus :
                             n \in ajout[b].vus /\ ~(ajout[b].liste = l /\ n \in ms)
    BY <1>0, OublierKeeps
<1>3. o = [b \in Ajouts |-> o[b]]
    BY DEF Oublier
<1> HIDE DEF o
<1>4. /\ \A b \in Ajouts : ajout'[b] = IF b = a THEN Repos ELSE o[b]
      /\ ajout' \in [Ajouts -> Requete]
    BY <1>2, <1>3, ReposIsRequete DEF o
<1>5. ASSUME NEW k \in Listes, NEW m \in Morceaux, NEW n \in precede'[k][m]
      PROVE  /\ n \in precede[k][m]
             /\ position'[k][n] = position[k][n] /\ position'[k][m] = position[k][m]
    BY <1>1
<1>6. ASSUME NEW b \in Ajouts, b # a, NEW n \in o[b].vus
      PROVE  /\ n \in ajout[b].vus
             /\ position'[ajout[b].liste][n] = position[ajout[b].liste][n]
  <2>1. n \in ajout[b].vus /\ ~(ajout[b].liste = l /\ n \in ms)
      BY <1>2
  <2>2. ajout[b].liste \in Listes /\ n \in Morceaux
      BY <1>0, <2>1, RequeteFields DEF SeenStay, PlaylistsTypeOK
  <2> QED BY <1>1, <2>1, <2>2
<1>7. ASSUME NEW b \in Ajouts, ajout'[b] # Repos
      PROVE  /\ ajout'[b].etape = ajout[b].etape /\ ajout'[b].quoi = ajout[b].quoi
             /\ ajout'[b].liste = ajout[b].liste /\ ajout'[b].mix = ajout[b].mix
             /\ ajout'[b].derniere = ajout[b].derniere
             /\ \A n \in ajout'[b].vus :
                  /\ n \in ajout[b].vus
                  /\ position'[ajout[b].liste][n] = position[ajout[b].liste][n]
  <2>1. b # a /\ ajout'[b] = o[b]
      BY <1>4, <1>7
  <2> QED BY <1>2, <1>6, <2>1
<1> QED BY <1>1, <1>4, <1>5, <1>7, ItemsLeave

\* Each step of a request, and each deletion elsewhere, keeps the invariant.
LEMMA PlaylistsInvNext == PlaylistsInv /\ [PlaylistsNext]_playlistsVars => PlaylistsInv'
<1> SUFFICES ASSUME PlaylistsInv, [PlaylistsNext]_playlistsVars PROVE PlaylistsInv'
    OBVIOUS
<1>0. PlaylistsTypeOK /\ SeenStay /\ ReadLast /\ Ordered
    BY DEF PlaylistsInv
<1>r. \A a \in Ajouts : ajout[a] \in Requete
    BY <1>0 DEF PlaylistsTypeOK
<1>1. CASE \E a \in Ajouts : \E u \in Membres, l \in Listes, m \in Morceaux,
             quoi \in {"ajouter", "enlever", "supprimer", "modifier"} : Demander(a, u, l, m, quoi)
  <2>1. PICK a \in Ajouts, u \in Membres, l \in Listes, m \in Morceaux,
             quoi \in {"ajouter", "enlever", "supprimer", "modifier"} : Demander(a, u, l, m, quoi)
      BY <1>1
  <2> DEFINE e == IF quoi = "ajouter" THEN "mix" ELSE "ecrire"
             q == [quoi |-> quoi, etape |-> e, liste |-> l, mix |-> m, derniere |-> -1,
                   vus |-> Dedans(l)]
  <2>2. ajout' = [ajout EXCEPT ![a] = q] /\ UNCHANGED <<position, precede>>
      BY <2>1 DEF Demander
  <2>3. Dedans(l) \in SUBSET Morceaux /\ \A n \in Dedans(l) : position[l][n] >= 0
      BY DEF Dedans
  <2>4. e \in {"mix", "ecrire"} /\ ~(e = "ecrire" /\ quoi = "ajouter")
      OBVIOUS
  <2> HIDE DEF e
  <2>5. /\ q \in Requete /\ q.quoi = quoi /\ q.liste = l /\ q.mix = m /\ q.etape = e
        /\ q.vus = Dedans(l)
      BY <2>3, <2>4, NewRequete
  <2> HIDE DEF q
  <2> QED BY <2>2, <2>3, <2>4, <2>5, AjoutMoves
<1>2. CASE \E a \in Ajouts : LireMorceau(a)
  <2>1. PICK a \in Ajouts : LireMorceau(a)
      BY <1>2
  <2>2. UNCHANGED <<position, precede>> /\ ajout[a].etape = "mix" /\ ajout[a] \in Requete
      BY <1>r, <2>1 DEF LireMorceau
  <2>3. CASE ajout[a].mix \notin enLigne
    <3>1. ajout' = [ajout EXCEPT ![a] = Repos]
        BY <2>1, <2>3 DEF LireMorceau, Clore
    <3> QED BY <2>2, <3>1, ReposIsRequete, AjoutMoves
  <2>4. CASE ajout[a].mix \in enLigne
    <3> DEFINE q == [ajout[a] EXCEPT !.etape = "derniere"]
    <3>1. ajout' = [ajout EXCEPT ![a] = q]
        BY <2>1, <2>4 DEF LireMorceau, Passe
    <3>2. /\ q \in Requete /\ q.etape = "derniere" /\ q.liste = ajout[a].liste
          /\ q.mix = ajout[a].mix /\ q.vus = ajout[a].vus
        BY <2>2 DEF Requete
    <3>3. /\ ajout[a].liste \in Listes /\ ajout[a].mix \in Morceaux
          /\ \A n \in ajout[a].vus : position[ajout[a].liste][n] >= 0
        BY <1>0, <2>2 DEF SeenStay
    <3> HIDE DEF q
    <3> QED BY <2>2, <3>1, <3>2, <3>3, AjoutMoves
  <2> QED BY <2>3, <2>4
<1>3. CASE \E a \in Ajouts : LireDerniere(a)
  <2>1. PICK a \in Ajouts : LireDerniere(a)
      BY <1>3
  <2>2. UNCHANGED <<position, precede>> /\ ajout[a].etape = "derniere" /\ ajout[a] \in Requete
      BY <1>r, <2>1 DEF LireDerniere
  <2> DEFINE d == DernierePosition(ajout[a].liste)
             q == [[ajout[a] EXCEPT !.etape = "ecrire"] EXCEPT !.derniere = d]
  <2>3. /\ ajout[a].liste \in Listes /\ ajout[a].mix \in Morceaux
        /\ \A n \in ajout[a].vus : position[ajout[a].liste][n] >= 0
      BY <1>0, <2>2 DEF SeenStay
  <2>4. d \in Int /\ d >= -1 /\ \A n \in ajout[a].vus : position[ajout[a].liste][n] <= d
      BY <1>0, <2>2, <2>3, DerniereIsLast, RequeteFields
  <2>5. ajout' = [ajout EXCEPT ![a] = q]
      BY <1>0, <2>1 DEF LireDerniere, PlaylistsTypeOK
  <2> HIDE DEF d
  <2>6. ajout[a] \in Requete /\ d \in Int
      BY <2>2, <2>4
  <2>7. /\ q \in Requete /\ q.etape = "ecrire" /\ q.derniere = d /\ q.liste = ajout[a].liste
        /\ q.mix = ajout[a].mix /\ q.vus = ajout[a].vus
      BY <2>6, RequeteAtStep
  <2> HIDE DEF q
  <2> QED BY <2>2, <2>3, <2>4, <2>5, <2>7, AjoutMoves
<1>4. CASE \E a \in Ajouts : Ajouter(a)
    BY <1>4, Adds
<1>5. CASE \E a \in Ajouts : Enlever(a)
  <2>1. PICK a \in Ajouts : Enlever(a)
      BY <1>5
  <2>2. ajout[a].liste \in Listes /\ {ajout[a].mix} \in SUBSET Morceaux
      BY <1>0, <2>1 DEF SeenStay, Enlever
  <2> QED BY <2>1, <2>2, LeavesOne DEF Enlever
<1>6. CASE \E a \in Ajouts : SupprimerListe(a)
  <2>1. PICK a \in Ajouts : SupprimerListe(a)
      BY <1>6
  <2>2. ajout[a].liste \in Listes
      BY <1>0, <2>1 DEF SeenStay, SupprimerListe
  <2>3. CASE proprietaire[ajout[a].liste] = Personne
    <3>1. ajout' = [ajout EXCEPT ![a] = Repos] /\ UNCHANGED <<position, precede>>
        BY <2>1, <2>3 DEF SupprimerListe, Clore
    <3> QED BY <3>1, ReposIsRequete, AjoutMoves
  <2>4. CASE proprietaire[ajout[a].liste] # Personne
    <3>1. /\ Sortir(ajout[a].liste, Morceaux)
          /\ ajout' = [Oublier(ajout[a].liste, Morceaux) EXCEPT ![a] = Repos]
        BY <2>1, <2>4 DEF SupprimerListe
    <3> QED BY <2>2, <3>1, LeavesOne
  <2> QED BY <2>3, <2>4
<1>7. CASE \E a \in Ajouts : Modifier(a)
  <2>1. PICK a \in Ajouts : Modifier(a)
      BY <1>7
  <2>2. ajout' = [ajout EXCEPT ![a] = Repos] /\ UNCHANGED <<position, precede>>
      BY <2>1 DEF Modifier, Clore
  <2> QED BY <2>2, ReposIsRequete, AjoutMoves
<1>8. CASE \E m \in Morceaux : MorceauSupprime(m)
  <2>1. PICK m \in Morceaux : MorceauSupprime(m)
      BY <1>8
  <2>2. /\ position \in [Listes -> [Morceaux -> -1..MaxPosition]]
        /\ precede \in [Listes -> [Morceaux -> SUBSET Morceaux]]
        /\ -1 \in -1..MaxPosition
      BY <1>0, PlaylistsAssumption DEF PlaylistsTypeOK
  <2>3. /\ position' = [l \in Listes |-> [position[l] EXCEPT ![m] = -1]]
        /\ precede' = [l \in Listes |->
             [n \in Morceaux |-> IF n = m THEN {} ELSE precede[l][n] \ {m}]]
        /\ ajout' = [a \in Ajouts |-> [ajout[a] EXCEPT !.vus = ajout[a].vus \ {m}]]
      BY <2>1 DEF MorceauSupprime
  <2>4. position' \in [Listes -> [Morceaux -> -1..MaxPosition]]
      BY <2>2, <2>3
  <2>5. precede' \in [Listes -> [Morceaux -> SUBSET Morceaux]]
      BY <2>2, <2>3
  <2>6. \A l \in Listes, n \in Morceaux : n # m => position'[l][n] = position[l][n]
      BY <2>2, <2>3
  <2>7. \A l \in Listes, n \in Morceaux :
          precede'[l][n] = IF n = m THEN {} ELSE precede[l][n] \ {m}
      BY <2>3
  <2>8. ASSUME NEW l \in Listes, NEW x \in Morceaux, NEW n \in precede'[l][x]
        PROVE  /\ n \in precede[l][x]
               /\ position'[l][n] = position[l][n] /\ position'[l][x] = position[l][x]
    <3>1. x # m /\ n \in precede[l][x] /\ n # m
        BY <2>7
    <3>2. n \in Morceaux
        BY <2>2, <3>1
    <3> QED BY <2>6, <3>1, <3>2
  <2>9. ASSUME NEW a \in Ajouts
        PROVE  /\ ajout'[a] \in Requete
               /\ ajout'[a].etape = ajout[a].etape /\ ajout'[a].quoi = ajout[a].quoi
               /\ ajout'[a].liste = ajout[a].liste /\ ajout'[a].mix = ajout[a].mix
               /\ ajout'[a].derniere = ajout[a].derniere
               /\ ajout'[a].vus = ajout[a].vus \ {m}
    <3> DEFINE r == [ajout[a] EXCEPT !.vus = ajout[a].vus \ {m}]
    <3>1. ajout[a].vus \ {m} \in SUBSET Morceaux
        BY <1>r, RequeteFields
    <3>2. /\ r \in Requete /\ r.vus = ajout[a].vus \ {m}
          /\ r.etape = ajout[a].etape /\ r.quoi = ajout[a].quoi /\ r.liste = ajout[a].liste
          /\ r.mix = ajout[a].mix /\ r.derniere = ajout[a].derniere
        BY <1>r, <3>1, VusAlone
    <3>3. ajout'[a] = r
        BY <2>3
    <3> HIDE DEF r
    <3> QED BY <3>2, <3>3
  <2>10. ajout' \in [Ajouts -> Requete]
      BY <2>3, <2>9
  <2>11. ASSUME NEW a \in Ajouts, NEW n \in ajout'[a].vus
         PROVE  /\ n \in ajout[a].vus
                /\ position'[ajout[a].liste][n] = position[ajout[a].liste][n]
    <3>1. n \in ajout[a].vus /\ n # m
        BY <2>9
    <3>2. ajout[a].liste \in Listes /\ n \in Morceaux
        BY <1>0, <1>r, <3>1, RequeteFields DEF SeenStay
    <3> QED BY <2>6, <3>1, <3>2
  <2> QED BY <2>4, <2>5, <2>8, <2>9, <2>10, <2>11, ItemsLeave
<1>9. CASE \E u \in Membres : MembreParti(u)
  <2>1. PICK u \in Membres : MembreParti(u)
      BY <1>9
  <2> DEFINE S == {l \in Listes : proprietaire[l] = u}
  <2>2. /\ position \in [Listes -> [Morceaux -> -1..MaxPosition]]
        /\ precede \in [Listes -> [Morceaux -> SUBSET Morceaux]]
        /\ -1 \in -1..MaxPosition
      BY <1>0, PlaylistsAssumption DEF PlaylistsTypeOK
  <2>3. /\ position' = [l \in Listes |-> IF l \in S THEN [m \in Morceaux |-> -1] ELSE position[l]]
        /\ precede' = [l \in Listes |-> IF l \in S THEN [m \in Morceaux |-> {}] ELSE precede[l]]
        /\ ajout' = [a \in Ajouts |->
             IF ajout[a].liste \in S THEN [ajout[a] EXCEPT !.vus = {}] ELSE ajout[a]]
      BY <2>1 DEF MembreParti
  <2> HIDE DEF S
  <2>4. position' \in [Listes -> [Morceaux -> -1..MaxPosition]]
      BY <2>2, <2>3
  <2>5. precede' \in [Listes -> [Morceaux -> SUBSET Morceaux]]
      BY <2>2, <2>3
  <2>6. \A l \in Listes : l \notin S => position'[l] = position[l]
      BY <2>3
  <2>7. ASSUME NEW l \in Listes, NEW x \in Morceaux, NEW n \in precede'[l][x]
        PROVE  /\ n \in precede[l][x]
               /\ position'[l][n] = position[l][n] /\ position'[l][x] = position[l][x]
    <3>1. l \notin S
        BY <2>3
    <3> QED BY <2>3, <2>6, <3>1
  <2>8. ASSUME NEW a \in Ajouts
        PROVE  /\ ajout'[a] \in Requete
               /\ ajout'[a].etape = ajout[a].etape /\ ajout'[a].quoi = ajout[a].quoi
               /\ ajout'[a].liste = ajout[a].liste /\ ajout'[a].mix = ajout[a].mix
               /\ ajout'[a].derniere = ajout[a].derniere
               /\ \A n \in ajout'[a].vus : n \in ajout[a].vus /\ ajout[a].liste \notin S
    <3>1. CASE ajout[a].liste \in S
      <4> DEFINE r == [ajout[a] EXCEPT !.vus = {}]
      <4>1. /\ r \in Requete /\ r.vus = {}
            /\ r.etape = ajout[a].etape /\ r.quoi = ajout[a].quoi /\ r.liste = ajout[a].liste
            /\ r.mix = ajout[a].mix /\ r.derniere = ajout[a].derniere
          BY <1>r, VusAlone
      <4>2. ajout'[a] = r
          BY <2>3, <3>1
      <4> HIDE DEF r
      <4> QED BY <4>1, <4>2
    <3>2. CASE ajout[a].liste \notin S
      <4>1. ajout'[a] = ajout[a]
          BY <2>3, <3>2
      <4> QED BY <1>r, <3>2, <4>1
    <3> QED BY <3>1, <3>2
  <2>9. ajout' \in [Ajouts -> Requete]
      BY <2>3, <2>8
  <2>10. ASSUME NEW a \in Ajouts, NEW n \in ajout'[a].vus
         PROVE  /\ n \in ajout[a].vus
                /\ position'[ajout[a].liste][n] = position[ajout[a].liste][n]
    <3>1. n \in ajout[a].vus /\ ajout[a].liste \notin S
        BY <2>8
    <3>2. ajout[a].liste \in Listes
        BY <1>0, <3>1 DEF SeenStay
    <3> QED BY <2>6, <3>1, <3>2
  <2> QED BY <2>4, <2>5, <2>7, <2>8, <2>9, <2>10, ItemsLeave
<1>10. CASE \E u \in Membres, l \in Listes : CreerListe(u, l)
  <2>1. UNCHANGED <<position, ajout, precede>>
      BY <1>10 DEF CreerListe
  <2> QED BY <1>0, <2>1 DEF PlaylistsInv, PlaylistsTypeOK, SeenStay, ReadLast, Ordered
<1>11. CASE UNCHANGED playlistsVars
    BY <1>0, <1>11 DEF playlistsVars, PlaylistsInv, PlaylistsTypeOK, SeenStay, ReadLast, Ordered
<1> QED BY <1>1, <1>2, <1>3, <1>4, <1>5, <1>6, <1>7, <1>8, <1>9, <1>10, <1>11 DEF PlaylistsNext

\* "Insertion order": whatever requests overlap, a mix stands after every mix
\* that was in the playlist when its addition began.
THEOREM InsertionOrderAlways == PlaylistsSpec => []InsertionOrder
<1>1. PlaylistsInv => InsertionOrder
    BY DEF PlaylistsInv, Ordered, InsertionOrder
<1> QED BY <1>1, PlaylistsInvInit, PlaylistsInvNext, PTL DEF PlaylistsSpec

(***************************************************************************)
(* Watched sources, the cap, for any number of additions in flight.        *)
(* The rows are counted before the address is read, so that additions that *)
(* cross may all pass the count; but each of them was let through when the *)
(* rows alone were under the cap, and brings one row at most.  What never  *)
(* goes past the bound is the rows together with the additions under way.  *)
(***************************************************************************)

\* Additions that have passed the count.
EnChemin == {a \in Abonnements : ajouts[a] # "hors"}

RowsAndAdditions ==
  /\ IsFiniteSet(DOMAIN suivies)
  /\ DOMAIN ajouts = Abonnements
  /\ Plafond > 0 => Cardinality(DOMAIN suivies) + Cardinality(EnChemin)
                      < Plafond + Cardinality(Abonnements)

LEMMA SetsAreFinite ==
  ASSUME RowsAndAdditions
  PROVE  /\ IsFiniteSet(EnChemin) /\ Cardinality(EnChemin) \in Nat
         /\ Cardinality(EnChemin) <= Cardinality(Abonnements)
         /\ Cardinality(DOMAIN suivies) \in Nat /\ Cardinality(Abonnements) \in Nat
         /\ Plafond \in Nat
<1>1. IsFiniteSet(Abonnements) /\ Plafond \in Nat
    BY VeilleAssumption
<1>2. EnChemin \in SUBSET Abonnements
    BY DEF EnChemin
<1>3. IsFiniteSet(EnChemin) /\ Cardinality(EnChemin) <= Cardinality(Abonnements)
    BY <1>1, <1>2, FS_Subset
<1>4. IsFiniteSet(DOMAIN suivies)
    BY DEF RowsAndAdditions
<1> QED BY <1>1, <1>3, <1>4, FS_CardinalityType

\* Rows may leave and additions may end: the sum only goes down.
LEMMA FewerRemain ==
  ASSUME RowsAndAdditions, DOMAIN suivies' \in SUBSET DOMAIN suivies,
         DOMAIN ajouts' = Abonnements, EnChemin' \in SUBSET EnChemin
  PROVE  RowsAndAdditions'
<1>1. IsFiniteSet(DOMAIN suivies) /\ IsFiniteSet(EnChemin)
    BY SetsAreFinite DEF RowsAndAdditions
<1>2. /\ IsFiniteSet(DOMAIN suivies')
      /\ Cardinality(DOMAIN suivies') <= Cardinality(DOMAIN suivies)
    BY <1>1, FS_Subset
<1>3. IsFiniteSet(EnChemin') /\ Cardinality(EnChemin') <= Cardinality(EnChemin)
    BY <1>1, FS_Subset
<1>4. Cardinality(DOMAIN suivies') \in Nat /\ Cardinality(EnChemin') \in Nat
    BY <1>2, <1>3, FS_CardinalityType
<1> QED BY <1>2, <1>3, <1>4, SetsAreFinite DEF RowsAndAdditions

LEMMA RowsAndAdditionsInit == VeilleInit => RowsAndAdditions
<1> SUFFICES ASSUME VeilleInit PROVE RowsAndAdditions
    OBVIOUS
<1>1. suivies = <<>> /\ ajouts = [a \in Abonnements |-> "hors"]
    BY DEF VeilleInit
<1>2. DOMAIN suivies = {}
    BY <1>1
<1>3. EnChemin = {}
    BY <1>1 DEF EnChemin
<1>4. Cardinality(Abonnements) \in Nat /\ Plafond \in Nat
    BY VeilleAssumption, FS_CardinalityType
<1> QED BY <1>1, <1>2, <1>3, <1>4, FS_EmptySet DEF RowsAndAdditions

\* An addition that counts goes on only when the rows alone leave room.
LEMMA CountsFirst ==
  ASSUME RowsAndAdditions, NEW a \in Abonnements, Compter(a)
  PROVE  RowsAndAdditions'
<1>1. /\ UNCHANGED suivies
      /\ ajouts' = [ajouts EXCEPT ![a] = IF Plein THEN "hors" ELSE "a_resoudre"]
      /\ DOMAIN ajouts = Abonnements
    BY DEF Compter, RowsAndAdditions
<1>2. CASE Plein
  <2>1. EnChemin' \in SUBSET EnChemin
      BY <1>1, <1>2 DEF EnChemin
  <2> QED BY <1>1, <2>1, FewerRemain
<1>3. CASE ~Plein
  <2>1. EnChemin' \in SUBSET Abonnements
      BY DEF EnChemin
  <2>2. /\ Cardinality(EnChemin') \in Nat
        /\ Cardinality(EnChemin') <= Cardinality(Abonnements)
      BY <2>1, VeilleAssumption, FS_Subset, FS_CardinalityType
  <2>3. ~(Cardinality(DOMAIN suivies) >= Plafond)
      BY <1>3 DEF Plein
  <2> QED BY <1>1, <2>2, <2>3, SetsAreFinite DEF RowsAndAdditions
<1> QED BY <1>2, <1>3

\* The addition that brings a row is over.
LEMMA CreatesOne ==
  ASSUME RowsAndAdditions, NEW a \in Abonnements, Creer(a)
  PROVE  RowsAndAdditions'
<1>1. /\ ajouts' = [ajouts EXCEPT ![a] = "hors"] /\ DOMAIN ajouts = Abonnements
      /\ ajouts[a] \in Adresses
    BY DEF Creer, RowsAndAdditions
<1>2. a \in EnChemin
    BY <1>1, VeilleAssumption DEF EnChemin
<1>3. EnChemin' = EnChemin \ {a}
    BY <1>1 DEF EnChemin
<1>4. CASE Connue(ajouts[a])
  <2>1. UNCHANGED suivies
      BY <1>4 DEF Creer
  <2> QED BY <1>1, <1>3, <2>1, FewerRemain
<1>5. CASE ~Connue(ajouts[a])
  <2>1. DOMAIN suivies' = DOMAIN suivies \cup {emises + 1}
      BY <1>5 DEF Creer, Inscrire
  <2>2. IsFiniteSet(DOMAIN suivies) /\ IsFiniteSet(EnChemin)
      BY SetsAreFinite DEF RowsAndAdditions
  <2>3. /\ IsFiniteSet(DOMAIN suivies')
        /\ \/ Cardinality(DOMAIN suivies') = Cardinality(DOMAIN suivies)
           \/ Cardinality(DOMAIN suivies') = Cardinality(DOMAIN suivies) + 1
      BY <2>1, <2>2, FS_AddElement
  <2>4. Cardinality(EnChemin') = Cardinality(EnChemin) - 1
      BY <1>2, <1>3, <2>2, FS_RemoveElement
  <2> QED BY <1>1, <2>3, <2>4, SetsAreFinite DEF RowsAndAdditions
<1> QED BY <1>4, <1>5

LEMMA RowsAndAdditionsNext ==
  RowsAndAdditions /\ [VeilleNext]_veilleVars => RowsAndAdditions'
<1> SUFFICES ASSUME RowsAndAdditions, [VeilleNext]_veilleVars PROVE RowsAndAdditions'
    OBVIOUS
<1>0. DOMAIN ajouts = Abonnements
    BY DEF RowsAndAdditions
<1>a. ASSUME DOMAIN suivies' \in SUBSET DOMAIN suivies, UNCHANGED ajouts
      PROVE  RowsAndAdditions'
  <2>1. EnChemin' \in SUBSET EnChemin
      BY <1>a DEF EnChemin
  <2> QED BY <1>0, <1>a, <2>1, FewerRemain
<1>1. CASE \E v \in Visites : LireSources(v) \/ Juger(v)
    BY <1>1, <1>a DEF LireSources, Juger
<1>2. CASE \E v \in Visites : \E s \in DOMAIN visites[v] : Marquer(v, s)
  <2>1. DOMAIN suivies' = DOMAIN suivies /\ UNCHANGED ajouts
      BY <1>2 DEF Marquer
  <2> QED BY <1>a, <2>1
<1>3. CASE \E v \in Visites : \E s \in DOMAIN visites[v] : Obtenir(v, s)
    BY <1>3, <1>a DEF Obtenir
<1>4. CASE \E v \in Visites : \E s \in DOMAIN visites[v] : Consigner(v, s)
  <2>1. DOMAIN suivies' = DOMAIN suivies /\ UNCHANGED ajouts
      BY <1>4 DEF Consigner, Noter
  <2> QED BY <1>a, <2>1
<1>5. CASE \E a \in Abonnements : Compter(a)
    BY <1>5, CountsFirst
<1>6. CASE \E a \in Abonnements : Resoudre(a)
  <2>1. PICK a \in Abonnements : Resoudre(a)
      BY <1>6
  <2>2. PICK w : ajouts' = [ajouts EXCEPT ![a] = w]
      BY <2>1 DEF Resoudre
  <2>3. UNCHANGED suivies /\ ajouts[a] = "a_resoudre"
      BY <2>1 DEF Resoudre
  <2>4. EnChemin' \in SUBSET EnChemin
      BY <1>0, <2>2, <2>3 DEF EnChemin
  <2> QED BY <1>0, <2>2, <2>3, <2>4, FewerRemain
<1>7. CASE \E a \in Abonnements : Creer(a)
    BY <1>7, CreatesOne
<1>8. CASE \E s \in DOMAIN suivies : RetirerSource(s)
  <2>1. DOMAIN suivies' \in SUBSET DOMAIN suivies /\ UNCHANGED ajouts
      BY <1>8 DEF RetirerSource, Oter
  <2> QED BY <1>a, <2>1
<1>9. CASE TicVeille
    BY <1>9, <1>a DEF TicVeille
<1>10. CASE UNCHANGED veilleVars
    BY <1>10, <1>a DEF veilleVars
<1> QED BY <1>1, <1>2, <1>3, <1>4, <1>5, <1>6, <1>7, <1>8, <1>9, <1>10 DEF VeilleNext

\* However many additions cross, the sources of an account go past the cap by
\* no more than there are of them beyond the first.
THEOREM SourceCapAlways == VeilleSpec => []SourceCap
<1>1. RowsAndAdditions => SourceCap
    BY SetsAreFinite DEF RowsAndAdditions, SourceCap
<1> QED BY <1>1, RowsAndAdditionsInit, RowsAndAdditionsNext, PTL DEF VeilleSpec

(***************************************************************************)
(* Watched sources, the cache.  The stamp of a row is the last request     *)
(* that left with its stamp recorded, for as long as the row exists; so a  *)
(* visit that reads the row reads that instant, and what it judges too old *)
(* is a whole TTL after it.  No tick comes between the judgement and the   *)
(* stamp; an identifier given once is never given again, so that a visit   *)
(* cannot mistake a new row for the one it read.                           *)
(***************************************************************************)

Rangee == [url : Adresses, lue : Int, erreur : BOOLEAN]

RowsTyped ==
  /\ horloge \in Int /\ emises \in Nat
  /\ suivies \in [DOMAIN suivies -> Rangee]
  /\ DOMAIN suivies \subseteq 1..emises
  /\ DOMAIN visites = Visites

\* The stamp of a row is the last request that left for its source.
StampIsLast ==
  /\ DOMAIN sorties \subseteq DOMAIN suivies
  /\ \A s \in DOMAIN sorties : sorties[s] = suivies[s].lue

\* A visit holds rows it has read, or refreshes: never both.
JudgesAll(v) ==
  (\E s \in DOMAIN visites[v] : visites[v][s].etape = "a_juger")
    => \A s \in DOMAIN visites[v] : visites[v][s].etape = "a_juger"

\* What a visit has read of a row was its last request when it was read; what
\* it is to refresh was too old.
HoldsLast(n) ==
  /\ n.etape = "a_juger" => n.lue \in Int /\ (n.connue = Jamais \/ n.connue = n.lue)
  /\ n.etape = "a_marquer" => n.connue = Jamais \/ (n.connue \in Int /\ horloge >= n.connue + Ttl)

VisitHolds(v) == JudgesAll(v) /\ \A s \in DOMAIN visites[v] : HoldsLast(visites[v][s])

CacheInv == RowsTyped /\ StampIsLast /\ \A v \in Visites : VisitHolds(v)

LEMMA CacheInvInit == VeilleInit => CacheInv
<1> SUFFICES ASSUME VeilleInit PROVE CacheInv
    OBVIOUS
<1>1. /\ suivies = <<>> /\ sorties = <<>> /\ emises = 0 /\ horloge = 0
      /\ visites = [v \in Visites |-> <<>>]
    BY DEF VeilleInit
<1>2. DOMAIN suivies = {} /\ DOMAIN sorties = {}
    BY <1>1
<1>3. RowsTyped
  <2>1. suivies \in [DOMAIN suivies -> Rangee]
      BY <1>1, <1>2
  <2> QED BY <1>1, <1>2, <2>1 DEF RowsTyped
<1>4. StampIsLast
    BY <1>2 DEF StampIsLast
<1>5. ASSUME NEW v \in Visites PROVE VisitHolds(v)
  <2>1. DOMAIN visites[v] = {}
      BY <1>1
  <2> QED BY <2>1 DEF VisitHolds, JudgesAll
<1> QED BY <1>3, <1>4, <1>5 DEF CacheInv

\* The refreshes of one visit move; the rows and the clock stay.
LEMMA VisitMoves ==
  ASSUME CacheInv, NEW v \in Visites, NEW suite,
         visites' = [visites EXCEPT ![v] = suite], UNCHANGED horloge,
         RowsTyped', StampIsLast',
         \A s \in DOMAIN suite : HoldsLast(suite[s]),
         (\E s \in DOMAIN suite : suite[s].etape = "a_juger")
           => \A s \in DOMAIN suite : suite[s].etape = "a_juger"
  PROVE  CacheInv'
<1>1. ASSUME NEW w \in Visites PROVE VisitHolds(w)'
  <2>1. DOMAIN visites = Visites /\ VisitHolds(w)
      BY DEF CacheInv, RowsTyped
  <2>2. CASE w = v
    <3>1. visites'[w] = suite
        BY <2>1, <2>2
    <3> QED BY <3>1 DEF VisitHolds, JudgesAll, HoldsLast
  <2>3. CASE w # v
    <3>1. visites'[w] = visites[w]
        BY <2>1, <2>3
    <3> QED BY <2>1, <3>1 DEF VisitHolds, JudgesAll, HoldsLast
  <2> QED BY <2>2, <2>3
<1> QED BY <1>1 DEF CacheInv

\* A refresh past its judgement goes on, or is over.
LEMMA RefreshMoves ==
  ASSUME CacheInv, NEW v \in Visites, NEW s \in DOMAIN visites[v],
         visites[v][s].etape # "a_juger", UNCHANGED horloge,
         RowsTyped', StampIsLast',
         \/ \E vers \in {"partie", "lue", "en_echec"} :
              visites' = [visites EXCEPT ![v] = [visites[v] EXCEPT ![s] = [etape |-> vers]]]
         \/ visites' = [visites EXCEPT ![v] = Oter(visites[v], s)]
  PROVE  CacheInv'
<1>1. VisitHolds(v) /\ \A x \in DOMAIN visites[v] : visites[v][x].etape # "a_juger"
    BY DEF CacheInv, VisitHolds, JudgesAll
<1>2. ASSUME NEW vers \in {"partie", "lue", "en_echec"},
             visites' = [visites EXCEPT ![v] = [visites[v] EXCEPT ![s] = [etape |-> vers]]]
      PROVE  CacheInv'
  <2> DEFINE suite == [visites[v] EXCEPT ![s] = [etape |-> vers]]
  <2>1. ASSUME NEW x \in DOMAIN suite PROVE HoldsLast(suite[x]) /\ suite[x].etape # "a_juger"
    <3>1. CASE x = s
      <4>1. suite[x].etape = vers
          BY <3>1
      <4> QED BY <4>1, <1>2 DEF HoldsLast
    <3>2. CASE x # s
        BY <1>1, <3>2 DEF VisitHolds
    <3> QED BY <3>1, <3>2
  <2>2. visites' = [visites EXCEPT ![v] = suite]
      BY <1>2
  <2> HIDE DEF suite
  <2> QED BY <2>1, <2>2, VisitMoves
<1>3. CASE visites' = [visites EXCEPT ![v] = Oter(visites[v], s)]
  <2> DEFINE suite == Oter(visites[v], s)
  <2>1. ASSUME NEW x \in DOMAIN suite PROVE HoldsLast(suite[x]) /\ suite[x].etape # "a_juger"
      BY <1>1 DEF VisitHolds, Oter
  <2> HIDE DEF suite
  <2>2. visites' = [visites EXCEPT ![v] = suite]
      BY <1>3 DEF suite
  <2> QED BY <2>1, <2>2, VisitMoves
<1> QED BY <1>2, <1>3

\* The rows change and no visit does.
LEMMA VisitsStay ==
  ASSUME CacheInv, UNCHANGED <<visites, horloge>>, RowsTyped', StampIsLast'
  PROVE  CacheInv'
BY DEF CacheInv, VisitHolds, JudgesAll, HoldsLast

\* An error noted on a row leaves its stamp.
LEMMA NotingKeepsStamps ==
  ASSUME CacheInv, NEW s, NEW erreur \in BOOLEAN, Noter(s, erreur),
         UNCHANGED <<emises, horloge, sorties>>, DOMAIN visites' = Visites
  PROVE  RowsTyped' /\ StampIsLast'
<1>0. RowsTyped /\ StampIsLast
    BY DEF CacheInv
<1>1. CASE s \in DOMAIN suivies /\ suivies' = [suivies EXCEPT ![s].erreur = erreur]
  <2>1. /\ DOMAIN suivies' = DOMAIN suivies
        /\ \A x \in DOMAIN suivies : suivies'[x] \in Rangee /\ suivies'[x].lue = suivies[x].lue
      BY <1>0, <1>1 DEF RowsTyped, Rangee
  <2>2. suivies' \in [DOMAIN suivies' -> Rangee]
      BY <1>1, <2>1
  <2> QED BY <1>0, <2>1, <2>2 DEF RowsTyped, StampIsLast
<1>2. CASE suivies' = suivies
    BY <1>0, <1>2 DEF RowsTyped, StampIsLast
<1> QED BY <1>1, <1>2 DEF Noter

LEMMA CacheInvNext == CacheInv /\ [VeilleNext]_veilleVars => CacheInv'
<1> SUFFICES ASSUME CacheInv, [VeilleNext]_veilleVars PROVE CacheInv'
    OBVIOUS
<1>0. RowsTyped /\ StampIsLast /\ \A v \in Visites : VisitHolds(v)
    BY DEF CacheInv
<1>a. UNCHANGED <<suivies, emises, horloge, sorties>> /\ DOMAIN visites' = Visites
        => RowsTyped' /\ StampIsLast'
    BY <1>0 DEF RowsTyped, StampIsLast
<1>1. ASSUME NEW v \in Visites, LireSources(v) PROVE CacheInv'
  <2> DEFINE suite == [s \in DOMAIN suivies |->
                         [etape |-> "a_juger", lue |-> suivies[s].lue,
                          connue |-> IF s \in DOMAIN sorties THEN sorties[s] ELSE Jamais]]
  <2>1. visites' = [visites EXCEPT ![v] = suite]
      BY <1>1 DEF LireSources
  <2>2. RowsTyped' /\ StampIsLast' /\ UNCHANGED horloge
    <3>1. UNCHANGED <<suivies, emises, horloge, sorties>>
        BY <1>1 DEF LireSources
    <3>2. DOMAIN visites' = Visites
        BY <1>0, <2>1 DEF RowsTyped
    <3> QED BY <1>a, <3>1, <3>2
  <2>3. ASSUME NEW s \in DOMAIN suite PROVE HoldsLast(suite[s]) /\ suite[s].etape = "a_juger"
    <3>1. suivies[s].lue \in Int
        BY <1>0 DEF RowsTyped, Rangee
    <3>2. s \in DOMAIN sorties => sorties[s] = suivies[s].lue
        BY <1>0 DEF StampIsLast
    <3> QED BY <3>1, <3>2 DEF HoldsLast
  <2> HIDE DEF suite
  <2> QED BY <2>1, <2>2, <2>3, VisitMoves
<1>2. ASSUME NEW v \in Visites, Juger(v) PROVE CacheInv'
  <2> DEFINE suite == [s \in {x \in DOMAIN visites[v] : ~Fraiche(visites[v][x].lue)} |->
                         [etape |-> "a_marquer", connue |-> visites[v][s].connue]]
  <2>1. visites' = [visites EXCEPT ![v] = suite]
      BY <1>2 DEF Juger
  <2>2. RowsTyped' /\ StampIsLast' /\ UNCHANGED horloge
    <3>1. UNCHANGED <<suivies, emises, horloge, sorties>>
        BY <1>2 DEF Juger
    <3>2. DOMAIN visites' = Visites
        BY <1>0, <2>1 DEF RowsTyped
    <3> QED BY <1>a, <3>1, <3>2
  <2>3. ASSUME NEW s \in DOMAIN suite PROVE HoldsLast(suite[s]) /\ suite[s].etape = "a_marquer"
    <3>1. s \in DOMAIN visites[v] /\ ~Fraiche(visites[v][s].lue)
        OBVIOUS
    <3>2. visites[v][s].etape = "a_juger" /\ HoldsLast(visites[v][s])
        BY <1>0, <1>2, <3>1 DEF Juger, VisitHolds, JudgesAll
    <3>3. /\ visites[v][s].lue \in Int
          /\ visites[v][s].connue = Jamais \/ visites[v][s].connue = visites[v][s].lue
        BY <3>2 DEF HoldsLast
    <3>4. horloge \in Int /\ Ttl \in Int
        BY <1>0, VeilleAssumption DEF RowsTyped
    <3>5. visites[v][s].connue # Jamais => horloge >= visites[v][s].connue + Ttl
        BY <3>1, <3>3, <3>4 DEF Fraiche
    <3>6. suite[s].etape = "a_marquer" /\ suite[s].connue = visites[v][s].connue
        OBVIOUS
    <3> QED BY <3>3, <3>5, <3>6 DEF HoldsLast
  <2> HIDE DEF suite
  <2> QED BY <2>1, <2>2, <2>3, VisitMoves
<1>3. ASSUME NEW v \in Visites, NEW s \in DOMAIN visites[v], Marquer(v, s) PROVE CacheInv'
  <2>1. /\ visites[v][s].etape = "a_marquer" /\ UNCHANGED <<emises, horloge>>
        /\ visites' = [visites EXCEPT ![v] = [visites[v] EXCEPT ![s] = [etape |-> "partie"]]]
      BY <1>3 DEF Marquer, Avancer
  <2>2. DOMAIN visites' = Visites
      BY <1>0, <2>1 DEF RowsTyped
  <2>3. CASE /\ s \in DOMAIN suivies /\ suivies' = [suivies EXCEPT ![s].lue = horloge]
             /\ sorties' = Inscrire(sorties, s, horloge)
    <3>1. /\ DOMAIN suivies' = DOMAIN suivies
          /\ \A x \in DOMAIN suivies :
               suivies'[x] \in Rangee
                 /\ suivies'[x].lue = IF x = s THEN horloge ELSE suivies[x].lue
        BY <1>0, <2>3 DEF RowsTyped, Rangee
    <3>2. suivies' \in [DOMAIN suivies' -> Rangee]
        BY <2>3, <3>1
    <3>3. RowsTyped'
        BY <1>0, <2>1, <2>2, <3>1, <3>2 DEF RowsTyped
    <3>4. /\ DOMAIN sorties' = DOMAIN sorties \cup {s}
          /\ \A x \in DOMAIN sorties' : sorties'[x] = IF x = s THEN horloge ELSE sorties[x]
        BY <2>3 DEF Inscrire
    <3>5. StampIsLast'
        BY <1>0, <2>3, <3>1, <3>4 DEF StampIsLast
    <3> QED BY <2>1, <3>3, <3>5, RefreshMoves
  <2>4. CASE suivies' = suivies /\ sorties' = Oter(sorties, s)
    <3>1. RowsTyped'
        BY <1>0, <2>1, <2>2, <2>4 DEF RowsTyped
    <3>2. StampIsLast'
        BY <1>0, <2>4 DEF StampIsLast, Oter
    <3> QED BY <2>1, <3>1, <3>2, RefreshMoves
  <2> QED BY <1>3, <2>3, <2>4 DEF Marquer
<1>4. ASSUME NEW v \in Visites, NEW s \in DOMAIN visites[v], Obtenir(v, s) PROVE CacheInv'
  <2>1. /\ visites[v][s].etape = "partie" /\ UNCHANGED <<suivies, emises, horloge, sorties>>
        /\ \E vers \in {"partie", "lue", "en_echec"} :
             visites' = [visites EXCEPT ![v] = [visites[v] EXCEPT ![s] = [etape |-> vers]]]
      BY <1>4 DEF Obtenir, Avancer
  <2>2. DOMAIN visites' = Visites
      BY <1>0, <2>1 DEF RowsTyped
  <2> QED BY <1>a, <2>1, <2>2, RefreshMoves
<1>5. ASSUME NEW v \in Visites, NEW s \in DOMAIN visites[v], Consigner(v, s) PROVE CacheInv'
  <2>1. /\ visites[v][s].etape # "a_juger" /\ UNCHANGED <<emises, horloge, sorties>>
        /\ visites' = [visites EXCEPT ![v] = Oter(visites[v], s)]
        /\ \E erreur \in BOOLEAN : Noter(s, erreur)
      BY <1>5 DEF Consigner, Rendre
  <2>2. DOMAIN visites' = Visites
      BY <1>0, <2>1 DEF RowsTyped
  <2>3. RowsTyped' /\ StampIsLast'
      BY <2>1, <2>2, NotingKeepsStamps
  <2> QED BY <2>1, <2>3, RefreshMoves
<1>6. ASSUME NEW a \in Abonnements, Compter(a) \/ Resoudre(a) PROVE CacheInv'
  <2>1. UNCHANGED <<suivies, emises, visites, horloge, sorties>>
      BY <1>6 DEF Compter, Resoudre
  <2> QED BY <1>0, <1>a, <2>1, VisitsStay DEF RowsTyped
<1>7. ASSUME NEW a \in Abonnements, Creer(a) PROVE CacheInv'
  <2>1. UNCHANGED <<visites, horloge, sorties>> /\ ajouts[a] \in Adresses
      BY <1>7 DEF Creer
  <2>2. CASE UNCHANGED <<suivies, emises>>
      BY <1>0, <1>a, <2>1, <2>2, VisitsStay DEF RowsTyped
  <2>3. CASE /\ emises' = emises + 1
             /\ suivies' = Inscrire(suivies, emises + 1,
                              [url |-> ajouts[a], lue |-> horloge, erreur |-> FALSE])
    <3> DEFINE n == [url |-> ajouts[a], lue |-> horloge, erreur |-> FALSE]
    <3>1. n \in Rangee
        BY <1>0, <2>1 DEF RowsTyped, Rangee
    <3> HIDE DEF n
    <3>2. emises + 1 \notin DOMAIN suivies /\ emises \in Nat
        BY <1>0 DEF RowsTyped
    <3>3. suivies' = Inscrire(suivies, emises + 1, n)
        BY <2>3 DEF n
    <3>4. /\ DOMAIN suivies' = DOMAIN suivies \cup {emises + 1}
          /\ \A x \in DOMAIN suivies : suivies'[x] = suivies[x]
          /\ suivies'[emises + 1] = n
        BY <3>2, <3>3 DEF Inscrire
    <3>5. \A x \in DOMAIN suivies' : suivies'[x] \in Rangee
        BY <1>0, <3>1, <3>4 DEF RowsTyped
    <3>6. suivies' \in [DOMAIN suivies' -> Rangee]
        BY <3>3, <3>5 DEF Inscrire
    <3>7. RowsTyped'
      <4>1. DOMAIN suivies' \subseteq 1..emises' /\ emises' \in Nat
          BY <1>0, <2>3, <3>2, <3>4 DEF RowsTyped
      <4> QED BY <1>0, <2>1, <3>6, <4>1 DEF RowsTyped
    <3>8. StampIsLast'
        BY <1>0, <2>1, <3>2, <3>4 DEF StampIsLast
    <3> QED BY <2>1, <3>7, <3>8, VisitsStay
  <2> QED BY <1>7, <2>2, <2>3 DEF Creer
<1>8. ASSUME NEW s \in DOMAIN suivies, RetirerSource(s) PROVE CacheInv'
  <2>1. /\ UNCHANGED <<emises, visites, horloge>>
        /\ suivies' = Oter(suivies, s) /\ sorties' = Oter(sorties, s)
      BY <1>8 DEF RetirerSource
  <2>2. \A x \in DOMAIN suivies' : suivies'[x] \in Rangee
      BY <1>0, <2>1 DEF RowsTyped, Oter
  <2>3. suivies' \in [DOMAIN suivies' -> Rangee]
      BY <2>1, <2>2 DEF Oter
  <2>4. RowsTyped'
      BY <1>0, <2>1, <2>3 DEF RowsTyped, Oter
  <2>5. StampIsLast'
      BY <1>0, <2>1 DEF StampIsLast, Oter
  <2> QED BY <2>1, <2>4, <2>5, VisitsStay
<1>9. CASE TicVeille
  <2>1. /\ UNCHANGED <<suivies, emises, visites, ajouts, sorties>> /\ horloge' = horloge + 1
        /\ \A v \in Visites : \A s \in DOMAIN visites[v] : visites[v][s].etape # "a_marquer"
      BY <1>9 DEF TicVeille
  <2>2. RowsTyped' /\ StampIsLast'
      BY <1>0, <2>1 DEF RowsTyped, StampIsLast
  <2>3. ASSUME NEW v \in Visites PROVE VisitHolds(v)'
      BY <1>0, <2>1 DEF VisitHolds, JudgesAll, HoldsLast
  <2> QED BY <2>2, <2>3 DEF CacheInv
<1>10. CASE UNCHANGED veilleVars
    BY <1>0, <1>a, <1>10, VisitsStay DEF veilleVars, RowsTyped
<1> QED BY <1>1, <1>2, <1>3, <1>4, <1>5, <1>6, <1>7, <1>8, <1>9, <1>10 DEF VeilleNext

\* Once a request has left for a source with its stamp recorded, no visit
\* made after it sends another within the TTL: for every number of visits,
\* of additions and of removals that cross, and every TTL.
THEOREM CacheClosesAlways == VeilleSpec => []CacheCloses
<1>1. CacheInv => CacheCloses
    BY DEF CacheInv, VisitHolds, HoldsLast, CacheCloses
<1> QED BY <1>1, CacheInvInit, CacheInvNext, PTL DEF VeilleSpec

(***************************************************************************)
(* Outgoing requests.  Every exchange has its timer from before it leaves  *)
(* to its last byte, so it lasts Delai at most; what bounds the call is    *)
(* how many exchanges can still follow the one in progress.                *)
(***************************************************************************)

\* The exchanges that can still be needed, the one in progress included.
Rang(a, t, e) ==
  IF e = "page" THEN 3
  ELSE IF a = "veille" /\ t = 1 /\ e \in {"flux", "compte_mixcloud"} THEN 4
  ELSE IF e \in {"archive", "discussion", "grille"} THEN 2
  ELSE 1

CallTyped ==
  /\ appel \in {"aucun", "import", "veille", "pochette"}
  /\ echange \in Echanges \cup {"aucun"}

TimesTyped == tour \in {1, 2} /\ attente \in Nat /\ age \in 0..Delai

\* Which exchanges a call can be in.
ChainFits ==
  /\ appel = "aucun" => echange = "aucun" /\ attente = 0
  /\ appel = "pochette" => echange \in {"aucun", "image"}
  /\ appel = "import" => echange \notin {"page", "grille"}

\* An exchange in progress has its timer, and what the call has waited leaves
\* room for the exchanges that can still come.
LeavesRoom ==
  /\ echange # "aucun" => armee /\ (attente - age) + Delai * Rang(appel, tour, echange) <= Delai * EchangesAuPlus
  /\ attente <= Delai * EchangesAuPlus

OutgoingInv == CallTyped /\ TimesTyped /\ ChainFits /\ LeavesRoom

\* What a body may turn out to be: an answer, or one of the four exchanges
\* that only three others lead to.
Verdicts ==
  {"mix", "liste", "sans_page", "panne", "absent", "refus", "sans_flux", "flux_declare", "pochette"}

LeadsTo(e, r) ==
  /\ \/ r \in Verdicts
     \/ e = "archive" /\ r = "archive_fichier"
     \/ e = "discussion" /\ r \in {"fiche_mixcloud", "oembed"}
     \/ e = "grille" /\ r = "album"
  /\ r = "sans_page" => e \in {"flux", "compte_mixcloud"}
  /\ r = "flux_declare" => e = "page"

TableFits(table) == \A e \in DOMAIN table : \A r \in table[e] : LeadsTo(e, r)

LEMMA TablesJoin ==
  ASSUME NEW f, NEW g, TableFits(f), TableFits(g)
  PROVE  TableFits(f ++ g) /\ DOMAIN (f ++ g) = DOMAIN f \cup DOMAIN g
BY DEF TableFits, ++

LEMMA SuitesFit ==
  /\ TableFits(Suites)
  /\ Echanges = {"fiche_mixcloud", "compte_mixcloud", "oembed", "archive", "archive_fichier",
                 "ouiedire", "brain", "lyl_episode", "lyl_emission", "discussion", "flux",
                 "flux_episode", "grille", "album", "page", "image"}
<1>1. TableFits(MixcloudSuites) /\ DOMAIN MixcloudSuites = {"fiche_mixcloud", "compte_mixcloud"}
    BY DEF MixcloudSuites, TableFits, LeadsTo, Verdicts
<1>2. TableFits(SoundcloudSuites) /\ DOMAIN SoundcloudSuites = {"oembed"}
    BY DEF SoundcloudSuites, TableFits, LeadsTo, Verdicts
<1>3. TableFits(ArchiveSuites) /\ DOMAIN ArchiveSuites = {"archive", "archive_fichier"}
    BY DEF ArchiveSuites, TableFits, LeadsTo, Verdicts
<1>4. TableFits(OuiedireSuites) /\ DOMAIN OuiedireSuites = {"ouiedire"}
    BY DEF OuiedireSuites, TableFits, LeadsTo, Verdicts
<1>5. TableFits(BrainSuites) /\ DOMAIN BrainSuites = {"brain"}
    BY DEF BrainSuites, TableFits, LeadsTo, Verdicts
<1>6. TableFits(LylSuites) /\ DOMAIN LylSuites = {"lyl_episode", "lyl_emission"}
    BY DEF LylSuites, TableFits, LeadsTo, Verdicts
<1>7. TableFits(ForumSuites) /\ DOMAIN ForumSuites = {"discussion"}
    BY DEF ForumSuites, TableFits, LeadsTo, Verdicts
<1>8. TableFits(PodcastSuites) /\ DOMAIN PodcastSuites = {"flux", "flux_episode"}
    BY DEF PodcastSuites, TableFits, LeadsTo, Verdicts
<1>9. TableFits(BandcampSuites) /\ DOMAIN BandcampSuites = {"grille", "album"}
    BY DEF BandcampSuites, TableFits, LeadsTo, Verdicts
<1>10. TableFits(PageSuites) /\ DOMAIN PageSuites = {"page"}
    BY DEF PageSuites, TableFits, LeadsTo, Verdicts
<1>11. TableFits(CoverSuites) /\ DOMAIN CoverSuites = {"image"}
    BY DEF CoverSuites, TableFits, LeadsTo, Verdicts
<1> DEFINE A == MixcloudSuites ++ SoundcloudSuites
           B == A ++ ArchiveSuites
           C == B ++ OuiedireSuites
           D == C ++ BrainSuites
           E == D ++ LylSuites
           F == E ++ ForumSuites
           G == F ++ PodcastSuites
           H == G ++ BandcampSuites
           I == H ++ PageSuites
<1>20. Suites = I ++ CoverSuites
    BY DEF Suites
<1>21. TableFits(A) /\ DOMAIN A = DOMAIN MixcloudSuites \cup DOMAIN SoundcloudSuites
    BY <1>1, <1>2, TablesJoin
<1> HIDE DEF A
<1>22. TableFits(B) /\ DOMAIN B = DOMAIN A \cup DOMAIN ArchiveSuites
    BY <1>21, <1>3, TablesJoin
<1> HIDE DEF B
<1>23. TableFits(C) /\ DOMAIN C = DOMAIN B \cup DOMAIN OuiedireSuites
    BY <1>22, <1>4, TablesJoin
<1> HIDE DEF C
<1>24. TableFits(D) /\ DOMAIN D = DOMAIN C \cup DOMAIN BrainSuites
    BY <1>23, <1>5, TablesJoin
<1> HIDE DEF D
<1>25. TableFits(E) /\ DOMAIN E = DOMAIN D \cup DOMAIN LylSuites
    BY <1>24, <1>6, TablesJoin
<1> HIDE DEF E
<1>26. TableFits(F) /\ DOMAIN F = DOMAIN E \cup DOMAIN ForumSuites
    BY <1>25, <1>7, TablesJoin
<1> HIDE DEF F
<1>27. TableFits(G) /\ DOMAIN G = DOMAIN F \cup DOMAIN PodcastSuites
    BY <1>26, <1>8, TablesJoin
<1> HIDE DEF G
<1>28. TableFits(H) /\ DOMAIN H = DOMAIN G \cup DOMAIN BandcampSuites
    BY <1>27, <1>9, TablesJoin
<1> HIDE DEF H
<1>29. TableFits(I) /\ DOMAIN I = DOMAIN H \cup DOMAIN PageSuites
    BY <1>28, <1>10, TablesJoin
<1> HIDE DEF I
<1>30. TableFits(Suites) /\ DOMAIN Suites = DOMAIN I \cup DOMAIN CoverSuites
    BY <1>20, <1>29, <1>11, TablesJoin
<1>31. DOMAIN D = {"fiche_mixcloud", "compte_mixcloud", "oembed", "archive", "archive_fichier",
                   "ouiedire", "brain"}
    BY <1>1, <1>2, <1>3, <1>4, <1>5, <1>21, <1>22, <1>23, <1>24
<1>32. DOMAIN H = DOMAIN D \cup {"lyl_episode", "lyl_emission", "discussion", "flux",
                                 "flux_episode", "grille", "album"}
    BY <1>6, <1>7, <1>8, <1>9, <1>25, <1>26, <1>27, <1>28
<1> QED BY <1>10, <1>11, <1>29, <1>30, <1>31, <1>32 DEF Echanges

\* In numbers, one exchange less is one deadline less.
LEMMA OneDeadlineLess ==
  ASSUME NEW n \in 1..4, NEW m \in 1..4
  PROVE  /\ Delai \in Nat /\ Delai >= 1 /\ Delai * n \in Nat /\ Delai <= Delai * n
         /\ m < n => Delai * m + Delai <= Delai * n
         /\ m <= n => Delai * m <= Delai * n
<1>1. Delai \in Nat /\ Delai >= 1
    BY OutgoingAssumption
<1>2. /\ n = 1 \/ n = 2 \/ n = 3 \/ n = 4
      /\ m = 1 \/ m = 2 \/ m = 3 \/ m = 4
    OBVIOUS
<1> QED BY <1>1, <1>2

LEMMA RanksBounded ==
  /\ \A a, t, e : Rang(a, t, e) \in 1..4
  /\ EchangesAuPlus \in 1..4
BY DEF Rang, EchangesAuPlus

\* The exchange in progress ends and the call with it, or another one that
\* leaves fewer to come begins.
LEMMA ExchangeEnds ==
  ASSUME OutgoingInv, echange # "aucun", UNCHANGED <<appel, attente>>, tour' \in {1, 2}, age' = 0,
         \/ echange' = "aucun"
         \/ /\ echange' \in Echanges /\ armee' /\ Rang(appel', tour', echange') < Rang(appel, tour, echange)
            /\ appel = "veille" \/ (appel = "import" /\ echange' \notin {"page", "grille"})
  PROVE  OutgoingInv'
<1>1. CallTyped /\ TimesTyped /\ ChainFits /\ LeavesRoom
    BY DEF OutgoingInv
<1>2. EchangesAuPlus' = EchangesAuPlus
    BY DEF EchangesAuPlus
<1>3. Delai \in Nat
    BY OutgoingAssumption
<1>4. CallTyped' /\ TimesTyped' /\ ChainFits'
  <2>1. CallTyped'
      BY <1>1 DEF CallTyped
  <2>2. TimesTyped'
      BY <1>1, <1>3 DEF TimesTyped
  <2>3. ChainFits'
      BY <1>1 DEF ChainFits
  <2> QED BY <2>1, <2>2, <2>3
<1>5. CASE echange' = "aucun"
    BY <1>1, <1>2, <1>4, <1>5 DEF OutgoingInv, LeavesRoom
<1>6. CASE echange' \in Echanges /\ armee' /\ Rang(appel', tour', echange') < Rang(appel, tour, echange)
  <2>1. Rang(appel, tour, echange) \in 1..4 /\ Rang(appel', tour', echange') \in 1..4 /\ EchangesAuPlus \in 1..4
      BY RanksBounded DEF Rang
  <2>2. Delai * Rang(appel', tour', echange') + Delai <= Delai * Rang(appel, tour, echange)
      BY <1>6, <2>1, OneDeadlineLess
  <2>3. /\ Delai * Rang(appel', tour', echange') \in Nat /\ Delai * Rang(appel, tour, echange) \in Nat
        /\ Delai * EchangesAuPlus \in Nat
      BY <2>1, OneDeadlineLess
  <2>4. /\ (attente - age) + Delai * Rang(appel, tour, echange) <= Delai * EchangesAuPlus
        /\ attente <= Delai * EchangesAuPlus /\ attente \in Nat /\ age \in 0..Delai
      BY <1>1 DEF LeavesRoom, TimesTyped
  <2> DEFINE n == Delai * Rang(appel, tour, echange)
             m == Delai * Rang(appel', tour', echange')
             p == Delai * EchangesAuPlus
  <2>5. m + Delai <= n /\ n \in Nat /\ m \in Nat /\ p \in Nat /\ (attente - age) + n <= p
      BY <2>2, <2>3, <2>4
  <2>6. attente' = attente /\ age' = 0 /\ attente \in Nat /\ age \in 0..Delai
      BY <2>4
  <2> HIDE DEF n, m, p
  <2>7. (attente' - age') + m <= p
      BY <1>3, <2>5, <2>6
  <2> USE DEF n, m, p
  <2> QED BY <1>2, <1>4, <1>6, <2>4, <2>7 DEF OutgoingInv, LeavesRoom
<1> QED BY <1>5, <1>6

\* Whatever an exchange gives, the call goes on within its room.
LEMMA FollowsOn ==
  ASSUME OutgoingInv, echange # "aucun", UNCHANGED <<appel, attente>>,
         NEW r, LeadsTo(echange, r), Suivre(echange, r)
  PROVE  OutgoingInv'
<1>1. CallTyped /\ TimesTyped /\ ChainFits
    BY DEF OutgoingInv
<1>2. tour' = (IF echange = "page" THEN 2 ELSE tour) /\ tour' \in {1, 2}
    BY <1>1 DEF Suivre, TimesTyped
<1>3. ASSUME NEW x, Repondre(x) PROVE OutgoingInv'
    BY <1>2, <1>3, ExchangeEnds DEF Repondre
<1>4. r \in Echanges => \/ echange = "archive" /\ r = "archive_fichier"
                        \/ echange = "discussion" /\ r \in {"fiche_mixcloud", "oembed"}
                        \/ echange = "grille" /\ r = "album"
    BY SuitesFit DEF LeadsTo, Verdicts
<1>5. CASE r \in Echanges
  <2>1. Emettre(r) /\ tour' = tour
      BY <1>2, <1>4, <1>5 DEF Suivre
  <2>2. Rang(appel, tour, echange) = 2 /\ Rang(appel, tour, r) = 1
      BY <1>4, <1>5 DEF Rang
  <2>3. Rang(appel', tour', echange') = Rang(appel, tour, r)
      BY <2>1 DEF Emettre, Rang
  <2>4. Rang(appel', tour', echange') < Rang(appel, tour, echange)
      BY <2>2, <2>3
  <2>5. appel = "veille" \/ (appel = "import" /\ r \notin {"page", "grille"})
      BY <1>1, <1>4, <1>5 DEF ChainFits, CallTyped
  <2> QED BY <1>2, <1>5, <2>1, <2>4, <2>5, ExchangeEnds DEF Emettre
<1>6. CASE r \notin Echanges /\ echange = "album"
    BY <1>3, <1>6 DEF Suivre
<1>7. CASE r \notin Echanges /\ echange = "page"
  <2>1. SuitePage(r) /\ tour' = 2 /\ appel = "veille"
      BY <1>1, <1>2, <1>7 DEF Suivre, ChainFits, CallTyped
  <2>2. CASE r # "flux_declare"
      BY <1>3, <2>1, <2>2 DEF SuitePage
  <2>3. CASE r = "flux_declare"
    <3>1. PICK f \in Adressages : IF f = "refus" THEN Repondre(f) ELSE Emettre(f)
        BY <2>1, <2>3 DEF SuitePage
    <3>2. CASE f = "refus"
        BY <1>3, <3>1, <3>2
    <3>3. CASE f # "refus"
      <4>1. Emettre(f) /\ f \in Echanges
          BY <3>1, <3>3, SuitesFit DEF Adressages
      <4>2. echange' = f /\ f # "page"
          BY <4>1 DEF Emettre, Adressages
      <4>3. Rang(appel', tour', echange') \in {1, 2} /\ Rang(appel, tour, echange) = 3
          BY <1>7, <2>1, <4>2 DEF Rang
      <4>4. Rang(appel', tour', echange') < Rang(appel, tour, echange)
          BY <4>3
      <4> QED BY <1>2, <2>1, <4>1, <4>4, ExchangeEnds DEF Emettre
    <3> QED BY <3>2, <3>3
  <2> QED BY <2>2, <2>3
<1>8. CASE r \notin Echanges /\ echange \notin {"album", "page"} /\ appel = "veille" /\ echange # "grille"
  <2>1. SuiteVeille(echange, r)
      BY <1>8 DEF Suivre
  <2>2. CASE Autodetecter /\ echange \in {"flux", "compte_mixcloud"}
    <3>1. CASE tour = 1
      <4>1. Emettre("page") /\ tour' = tour /\ "page" \in Echanges
          BY <1>2, <1>8, <2>2, <3>1, SuitesFit DEF Autodetecter
      <4>2. Rang(appel, tour, echange) = 4 /\ Rang(appel', tour', echange') = 3
          BY <1>8, <2>2, <3>1, <4>1 DEF Emettre, Rang
      <4>3. Rang(appel', tour', echange') < Rang(appel, tour, echange)
          BY <4>2
      <4> QED BY <1>2, <1>8, <4>1, <4>3, ExchangeEnds DEF Emettre
    <3>2. CASE tour # 1
        BY <1>3, <2>2, <3>2 DEF Autodetecter
    <3> QED BY <3>1, <3>2
  <2>3. CASE \E x : Repondre(x)
      BY <1>3, <2>3
  <2>4. r = "sans_page" => echange \in {"flux", "compte_mixcloud"}
      BY DEF LeadsTo
  <2> QED BY <2>1, <2>2, <2>3, <2>4 DEF SuiteVeille
<1>9. CASE r \notin Echanges /\ echange \notin {"album", "page"} /\ ~(appel = "veille" /\ echange # "grille")
    BY <1>3, <1>9 DEF Suivre
<1> QED BY <1>5, <1>6, <1>7, <1>8, <1>9

LEMMA OutgoingInvInit == OutgoingInit => OutgoingInv
<1> SUFFICES ASSUME OutgoingInit PROVE OutgoingInv
    OBVIOUS
<1>1. Delai \in Nat /\ EchangesAuPlus = 1
    BY OutgoingAssumption DEF OutgoingInit, EchangesAuPlus
<1>2. CallTyped /\ ChainFits
    BY DEF OutgoingInit, CallTyped, ChainFits
<1>3. TimesTyped
    BY <1>1 DEF OutgoingInit, TimesTyped
<1>4. LeavesRoom
    BY <1>1 DEF OutgoingInit, LeavesRoom
<1> QED BY <1>2, <1>3, <1>4 DEF OutgoingInv

\* A call that begins has all its room.
LEMMA CallBegins ==
  ASSUME OutgoingInv, NEW a, NEW e, Appeler(a, e),
         \/ a = "import" /\ e \in Adressages \cup References
         \/ a = "veille" /\ e \in Adressages \cup {"grille"}
         \/ a = "pochette" /\ e \in {"image", "refus"}
  PROVE  OutgoingInv'
<1>1. CallTyped /\ TimesTyped /\ ChainFits /\ appel = "aucun" /\ attente = 0
    BY DEF OutgoingInv, ChainFits, Appeler
<1>2. /\ appel' = a /\ UNCHANGED <<tour, attente>> /\ age' = 0
      /\ \/ e = "refus" /\ echange' = "aucun"
         \/ e # "refus" /\ echange' = e /\ armee'
    BY DEF Appeler, Repondre, Emettre
<1>3. e # "refus" => e \in Echanges
    BY SuitesFit DEF Adressages, References
<1>4. CallTyped' /\ TimesTyped' /\ ChainFits'
  <2>1. TimesTyped'
      BY <1>1, <1>2, OutgoingAssumption DEF TimesTyped
  <2>2. CallTyped'
      BY <1>1, <1>2, <1>3 DEF CallTyped
  <2>3. ChainFits'
      BY <1>1, <1>2 DEF ChainFits, Adressages, References
  <2> QED BY <2>1, <2>2, <2>3
<1>5. echange' # "aucun" => Rang(appel', tour', echange') <= EchangesAuPlus'
  <2>1. CASE a = "import" /\ echange' # "aucun"
    <3>1. EchangesAuPlus' = 2 /\ Rang(appel', tour', echange') \in {1, 2}
        BY <1>2, <2>1 DEF Rang, EchangesAuPlus, Adressages, References
    <3> QED BY <3>1
  <2>2. CASE a = "veille"
    <3>1. EchangesAuPlus' = 4 /\ Rang(appel', tour', echange') \in 1..4
        BY <1>2, <2>2, RanksBounded DEF EchangesAuPlus
    <3> QED BY <3>1
  <2>3. CASE a = "pochette" /\ echange' # "aucun"
    <3>1. EchangesAuPlus' = 1 /\ Rang(appel', tour', echange') = 1
        BY <1>2, <2>3 DEF Rang, EchangesAuPlus
    <3> QED BY <3>1
  <2> QED BY <2>1, <2>2, <2>3
<1>6. Rang(appel', tour', echange') \in 1..4 /\ EchangesAuPlus' \in 1..4
    BY DEF Rang, EchangesAuPlus
<1>7. /\ Delai * Rang(appel', tour', echange') \in Nat /\ Delai * EchangesAuPlus' \in Nat
      /\ echange' # "aucun" => Delai * Rang(appel', tour', echange') <= Delai * EchangesAuPlus'
    BY <1>5, <1>6, OneDeadlineLess
<1>8. LeavesRoom'
  <2> DEFINE m == Delai * Rang(appel', tour', echange')
             p == Delai * EchangesAuPlus'
  <2>1. attente' = 0 /\ age' = 0 /\ m \in Nat /\ p \in Nat /\ (echange' # "aucun" => m <= p)
      BY <1>1, <1>2, <1>7
  <2> HIDE DEF m, p
  <2>2. attente' <= p /\ (echange' # "aucun" => (attente' - age') + m <= p)
      BY <2>1
  <2> USE DEF m, p
  <2> QED BY <1>2, <2>2 DEF LeavesRoom
<1> QED BY <1>4, <1>8 DEF OutgoingInv

LEMMA OutgoingInvNext == OutgoingInv /\ [OutgoingNext]_outgoingVars => OutgoingInv'
<1> SUFFICES ASSUME OutgoingInv, [OutgoingNext]_outgoingVars PROVE OutgoingInv'
    OBVIOUS
<1>0. CallTyped /\ TimesTyped /\ ChainFits /\ LeavesRoom
    BY DEF OutgoingInv
<1>a. \A r \in {"absent", "panne", "refus"} : LeadsTo(echange, r)
    BY DEF LeadsTo, Verdicts
<1>b. ASSUME UNCHANGED <<appel, echange, age, armee, tour, attente>> PROVE OutgoingInv'
    BY <1>0, <1>b DEF OutgoingInv, CallTyped, TimesTyped, ChainFits, LeavesRoom, EchangesAuPlus
<1>1. CASE Importer
    BY <1>1, CallBegins DEF Importer
<1>2. CASE ResoudreSource
    BY <1>2, CallBegins DEF ResoudreSource
<1>3. CASE ChercherPochette
    BY <1>3, CallBegins DEF ChercherPochette
<1>4. CASE Refuser
    BY <1>4, <1>a, FollowsOn DEF Refuser, Attendu, GarderReponse
<1>5. CASE Rediriger
  <2>1. echange # "aucun" /\ UNCHANGED <<appel, attente>>
      BY <1>5 DEF Rediriger, Attendu, GarderReponse
  <2>2. CASE \E r \in {"panne", "refus"} : Suivre(echange, r)
      BY <1>a, <2>1, <2>2, FollowsOn
  <2>3. CASE UNCHANGED <<echange, phase, age, armee, tour, reponse>>
      BY <1>b, <2>1, <2>3
  <2> QED BY <1>5, <2>2, <2>3 DEF Rediriger
<1>6. CASE Entetes
    BY <1>b, <1>6 DEF Entetes, GarderReponse
<1>7. CASE Deborder
    BY <1>7, <1>a, FollowsOn DEF Deborder, Attendu, GarderReponse
<1>8. CASE Couper
    BY <1>8, <1>a, FollowsOn DEF Couper, Attendu, GarderReponse
<1>9. CASE LireCorps
  <2>1. PICK r \in Suites[echange] : Suivre(echange, r)
      BY <1>9 DEF LireCorps
  <2>2. echange # "aucun" /\ echange \in DOMAIN Suites /\ UNCHANGED <<appel, attente>>
      BY <1>0, <1>9 DEF LireCorps, Attendu, GarderReponse, CallTyped, Echanges
  <2>3. LeadsTo(echange, r)
      BY <2>1, <2>2, SuitesFit DEF TableFits
  <2> QED BY <2>1, <2>2, <2>3, FollowsOn
<1>10. CASE Avorter
    BY <1>10, <1>a, FollowsOn DEF Avorter, GarderReponse
<1>11. CASE TicReseau
  <2>1. /\ echange # "aucun" /\ armee /\ age # Delai /\ age' = age + 1 /\ attente' = attente + 1
        /\ UNCHANGED <<appel, echange, armee, tour>>
      BY <1>0, <1>11 DEF TicReseau, LeavesRoom
  <2>2. Rang(appel', tour', echange') = Rang(appel, tour, echange) /\ EchangesAuPlus' = EchangesAuPlus
      BY <2>1 DEF Rang, EchangesAuPlus
  <2>3. Rang(appel, tour, echange) \in 1..4 /\ EchangesAuPlus \in 1..4
      BY RanksBounded
  <2>4. /\ Delai * Rang(appel, tour, echange) \in Nat /\ Delai <= Delai * Rang(appel, tour, echange)
        /\ Delai * EchangesAuPlus \in Nat /\ Delai \in Nat
      BY <2>3, OneDeadlineLess
  <2>5. CallTyped' /\ ChainFits'
      BY <1>0, <2>1 DEF CallTyped, ChainFits
  <2>6. TimesTyped'
      BY <1>0, <2>1, <2>4 DEF TimesTyped
  <2> DEFINE n == Delai * Rang(appel, tour, echange)
             p == Delai * EchangesAuPlus
  <2>7. /\ age \in 0..Delai /\ attente \in Nat /\ (attente - age) + n <= p
        /\ n \in Nat /\ p \in Nat /\ Delai <= n
      BY <1>0, <2>1, <2>4 DEF TimesTyped, LeavesRoom
  <2> HIDE DEF n, p
  <2>8. (attente' - age') + n <= p /\ attente' <= p
      BY <2>1, <2>4, <2>7
  <2> USE DEF n, p
  <2> QED BY <2>1, <2>2, <2>5, <2>6, <2>8 DEF OutgoingInv, LeavesRoom
<1>12. CASE UNCHANGED outgoingVars
    BY <1>b, <1>12 DEF outgoingVars
<1> QED BY <1>1, <1>2, <1>3, <1>4, <1>5, <1>6, <1>7, <1>8, <1>9, <1>10, <1>11, <1>12 DEF OutgoingNext

\* No call waits longer than the deadlines of the exchanges it is made of,
\* whatever the deadline, the redirections and what hosts answer.
THEOREM SettledByDeadlineAlways == OutgoingSpec => []SettledByDeadline
<1>1. OutgoingInv => SettledByDeadline
    BY DEF OutgoingInv, LeavesRoom, SettledByDeadline
<1> QED BY <1>1, OutgoingInvInit, OutgoingInvNext, PTL DEF OutgoingSpec

(***************************************************************************)
(* Suggestions.  Up to the last resort what is left out is the mix on      *)
(* display, what was heard and what is kept already (Exclusion).  The      *)
(* level by date takes all there is or fills the room (LevelFills); in the *)
(* first case every mix not heard that was there from the beginning is     *)
(* kept, and stays so until the answer (AllKept), in the second the last   *)
(* resort has no room to keep anything heard.                              *)
(***************************************************************************)

\* Before the listens are read, only the mix on display is left out; then what
\* was heard is too; then what was kept.
Exclusion ==
  /\ palier = "ecoutes" => exclus = {Affiche} /\ retenus = <<>>
  /\ palier \in {"coauditeurs", "classement"} => exclus = {Affiche} \cup entendus /\ retenus = <<>>
  /\ palier \in {"tags", "recents", "reecoute"} => exclus = {Affiche} \cup entendus \cup Retenus

\* Nothing heard is kept before the last resort.
NothingHeard == palier \in {"tags", "recents", "reecoute"} => Retenus \cap entendus = {}

\* Every mix not heard that was there from the beginning is kept.
AllKept == (depart \cap parues) \ (entendus \cup {Affiche}) \subseteq Retenus

\* At the last resort there is no room left, or all of them are.
FullOrAll == palier = "reecoute" => Len(retenus) = Places \/ AllKept

\* After it, something heard is there only with all of them.
LastResort == palier \in {"lecture", "repondu"} => Retenus \cap entendus = {} \/ AllKept

SuggestionsInv ==
  /\ parues \subseteq Parutions /\ retenus \in Seq(Parutions) /\ Len(retenus) <= Places
  /\ palier \in {"affiche", "ecoutes", "introuvable"} => retenus = <<>>
  /\ depart \subseteq parues \cup partis
  /\ Exclusion /\ NothingHeard /\ FullOrAll /\ LastResort

-----------------------------------------------------------------------------
\* Numbers from 1 to their count, given to each once, make a listing of all.
LEMMA ListingOfAll ==
  ASSUME NEW S, IsFiniteSet(S), NEW rang \in [S -> 1..Cardinality(S)],
         \A x, y \in S : rang[x] = rang[y] => x = y
  PROVE  /\ Cardinality(S) \in Nat /\ Dresser(rang) \in [1..Cardinality(S) -> S]
         /\ \A k \in 1..Cardinality(S) : Dresser(rang)[k] \in S /\ rang[Dresser(rang)[k]] = k
         /\ \A x \in S : Dresser(rang)[rang[x]] = x
<1> DEFINE n == Cardinality(S)
<1>1. n \in Nat /\ IsFiniteSet(1..n) /\ Cardinality(1..n) = n
    BY FS_CardinalityType, FS_Interval
<1>2. rang \in Injection(S, 1..n)
    BY DEF Injection, IsInjective
<1> HIDE DEF n
<1>3. rang \in Surjection(S, 1..n)
  <2>1. IsFiniteSet(1..n) /\ Cardinality(S) = Cardinality(1..n)
      BY <1>1 DEF n
  <2> QED BY <1>2, <2>1, FS_Injection
<1>4. \A k \in 1..n : \E x \in S : rang[x] = k
    BY <1>3 DEF Surjection
<1>5. DOMAIN rang = S
    OBVIOUS
<1>6. Dresser(rang) = [k \in 1..n |-> CHOOSE m \in S : rang[m] = k]
    BY <1>5 DEF Dresser, n
<1>7. \A k \in 1..n : Dresser(rang)[k] \in S /\ rang[Dresser(rang)[k]] = k
    BY <1>4, <1>6
<1>8. Dresser(rang) \in [1..n -> S]
    BY <1>6, <1>7
<1>9. \A x \in S : Dresser(rang)[rang[x]] = x
    BY <1>7 DEF n
<1> QED BY <1>1, <1>7, <1>8, <1>9 DEF n

\* How many there are from m on tells m from the others.
LEMMA AgeCounts ==
  ASSUME NEW S, S \subseteq Nat, IsFiniteSet(S)
  PROVE  /\ RangsDAge(S) \in [S -> 1..Cardinality(S)]
         /\ \A x, y \in S : RangsDAge(S)[x] = RangsDAge(S)[y] => x = y
<1> DEFINE apres(m) == {n \in S : n >= m}
<1>1. \A m \in S : /\ IsFiniteSet(apres(m)) /\ Cardinality(apres(m)) \in 1..Cardinality(S)
  <2> TAKE m \in S
  <2>1. /\ IsFiniteSet(apres(m)) /\ Cardinality(apres(m)) <= Cardinality(S)
        /\ Cardinality(apres(m)) \in Nat /\ Cardinality(S) \in Nat
      BY FS_Subset, FS_CardinalityType
  <2>2. m \in apres(m)
      OBVIOUS
  <2>3. Cardinality(apres(m)) # 0
      BY <2>1, <2>2, FS_EmptySet
  <2> QED BY <2>1, <2>3
<1>2. \A x, y \in S : x < y => Cardinality(apres(x)) # Cardinality(apres(y))
  <2> SUFFICES ASSUME NEW x \in S, NEW y \in S, x < y, Cardinality(apres(x)) = Cardinality(apres(y))
               PROVE  FALSE
      OBVIOUS
  <2>0. x \in Nat /\ y \in Nat /\ \A n \in Nat : n >= y => n >= x
      OBVIOUS
  <2>1. apres(y) \subseteq apres(x)
      BY <2>0
  <2>2. x \in apres(x) /\ x \notin apres(y)
      OBVIOUS
  <2>3. apres(y) = apres(x)
      BY <1>1, <2>1, FS_Subset
  <2> QED BY <2>2, <2>3
<1>3. RangsDAge(S) = [m \in S |-> Cardinality(apres(m))]
    BY DEF RangsDAge
<1>4. \A x, y \in S : Cardinality(apres(x)) = Cardinality(apres(y)) => x = y
  <2>1. \A x, y \in S : x = y \/ x < y \/ y < x
      OBVIOUS
  <2> HIDE DEF apres
  <2> QED BY <2>1, <1>2
<1> HIDE DEF apres
<1> QED BY <1>1, <1>3, <1>4

\* So does how many there are up to it.
LEMMA PlaceCounts ==
  ASSUME NEW S, S \subseteq Nat, IsFiniteSet(S), NEW r, r = [i \in S |-> Cardinality({j \in S : j <= i})]
  PROVE  /\ r \in [S -> 1..Cardinality(S)]
         /\ \A x, y \in S : r[x] = r[y] => x = y
<1> DEFINE avant(m) == {n \in S : n <= m}
<1>1. \A m \in S : /\ IsFiniteSet(avant(m)) /\ Cardinality(avant(m)) \in 1..Cardinality(S)
  <2> TAKE m \in S
  <2>1. /\ IsFiniteSet(avant(m)) /\ Cardinality(avant(m)) <= Cardinality(S)
        /\ Cardinality(avant(m)) \in Nat /\ Cardinality(S) \in Nat
      BY FS_Subset, FS_CardinalityType
  <2>2. m \in avant(m)
      OBVIOUS
  <2>3. Cardinality(avant(m)) # 0
      BY <2>1, <2>2, FS_EmptySet
  <2> QED BY <2>1, <2>3
<1>2. \A x, y \in S : x < y => Cardinality(avant(x)) # Cardinality(avant(y))
  <2> SUFFICES ASSUME NEW x \in S, NEW y \in S, x < y, Cardinality(avant(x)) = Cardinality(avant(y))
               PROVE  FALSE
      OBVIOUS
  <2>0. x \in Nat /\ y \in Nat /\ \A n \in Nat : n <= x => n <= y
      OBVIOUS
  <2>1. avant(x) \subseteq avant(y)
      BY <2>0
  <2>2. y \in avant(y) /\ y \notin avant(x)
      OBVIOUS
  <2>3. avant(y) = avant(x)
      BY <1>1, <2>1, FS_Subset
  <2> QED BY <2>2, <2>3
<1>3. r = [m \in S |-> Cardinality(avant(m))]
    OBVIOUS
<1>4. \A x, y \in S : Cardinality(avant(x)) = Cardinality(avant(y)) => x = y
  <2>1. \A x, y \in S : x = y \/ x < y \/ y < x
      OBVIOUS
  <2> HIDE DEF avant
  <2> QED BY <2>1, <1>2
<1> HIDE DEF avant
<1> QED BY <1>1, <1>3, <1>4

-----------------------------------------------------------------------------
\* A level that lists takes all there is or fills the room, and nothing when
\* there is none.
LEMMA LevelFills ==
  ASSUME retenus \in Seq(Parutions), Len(retenus) <= Places, parues \subseteq Parutions,
         NEW parmi, NEW sauf, Completer(parmi, sauf)
  PROVE  \E a \in SUBSET Candidats(parmi, sauf) :
           /\ retenus' \in Seq(Parutions) /\ Len(retenus') <= Places
           /\ Retenus' = Retenus \cup a /\ exclus' = exclus \cup a
           /\ Len(retenus) = Places => a = {}
           /\ Len(retenus') = Places \/ a = Candidats(parmi, sauf)
<1> DEFINE S == Candidats(parmi, sauf)
           p == Places - Len(retenus)
           rang == RangsDAge(S)
           a == {m \in DOMAIN rang : rang[m] <= p}
           f == [m \in a |-> rang[m]]
<1>1. S \subseteq Nat /\ IsFiniteSet(S) /\ S \subseteq Parutions
  <2>1. S \subseteq Parutions
      BY DEF Candidats
  <2> QED BY <2>1, SuggestionsAssumption, FS_Subset
<1>2. p \in Nat /\ Len(retenus) \in Nat
    BY SuggestionsAssumption
<1> HIDE DEF S, p, rang
<1>3. /\ rang \in [S -> 1..Cardinality(S)] /\ Cardinality(S) \in Nat
      /\ \A x, y \in S : rang[x] = rang[y] => x = y
      /\ \A k \in 1..Cardinality(S) : \E x \in S : rang[x] = k
  <2>1. /\ rang \in [S -> 1..Cardinality(S)]
        /\ \A x, y \in S : rang[x] = rang[y] => x = y
      BY <1>1, AgeCounts DEF rang
  <2>2. /\ Cardinality(S) \in Nat
        /\ \A k \in 1..Cardinality(S) : Dresser(rang)[k] \in S /\ rang[Dresser(rang)[k]] = k
      BY <2>1, <1>1, ListingOfAll
  <2> QED BY <2>1, <2>2
<1>4. a \subseteq S /\ a = {m \in S : rang[m] <= p}
    BY <1>3
<1>5. IsFiniteSet(a)
    BY <1>1, <1>4, FS_Subset
<1> DEFINE n == IF p < Cardinality(S) THEN p ELSE Cardinality(S)
<1>9. n \in Nat /\ n <= p
    BY <1>2, <1>3
<1>6. Cardinality(a) = n
  <2>1. f \in [a -> 1..n]
      BY <1>2, <1>3, <1>4
  <2>2. \A x, y \in a : f[x] = f[y] => x = y
      BY <1>3, <1>4
  <2>3. \A k \in 1..n : \E x \in a : f[x] = k
    <3> TAKE k \in 1..n
    <3>1. k \in 1..Cardinality(S) /\ k <= p
        BY <1>2, <1>3
    <3>2. PICK x \in S : rang[x] = k
        BY <3>1, <1>3
    <3> QED BY <3>1, <3>2, <1>4
  <2> HIDE DEF f, n
  <2>4. f \in Bijection(a, 1..n)
      BY <2>1, <2>2, <2>3 DEF Bijection, Injection, IsInjective, Surjection
  <2>5. Cardinality(1..n) = Cardinality(a)
      BY <2>4, <1>5, FS_Bijection DEF ExistsBijection
  <2>6. Cardinality(1..n) = n
      BY <1>9, FS_Interval
  <2> QED BY <2>5, <2>6
<1>7. /\ Dresser(f) \in [1..n -> a]
      /\ \A x \in a : \E k \in 1..n : Dresser(f)[k] = x
  <2>1. f \in [a -> 1..Cardinality(a)] /\ \A x, y \in a : f[x] = f[y] => x = y
    <3>1. \A x \in a : f[x] = rang[x] /\ x \in S /\ rang[x] \in 1..n
        BY <1>2, <1>3, <1>4
    <3>2. DOMAIN f = a /\ f = [x \in a |-> f[x]]
        OBVIOUS
    <3> HIDE DEF f, n, a
    <3> QED BY <3>1, <3>2, <1>3, <1>6
  <2> HIDE DEF f, n
  <2> QED BY <2>1, <1>5, <1>6, ListingOfAll
<1>8. retenus' = retenus \o Dresser(f) /\ exclus' = exclus \cup a
    BY DEF Completer, S, p, rang
<1> HIDE DEF a, f, n
<1>10. Dresser(f) \in Seq(a) /\ Len(Dresser(f)) = n /\ DOMAIN Dresser(f) = 1..n
    BY <1>7, <1>9
<1> DEFINE d == Dresser(f)
<1>11. \A k \in 1..n : d[k] \in a
    BY <1>7
<1>12. \A x \in a : \E k \in 1..n : d[k] = x
    BY <1>7
<1>13. d \in Seq(a) /\ Len(d) = n
    BY <1>10
<1> HIDE DEF d
<1>14. retenus' = retenus \o d
    BY <1>8 DEF d
<1>15. d \in Seq(Parutions)
  <2>1. d \in [1..n -> Parutions]
      BY <1>7, <1>1, <1>4 DEF d
  <2> QED BY <2>1, <1>9
<1>16. /\ retenus' \in Seq(Parutions) /\ Len(retenus') = Len(retenus) + n
       /\ \A i \in 1..Len(retenus) : retenus'[i] = retenus[i]
       /\ \A k \in 1..n : retenus'[Len(retenus) + k] = d[k]
  <2>1. Len(retenus') = Len(retenus) + Len(d)
      BY <1>14, <1>15
  <2>2. retenus' \in Seq(Parutions)
      BY <1>14, <1>15
  <2>3. \A i \in 1..Len(retenus) : retenus'[i] = retenus[i]
      BY <1>14, <1>15
  <2>4. \A k \in 1..Len(d) : retenus'[Len(retenus) + k] = d[k]
      BY <1>14, <1>15
  <2> QED BY <2>1, <2>2, <2>3, <2>4, <1>13
<1>17. Retenus' = Retenus \cup a
  <2>0. DOMAIN retenus = 1..Len(retenus) /\ DOMAIN retenus' = 1..(Len(retenus) + n)
      BY <1>16
  <2>1. \A i \in DOMAIN retenus' : retenus'[i] \in Retenus \cup a
    <3> TAKE i \in DOMAIN retenus'
    <3>1. CASE i <= Len(retenus)
      <4>1. i \in DOMAIN retenus
          BY <3>1, <2>0, <1>2, <1>9
      <4> QED BY <4>1, <1>16, <2>0 DEF Retenus
    <3>2. CASE i > Len(retenus)
      <4>1. i - Len(retenus) \in 1..n /\ i = Len(retenus) + (i - Len(retenus))
          BY <3>2, <2>0, <1>2, <1>9
      <4> QED BY <4>1, <1>11, <1>16
    <3> QED BY <3>1, <3>2, <2>0, <1>2, <1>9
  <2>2. \A x \in a : x \in Retenus'
    <3> TAKE x \in a
    <3>1. PICK k \in 1..n : d[k] = x
        BY <1>12
    <3>2. Len(retenus) + k \in DOMAIN retenus'
        BY <2>0, <1>2, <1>9
    <3> QED BY <3>1, <3>2, <1>16 DEF Retenus
  <2>3. \A i \in DOMAIN retenus : retenus[i] \in Retenus'
    <3> TAKE i \in DOMAIN retenus
    <3>1. i \in DOMAIN retenus'
        BY <2>0, <1>2, <1>9
    <3> QED BY <3>1, <2>0, <1>16 DEF Retenus
  <2>4. Retenus' = {retenus'[i] : i \in DOMAIN retenus'}
      BY DEF Retenus
  <2>5. Retenus = {retenus[i] : i \in DOMAIN retenus}
      BY DEF Retenus
  <2> QED BY <2>1, <2>2, <2>3, <2>4, <2>5
<1>18. Len(retenus') <= Places /\ (Len(retenus) = Places => n = 0)
    BY <1>2, <1>9, <1>16, SuggestionsAssumption DEF p
<1>19. n = 0 => a = {}
    BY <1>12
<1>20. Len(retenus') = Places \/ a = S
  <2>1. CASE p < Cardinality(S)
    <3>1. n = p
        BY <2>1 DEF n
    <3> QED BY <3>1, <1>2, <1>16, SuggestionsAssumption DEF p
  <2>2. CASE ~(p < Cardinality(S))
    <3>1. Cardinality(a) = Cardinality(S)
        BY <2>2, <1>6 DEF n
    <3> QED BY <3>1, <1>1, <1>4, FS_Subset
  <2> QED BY <2>1, <2>2
<1> QED BY <1>4, <1>8, <1>16, <1>17, <1>18, <1>19, <1>20 DEF S

-----------------------------------------------------------------------------
\* The rows that are left keep their order, and all of them are there.
LEMMA PageIsRest ==
  ASSUME retenus \in Seq(Parutions), RendrePage
  PROVE  /\ retenus' \in Seq(Parutions) /\ Len(retenus') <= Len(retenus)
         /\ Retenus' = Retenus \cap parues
<1> DEFINE la == {i \in DOMAIN retenus : retenus[i] \in parues}
           r == [i \in la |-> Cardinality({j \in la : j <= i})]
           suite == Dresser(r)
           n == Cardinality(la)
<1>1. /\ DOMAIN retenus = 1..Len(retenus) /\ Len(retenus) \in Nat
      /\ IsFiniteSet(1..Len(retenus)) /\ Cardinality(1..Len(retenus)) = Len(retenus)
  <2>1. Len(retenus) \in Nat /\ DOMAIN retenus = 1..Len(retenus)
      OBVIOUS
  <2> QED BY <2>1, FS_Interval
<1>2. la \subseteq 1..Len(retenus) /\ la \subseteq Nat
    BY <1>1
<1>3. IsFiniteSet(la) /\ n <= Len(retenus) /\ n \in Nat
    BY <1>1, <1>2, FS_Subset, FS_CardinalityType
<1>4. r \in [la -> 1..n] /\ \A x, y \in la : r[x] = r[y] => x = y
  <2> HIDE DEF la
  <2> QED BY <1>2, <1>3, PlaceCounts
<1>5. retenus' = [k \in DOMAIN suite |-> retenus[suite[k]]]
    BY DEF RendrePage
<1> HIDE DEF r
<1>6. suite \in [1..n -> la] /\ \A x \in la : suite[r[x]] = x
  <2> HIDE DEF la
  <2> QED BY <1>3, <1>4, ListingOfAll
<1> HIDE DEF suite, n
<1>7. /\ retenus' = [k \in 1..n |-> retenus[suite[k]]]
      /\ \A k \in 1..n : suite[k] \in la
      /\ \A x \in la : \E k \in 1..n : suite[k] = x
    BY <1>4, <1>5, <1>6
<1>8. \A i \in DOMAIN retenus : retenus[i] \in Parutions
    BY <1>1
<1>9. retenus' \in [1..n -> Parutions]
    BY <1>7, <1>8
<1>10. retenus' \in Seq(Parutions) /\ Len(retenus') = n
    BY <1>3, <1>9
<1>11. Retenus' = {retenus'[k] : k \in 1..n}
    BY <1>9 DEF Retenus
<1>12. {retenus'[k] : k \in 1..n} = {retenus[i] : i \in la}
  <2>1. \A k \in 1..n : retenus'[k] = retenus[suite[k]] /\ suite[k] \in la
      BY <1>7
  <2>2. \A i \in la : \E k \in 1..n : retenus'[k] = retenus[i]
      BY <1>7
  <2> HIDE DEF la
  <2> QED BY <2>1, <2>2
<1>13. {retenus[i] : i \in la} = Retenus \cap parues
    BY DEF Retenus
<1> QED BY <1>3, <1>10, <1>11, <1>12, <1>13

\* The request has not begun.
LEMMA SuggestionsInvInit == SuggestionsInit => SuggestionsInv
<1> SUFFICES ASSUME SuggestionsInit PROVE SuggestionsInv
    OBVIOUS
<1>1. retenus = <<>> /\ palier = "affiche" /\ parues \subseteq Parutions /\ depart = parues
    BY DEF SuggestionsInit
<1>2. retenus \in Seq(Parutions) /\ Len(retenus) <= Places
    BY <1>1, SuggestionsAssumption
<1> QED BY <1>1, <1>2
        DEF SuggestionsInv, Exclusion, NothingHeard, FullOrAll, LastResort

\* A level before the last resort keeps nothing heard.
LEMMA LevelKeeps ==
  ASSUME SuggestionsInv, NEW parmi, palier \in {"tags", "recents"},
         palier' \in {"recents", "reecoute"}, Completer(parmi, exclus), RetenirVotes,
         palier' = "reecoute" => parmi = Parutions
  PROVE  SuggestionsInv'
<1>1. PICK a \in SUBSET Candidats(parmi, exclus) :
        /\ retenus' \in Seq(Parutions) /\ Len(retenus') <= Places
        /\ Retenus' = Retenus \cup a /\ exclus' = exclus \cup a
        /\ Len(retenus') = Places \/ a = Candidats(parmi, exclus)
    BY LevelFills DEF SuggestionsInv
<1>2. /\ parues' = parues /\ entendus' = entendus /\ depart' = depart /\ partis' = partis
    BY DEF RetenirVotes
<1>3. exclus = {Affiche} \cup entendus \cup Retenus /\ Retenus \cap entendus = {}
    BY DEF SuggestionsInv, Exclusion, NothingHeard
<1>4. Exclusion' /\ NothingHeard'
  <2>1. a \cap exclus = {}
      BY DEF Candidats
  <2> QED BY <1>1, <1>2, <1>3, <2>1 DEF Exclusion, NothingHeard
<1>5. palier' = "reecoute" => Len(retenus') = Places \/ AllKept'
  <2> SUFFICES ASSUME parmi = Parutions, a = Candidats(parmi, exclus) PROVE AllKept'
      BY <1>1
  <2>1. a = parues \ exclus
      BY DEF Candidats, SuggestionsInv
  <2> QED BY <2>1, <1>1, <1>2, <1>3 DEF AllKept
<1> QED BY <1>1, <1>2, <1>4, <1>5
        DEF SuggestionsInv, FullOrAll, LastResort

\* Each level, and what members do meanwhile, keeps the invariant.
LEMMA SuggestionsInvNext ==
  SuggestionsInv /\ [SuggestionsNext]_suggestionsVars => SuggestionsInv'
<1> SUFFICES ASSUME SuggestionsInv, [SuggestionsNext]_suggestionsVars PROVE SuggestionsInv'
    OBVIOUS
<1>0. /\ parues \subseteq Parutions /\ retenus \in Seq(Parutions) /\ Len(retenus) <= Places
      /\ depart \subseteq parues \cup partis
    BY DEF SuggestionsInv
<1> USE DEF Passer
<1>1. CASE LireAffiche
  <2>1. retenus = <<>> /\ retenus' = <<>> /\ exclus' = {Affiche} /\ parues' = parues /\ depart' = parues
        /\ palier' \in {"ecoutes", "introuvable"}
      BY <1>1 DEF LireAffiche, SuggestionsInv
  <2> QED BY <2>1, <1>0 DEF SuggestionsInv, Exclusion, NothingHeard, FullOrAll, LastResort
<1>2. CASE LireEcoutes
    BY <1>0, <1>2 DEF LireEcoutes, SuggestionsInv, Exclusion, NothingHeard, FullOrAll, LastResort
<1>3. CASE LireCoauditeurs
    BY <1>0, <1>3 DEF LireCoauditeurs, SuggestionsInv, Exclusion, NothingHeard, FullOrAll, LastResort
<1>4. CASE Classer
  <2> DEFINE s == {m \in Parutions : Voix(m) > 0} \ exclus
             k == Minimum(Places, Cardinality(s))
  <2>1. retenus' \in [1..k -> s]
      BY <1>4 DEF Classer, ClassementPossible
  <2>2. IsFiniteSet(s) /\ Cardinality(s) \in Nat
    <3>1. s \in SUBSET Parutions
        OBVIOUS
    <3> HIDE DEF s
    <3> QED BY <3>1, SuggestionsAssumption, FS_Subset, FS_CardinalityType
  <2>3. k \in Nat /\ k <= Places
      BY <2>2, SuggestionsAssumption DEF Minimum
  <2>4. s \subseteq Parutions /\ s \cap exclus = {}
      OBVIOUS
  <2> HIDE DEF s, k
  <2>5. retenus' \in Seq(Parutions) /\ Len(retenus') = k
    <3>1. retenus' \in [1..k -> Parutions]
        BY <2>1, <2>4
    <3> QED BY <3>1, <2>3
  <2>6. Retenus' \cap exclus = {}
      BY <2>1, <2>4 DEF Retenus
  <2>7. exclus' = exclus \cup Retenus'
      BY <1>4 DEF Classer, Retenus
  <2>8. exclus = {Affiche} \cup entendus
      BY <1>4 DEF Classer, SuggestionsInv, Exclusion
  <2>9. /\ palier' = "tags" /\ parues' = parues /\ entendus' = entendus /\ depart' = depart
        /\ partis' = partis
      BY <1>4 DEF Classer
  <2> QED BY <2>3, <2>5, <2>6, <2>7, <2>8, <2>9, <1>0
          DEF SuggestionsInv, Exclusion, NothingHeard, FullOrAll, LastResort
<1>5. CASE ParTags
    BY <1>5, LevelKeeps DEF ParTags
<1>6. CASE ParDate
    BY <1>6, LevelKeeps DEF ParDate
<1>7. CASE Reecoute
  <2> DEFINE sauf == {Affiche} \cup Retenus
  <2>0. palier = "reecoute" /\ palier' = "lecture" /\ Completer(Parutions, sauf) /\ RetenirVotes
      BY <1>7 DEF Reecoute
  <2>1. PICK a \in SUBSET Candidats(Parutions, sauf) :
          /\ retenus' \in Seq(Parutions) /\ Len(retenus') <= Places
          /\ Retenus' = Retenus \cup a /\ (Len(retenus) = Places => a = {})
      BY <2>0, <1>0, LevelFills
  <2>2. parues' = parues /\ entendus' = entendus /\ depart' = depart /\ partis' = partis
      BY <2>0 DEF RetenirVotes
  <2>3. Retenus \cap entendus = {}
      BY <2>0 DEF SuggestionsInv, NothingHeard
  <2>4. CASE Len(retenus) = Places
      BY <2>0, <2>1, <2>2, <2>3, <2>4, <1>0
         DEF SuggestionsInv, Exclusion, NothingHeard, FullOrAll, LastResort
  <2>5. CASE AllKept
    <3>1. AllKept'
        BY <2>1, <2>2, <2>5 DEF AllKept
    <3> QED BY <3>1, <2>0, <2>1, <2>2, <1>0
            DEF SuggestionsInv, Exclusion, NothingHeard, FullOrAll, LastResort
  <2> QED BY <2>0, <2>4, <2>5 DEF SuggestionsInv, FullOrAll
<1>8. CASE RendrePage
  <2>1. /\ retenus' \in Seq(Parutions) /\ Len(retenus') <= Len(retenus)
        /\ Retenus' = Retenus \cap parues
      BY <1>8, <1>0, PageIsRest
  <2>2. /\ palier = "lecture" /\ palier' = "repondu" /\ parues' = parues /\ entendus' = entendus
        /\ depart' = depart /\ partis' = partis
      BY <1>8 DEF RendrePage
  <2>3. Retenus \cap entendus = {} \/ AllKept
      BY <2>2 DEF SuggestionsInv, LastResort
  <2>4. AllKept => AllKept'
      BY <2>1, <2>2 DEF AllKept
  <2>5. Len(retenus') <= Places
    <3>1. Len(retenus) \in Nat /\ Len(retenus') \in Nat
        BY <1>0, <2>1
    <3> QED BY <3>1, <2>1, <1>0, SuggestionsAssumption
  <2> QED BY <2>1, <2>2, <2>3, <2>4, <2>5, <1>0
          DEF SuggestionsInv, Exclusion, NothingHeard, FullOrAll, LastResort
<1>9. ASSUME NEW m \in Parutions, Paraitre(m) PROVE SuggestionsInv'
  <2>1. /\ parues' = parues \cup {m} /\ m \notin depart /\ retenus' = retenus /\ exclus' = exclus
        /\ entendus' = entendus /\ depart' = depart /\ partis' = partis /\ palier' = palier
        /\ palier \notin {"repondu", "introuvable"}
      BY <1>9, <1>0 DEF Paraitre, Inachevee
  <2>2. Retenus' = Retenus /\ (AllKept => AllKept')
      BY <2>1 DEF Retenus, AllKept
  <2> QED BY <2>1, <2>2, <1>0 DEF SuggestionsInv, Exclusion, NothingHeard, FullOrAll, LastResort
<1>10. ASSUME NEW m \in Parutions, Disparaitre(m) PROVE SuggestionsInv'
  <2>1. /\ parues' = parues \ {m} /\ retenus' = retenus /\ exclus' = exclus /\ palier' = palier
        /\ entendus' = entendus /\ depart' = depart /\ partis' = partis \cup {m}
      BY <1>10 DEF Disparaitre
  <2>2. Retenus' = Retenus /\ (AllKept => AllKept')
      BY <2>1 DEF Retenus, AllKept
  <2> QED BY <2>1, <2>2, <1>0 DEF SuggestionsInv, Exclusion, NothingHeard, FullOrAll, LastResort
<1>11. CASE UNCHANGED <<parues, palier, exclus, retenus, entendus, depart, partis>>
  <2>1. Retenus' = Retenus /\ AllKept' = AllKept
      BY <1>11 DEF Retenus, AllKept
  <2> QED BY <1>11, <2>1 DEF SuggestionsInv, Exclusion, NothingHeard, FullOrAll, LastResort
<1>12. ASSUME NEW m \in Parutions, NEW u \in Auditeurs, Ecouter(u, m) PROVE SuggestionsInv'
    BY <1>11, <1>12 DEF Ecouter
<1> QED BY <1>1, <1>2, <1>3, <1>4, <1>5, <1>6, <1>7, <1>8, <1>9, <1>10, <1>11, <1>12
        DEF SuggestionsNext, suggestionsVars

\* A visitor hears again only what is left when all the rest is offered, for any
\* catalogue, any listens and whatever members do between two levels
\* (listSuggestions of mixes.service.ts).
THEOREM HeardOnlyAsLastResortAlways == SuggestionsSpec => []HeardOnlyAsLastResort
<1>1. SuggestionsInv => HeardOnlyAsLastResort
    BY DEF SuggestionsInv, LastResort, HeardOnlyAsLastResort, AllKept
<1> QED BY <1>1, SuggestionsInvInit, SuggestionsInvNext, PTL DEF SuggestionsSpec

(***************************************************************************)
(* The documents for machines.  What a reader holds is good because what   *)
(* an address says is never said of anything else: a name is chosen once   *)
(* and is the account's until it is deleted, a slug stays while a title    *)
(* changes, an identifier is never given again (Tient).  A copy is fresh   *)
(* when what was served is what the tables say, which for the sitemap its  *)
(* two queries must have read since the last change.                       *)
(***************************************************************************)

UnMix == [auteur : Deposants, slug : SlugsPris, audio : Audios, titre : Int, la : BOOLEAN]

\* Rows: one account to a name, one mix of an account to a slug, and no mix
\* without its account.
TablesEnOrdre(no, pa) ==
  /\ no \in [Deposants -> Appels \cup {SansNom, Parti}] /\ pa \in Seq(UnMix)
  /\ \A c, d \in Deposants : no[c] \in Appels /\ no[c] = no[d] => c = d
  /\ \A i \in DOMAIN pa : pa[i].la => no[pa[i].auteur] # Parti
  /\ \A i, k \in DOMAIN pa :
       pa[i].la /\ pa[k].la /\ pa[i].auteur = pa[k].auteur /\ pa[i].slug = pa[k].slug => i = k

\* An address, and what it was given for.
Tient(adresse, objet, no, pa) ==
  \/ objet = <<"site">>
  \/ adresse = <<"playlists">> /\ objet = <<"playlist">>
  \/ \E i : adresse = <<"mixes id", i>> /\ objet = <<"mix", i>>
  \/ \E i \in DOMAIN pa : \E n \in Appels :
       /\ adresse = <<"mixes", n, pa[i].slug>> /\ objet = <<"mix", i>>
       /\ no[pa[i].auteur] \in {n, Parti}
  \/ \E c \in Deposants : \E n \in Appels :
       adresse = <<"users", n>> /\ objet = <<"compte", c>> /\ no[c] \in {n, Parti}

\* Rows the sitemap has read.
LigneTient(l, no) == \E c \in Deposants : \E n \in Appels : l = <<c, n>> /\ no[c] \in {n, Parti}

Docs == {<<"aucun">>, <<"plan">>} \cup {<<"membre", c>> : c \in Deposants}
EnLecture(r, no, presents, lignes) ==
  /\ r \in [doc : Docs, mixes : {r.mixes}, comptes : {r.comptes}, intacte : BOOLEAN]
  /\ r.doc = <<"plan">> =>
       /\ r.mixes # PasLu => IsFiniteSet(r.mixes) /\ (r.intacte => r.mixes = presents)
       /\ r.comptes # PasLu => /\ IsFiniteSet(r.comptes) /\ \A l \in r.comptes : LigneTient(l, no)
                               /\ r.intacte => r.comptes = lignes

PublicationsInv ==
  /\ TablesEnOrdre(noms, parus)
  /\ Tient(lien.adresse, lien.objet, noms, parus)
  /\ EnLecture(requete, noms, Presents, LignesDeComptes)
  /\ copie \in [doc : {copie.doc}, contenu : {copie.contenu}, etag : {copie.contenu}, fraiche : BOOLEAN]
  /\ \E doc : doc = copie.doc /\ (copie.fraiche => copie.contenu = Rendu(doc))

LEMMA HeldIsGood ==
  ASSUME PublicationsInv
  PROVE  WhatIsHeldStaysGood
<1>1. TablesEnOrdre(noms, parus) /\ Tient(lien.adresse, lien.objet, noms, parus)
  BY DEF PublicationsInv
<1>2. {SansNom, Parti} \cap Appels = {}
  BY PublicationsAssumption
<1>3. ASSUME NEW i, lien.adresse = <<"mixes id", i>>, lien.objet = <<"mix", i>>, Vivant(lien.objet)
      PROVE  Mene(lien.adresse) = {lien.objet}
  <2> DEFINE a == lien.adresse
             o == lien.objet
  <2>a. a = <<"mixes id", i>> /\ o = <<"mix", i>>
    BY <1>3
  <2> HIDE DEF a, o
  <2>b. a[1] = "mixes id" /\ a[2] = i
    BY <2>a
  <2>c. o[1] = "mix" /\ o[2] = i
    BY <2>a
  <2>1. Vivant(o) => i \in Presents
    BY <2>c DEF Vivant
  <2>2. Mene(a) = ParIdentifiant(i)
    BY <2>b DEF Mene
  <2> USE DEF a, o
  <2> QED BY <1>3, <2>1, <2>2 DEF ParIdentifiant
<1>4. ASSUME NEW i \in DOMAIN parus, NEW n \in Appels, Vivant(lien.objet),
             lien.adresse = <<"mixes", n, parus[i].slug>>, lien.objet = <<"mix", i>>,
             noms[parus[i].auteur] \in {n, Parti}
      PROVE  Mene(lien.adresse) = {lien.objet}
  <2>1. i \in Presents /\ parus[i].la
    BY <1>4 DEF Vivant, Presents
  <2>2. noms[parus[i].auteur] = n
    BY <1>1, <1>4, <2>1 DEF TablesEnOrdre
  <2>3. Mene(lien.adresse) = ParSlug(n, parus[i].slug)
    BY <1>4 DEF Mene
  <2>4. ASSUME NEW k \in Presents, parus[k].slug = parus[i].slug, noms[parus[k].auteur] = n
        PROVE  k = i
    <3>1. k \in DOMAIN parus /\ parus[k].la
      BY DEF Presents
    <3>2. parus[k].auteur \in Deposants /\ parus[i].auteur \in Deposants
      <4>1. parus \in Seq(UnMix)
        BY <1>1 DEF TablesEnOrdre
      <4>2. parus[k] \in UnMix /\ parus[i] \in UnMix
        BY <3>1, <4>1
      <4> QED BY <4>2 DEF UnMix
    <3>3. parus[k].auteur = parus[i].auteur
      BY <1>1, <2>2, <2>4, <3>2 DEF TablesEnOrdre
    <3> QED BY <1>1, <2>1, <2>4, <3>1, <3>3 DEF TablesEnOrdre
  <2> QED BY <1>4, <2>1, <2>2, <2>3, <2>4 DEF ParSlug
<1>5. ASSUME NEW c \in Deposants, NEW n \in Appels, Vivant(lien.objet),
             lien.adresse = <<"users", n>>, lien.objet = <<"compte", c>>, noms[c] \in {n, Parti}
      PROVE  Mene(lien.adresse) = {lien.objet}
  <2>1. c \in Nommes
    BY <1>5 DEF Vivant
  <2>2. noms[c] = n
    BY <1>2, <1>5, <2>1 DEF Nommes
  <2>3. Mene(lien.adresse) = ParNom(n)
    BY <1>5 DEF Mene
  <2>4. \A d \in Nommes : noms[d] = n => d = c
    BY <1>1, <1>5, <2>2 DEF TablesEnOrdre, Nommes
  <2> QED BY <1>5, <2>1, <2>2, <2>3, <2>4 DEF ParNom
<1>6. lien.objet = <<"site">> => ~Vivant(lien.objet)
  BY DEF Vivant
<1>7. lien.adresse = <<"playlists">> /\ lien.objet = <<"playlist">> => Mene(lien.adresse) = {lien.objet}
  BY DEF Mene
<1>8. Vivant(lien.objet) => Mene(lien.adresse) = {lien.objet}
  BY <1>1, <1>3, <1>4, <1>5, <1>6, <1>7 DEF Tient
<1>9. copie.fraiche => copie.contenu = Rendu(copie.doc)
  BY DEF PublicationsInv
<1> QED BY <1>8, <1>9 DEF WhatIsHeldStaysGood

\* A set written as a sequence, in whatever order.
LEMMA WrittenOut ==
  ASSUME NEW S, IsFiniteSet(S)
  PROVE  ToSet(SetToSeq(S)) \subseteq S
<1>1. ExistsBijection(1..Cardinality(S), S)
  BY FS_CardinalityType
<1>2. \E f \in [1..Cardinality(S) -> S] : IsInjective(f)
  BY <1>1 DEF ExistsBijection, Bijection, Injection
<1>3. SetToSeq(S) \in [1..Cardinality(S) -> S]
  BY <1>2 DEF SetToSeq
<1> QED BY <1>3 DEF ToSet

LEMMA FiniteImage ==
  ASSUME NEW S, IsFiniteSet(S), NEW f, DOMAIN f = S, f = [x \in DOMAIN f |-> f[x]]
  PROVE  IsFiniteSet({f[x] : x \in S})
<1> DEFINE T == {f[x] : x \in S}
<1>1. f \in [S -> T]
  OBVIOUS
<1>2. \A y \in T : \E x \in S : f[x] = y
  OBVIOUS
<1> HIDE DEF T
<1>3. f \in Surjection(S, T)
  BY <1>1, <1>2 DEF Surjection
<1>4. IsFiniteSet(T)
  BY <1>3, FS_Surjection
<1> QED BY <1>4 DEF T

LEMMA RenduSame ==
  ASSUME UNCHANGED <<noms, parus, liste>>
  PROVE  \A doc : Rendu(doc)' = Rendu(doc)
BY DEF Rendu, FluxDuSite, FluxDuMembre, FluxDePlaylist, Plan, LignesDeComptes, ApercuDuMix, ApercuDuMembre,
       ApercuDePlaylist, Items, Item, Entree, Adressable, AdresseCanonique, Presents, De, Nommes

LEMMA ItemsTient ==
  ASSUME NEW s, NEW e \in ToSet(Items(s))
  PROVE  \E i : e.adresse = <<"mixes id", i>> /\ e.objet = <<"mix", i>>
<1>1. PICK k \in DOMAIN Premiers(s) : e = Item(s[k])
  BY DEF ToSet, Items
<1> QED BY <1>1 DEF Item, Entree

LEMMA PlanTient ==
  ASSUME NEW mixes, NEW comptes, IsFiniteSet(mixes), IsFiniteSet(comptes),
         \A l \in comptes : LigneTient(l, noms), NEW e \in ToSet(Plan(mixes, comptes))
  PROVE  Tient(e.adresse, e.objet, noms, parus)
<1> DEFINE A == {Entree(<<"mixes id", i>>, <<"mix", i>>, 0, <<>>) : i \in mixes}
           B == {Entree(<<"users", l[2]>>, <<"compte", l[1]>>, 0, <<>>) : l \in comptes}
           fa == [i \in mixes |-> Entree(<<"mixes id", i>>, <<"mix", i>>, 0, <<>>)]
           fb == [l \in comptes |-> Entree(<<"users", l[2]>>, <<"compte", l[1]>>, 0, <<>>)]
<1>1. IsFiniteSet(A)
  <2>1. A = {fa[i] : i \in mixes}
    OBVIOUS
  <2>2. DOMAIN fa = mixes /\ fa = [x \in DOMAIN fa |-> fa[x]]
    OBVIOUS
  <2> HIDE DEF fa, A
  <2> QED BY <2>1, <2>2, FiniteImage
<1>2. IsFiniteSet(B)
  <2>1. B = {fb[l] : l \in comptes}
    OBVIOUS
  <2>2. DOMAIN fb = comptes /\ fb = [x \in DOMAIN fb |-> fb[x]]
    OBVIOUS
  <2> HIDE DEF fb, B
  <2> QED BY <2>1, <2>2, FiniteImage
<1>3. e \in A \cup B
  <2>1. e \in ToSet(SetToSeq(A \cup B))
    BY DEF Plan
  <2> HIDE DEF A, B
  <2>2. IsFiniteSet(A \cup B)
    BY <1>1, <1>2, FS_Union
  <2> QED BY <2>1, <2>2, WrittenOut
<1>4. ASSUME NEW i \in mixes, e = Entree(<<"mixes id", i>>, <<"mix", i>>, 0, <<>>)
      PROVE  Tient(e.adresse, e.objet, noms, parus)
  <2>1. e.adresse = <<"mixes id", i>> /\ e.objet = <<"mix", i>>
    BY <1>4 DEF Entree
  <2> QED BY <2>1 DEF Tient
<1>5. ASSUME NEW l \in comptes, e = Entree(<<"users", l[2]>>, <<"compte", l[1]>>, 0, <<>>)
      PROVE  Tient(e.adresse, e.objet, noms, parus)
  <2>1. PICK c \in Deposants : \E n \in Appels : l = <<c, n>> /\ noms[c] \in {n, Parti}
    BY DEF LigneTient
  <2>2. PICK n \in Appels : l = <<c, n>> /\ noms[c] \in {n, Parti}
    BY <2>1
  <2>3. e.adresse = <<"users", n>> /\ e.objet = <<"compte", c>>
    BY <1>5, <2>2 DEF Entree
  <2> QED BY <2>2, <2>3 DEF Tient
<1> QED BY <1>3, <1>4, <1>5

\* A document of one entry.
LEMMA OneEntry ==
  ASSUME NEW x, NEW e \in ToSet(<<x>>)
  PROVE  e = x
BY DEF ToSet

LEMMA PreviewTient ==
  ASSUME TablesEnOrdre(noms, parus), NEW i, NEW e \in ToSet(ApercuDuMix(i)), i \in Presents
  PROVE  Tient(e.adresse, e.objet, noms, parus)
<1>1. e.adresse = AdresseCanonique(i) /\ e.objet = <<"mix", i>>
  <2>1. ApercuDuMix(i) = <<Entree(AdresseCanonique(i), <<"mix", i>>, parus[i].titre, Item(i).piece)>>
    BY DEF ApercuDuMix
  <2>2. e = Entree(AdresseCanonique(i), <<"mix", i>>, parus[i].titre, Item(i).piece)
    BY <2>1, OneEntry
  <2> QED BY <2>2 DEF Entree
<1>2. i \in DOMAIN parus
  BY DEF Presents
<1>3. CASE parus[i].auteur \in Nommes
  <2>1. AdresseCanonique(i) = <<"mixes", noms[parus[i].auteur], parus[i].slug>>
    BY <1>3 DEF AdresseCanonique
  <2>2. noms[parus[i].auteur] \in Appels
    BY <1>3 DEF Nommes
  <2> QED BY <1>1, <1>2, <2>1, <2>2 DEF Tient
<1>4. CASE parus[i].auteur \notin Nommes
  <2>1. AdresseCanonique(i) = <<"mixes id", i>>
    BY <1>4 DEF AdresseCanonique
  <2> QED BY <1>1, <2>1 DEF Tient
<1> QED BY <1>3, <1>4

LEMMA ProfileTient ==
  ASSUME NEW c \in Nommes, NEW e \in ToSet(ApercuDuMembre(c))
  PROVE  Tient(e.adresse, e.objet, noms, parus)
<1>1. e = Entree(<<"users", noms[c]>>, <<"compte", c>>, Len(Recents(De(c))), <<>>)
  BY OneEntry DEF ApercuDuMembre
<1>2. e.adresse = <<"users", noms[c]>> /\ e.objet = <<"compte", c>>
  BY <1>1 DEF Entree
<1>3. c \in Deposants /\ noms[c] \in Appels
  BY DEF Nommes
<1> QED BY <1>2, <1>3 DEF Tient

\* Servir, of a document whose addresses are good, and which is the one the
\* tables give if nothing was changed while it was made.
LEMMA ServedIsGood ==
  ASSUME PublicationsInv, NEW doc, NEW contenu, NEW intacte \in BOOLEAN, Servir(doc, contenu, intacte),
         \A e \in ToSet(contenu) : Tient(e.adresse, e.objet, noms, parus),
         intacte => contenu = Rendu(doc)
  PROVE  /\ TablesEnOrdre(noms', parus') /\ Tient(lien'.adresse, lien'.objet, noms', parus')
         /\ copie' \in [doc : {copie'.doc}, contenu : {copie'.contenu}, etag : {copie'.contenu}, fraiche : BOOLEAN]
         /\ \E d : d = copie'.doc /\ (copie'.fraiche => copie'.contenu = Rendu(d)')
<1>1. /\ TablesEnOrdre(noms, parus) /\ Tient(lien.adresse, lien.objet, noms, parus)
      /\ copie \in [doc : {copie.doc}, contenu : {copie.contenu}, etag : {copie.contenu}, fraiche : BOOLEAN]
  BY DEF PublicationsInv
<1>2. UNCHANGED <<noms, parus, liste>>
  BY DEF Servir
<1>3. Tient(lien'.adresse, lien'.objet, noms, parus)
  <2>1. CASE contenu = <<>>
    BY <1>1, <2>1 DEF Servir
  <2>2. CASE contenu # <<>>
    <3>1. PICK e \in ToSet(contenu) : lien' = [adresse |-> e.adresse, objet |-> e.objet]
      BY <2>2 DEF Servir
    <3> QED BY <3>1
  <2> QED BY <2>1, <2>2
<1>4. /\ copie'.doc = doc /\ copie'.contenu = contenu /\ copie'.fraiche = intacte
      /\ copie' \in [doc : {copie'.doc}, contenu : {copie'.contenu}, etag : {copie'.contenu}, fraiche : BOOLEAN]
  <2>1. CASE copie.doc = doc /\ copie.etag = Empreinte(contenu)
    <3>1. copie' = [copie EXCEPT !.fraiche = intacte] /\ copie.doc = doc /\ copie.contenu = contenu
      BY <1>1, <2>1 DEF Servir, Empreinte
    <3> QED BY <1>1, <3>1
  <2>2. CASE ~(copie.doc = doc /\ copie.etag = Empreinte(contenu))
    BY <2>2 DEF Servir, Empreinte
  <2> QED BY <2>1, <2>2
<1>5. Rendu(doc)' = Rendu(doc)
  BY <1>2, RenduSame
<1> QED BY <1>1, <1>2, <1>3, <1>4, <1>5

\* An address stays good while rows keep their author and slug, and a name is
\* given up only with its account.
LEMMA StillGood ==
  ASSUME NEW no, NEW pa, NEW no1, NEW pa1, TablesEnOrdre(no, pa), NEW adresse, NEW objet,
         Tient(adresse, objet, no, pa),
         \A i \in DOMAIN pa : i \in DOMAIN pa1 /\ pa1[i].auteur = pa[i].auteur /\ pa1[i].slug = pa[i].slug,
         \A c \in Deposants : no[c] \in Appels \cup {Parti} => no1[c] \in {no[c], Parti}
  PROVE  Tient(adresse, objet, no1, pa1)
<1>1. ASSUME NEW c \in Deposants, NEW n \in Appels, no[c] \in {n, Parti}
      PROVE  no1[c] \in {n, Parti}
  BY <1>1
<1>2. \A i \in DOMAIN pa : pa[i].auteur \in Deposants
  <2>1. \A i \in DOMAIN pa : pa[i] \in UnMix
    BY DEF TablesEnOrdre
  <2> QED BY <2>1 DEF UnMix
<1>3. ASSUME NEW i \in DOMAIN pa, NEW n \in Appels, adresse = <<"mixes", n, pa[i].slug>>, objet = <<"mix", i>>,
             no[pa[i].auteur] \in {n, Parti}
      PROVE  Tient(adresse, objet, no1, pa1)
  <2>1. /\ i \in DOMAIN pa1 /\ adresse = <<"mixes", n, pa1[i].slug>>
        /\ no1[pa1[i].auteur] \in {n, Parti}
    BY <1>1, <1>2, <1>3
  <2> QED BY <1>3, <2>1 DEF Tient
<1>4. ASSUME NEW c \in Deposants, NEW n \in Appels, adresse = <<"users", n>>, objet = <<"compte", c>>,
             no[c] \in {n, Parti}
      PROVE  Tient(adresse, objet, no1, pa1)
  <2>1. no1[c] \in {n, Parti}
    BY <1>1, <1>4
  <2> QED BY <1>4, <2>1 DEF Tient
<1>5. (\E i : adresse = <<"mixes id", i>> /\ objet = <<"mix", i>>) => Tient(adresse, objet, no1, pa1)
  BY DEF Tient
<1>6. objet = <<"site">> \/ (adresse = <<"playlists">> /\ objet = <<"playlist">>)
        => Tient(adresse, objet, no1, pa1)
  BY DEF Tient
<1> QED BY <1>3, <1>4, <1>5, <1>6 DEF Tient

LEMMA RowStillGood ==
  ASSUME NEW no, NEW no1, NEW l, LigneTient(l, no),
         \A c \in Deposants : no[c] \in Appels \cup {Parti} => no1[c] \in {no[c], Parti}
  PROVE  LigneTient(l, no1)
<1>1. PICK c \in Deposants : \E n \in Appels : l = <<c, n>> /\ no[c] \in {n, Parti}
  BY DEF LigneTient
<1>2. PICK n \in Appels : l = <<c, n>> /\ no[c] \in {n, Parti}
  BY <1>1
<1>3. no1[c] \in {n, Parti}
  BY <1>2
<1> QED BY <1>2, <1>3 DEF LigneTient

\* Any change of the tables, which leaves no copy and no request up to date.
LEMMA MovedIsGood ==
  ASSUME PublicationsInv, Bouger, TablesEnOrdre(noms', parus'),
         \A i \in DOMAIN parus : /\ i \in DOMAIN parus' /\ parus'[i].auteur = parus[i].auteur
                                 /\ parus'[i].slug = parus[i].slug,
         \A c \in Deposants : noms[c] \in Appels \cup {Parti} => noms'[c] \in {noms[c], Parti}
  PROVE  PublicationsInv'
<1>1. /\ TablesEnOrdre(noms, parus) /\ Tient(lien.adresse, lien.objet, noms, parus)
      /\ copie \in [doc : {copie.doc}, contenu : {copie.contenu}, etag : {copie.contenu}, fraiche : BOOLEAN]
      /\ EnLecture(requete, noms, Presents, LignesDeComptes)
  BY DEF PublicationsInv
<1>2. /\ lien' = lien /\ copie' = [copie EXCEPT !.fraiche = FALSE]
      /\ requete' = [requete EXCEPT !.intacte = FALSE]
  BY DEF Bouger
<1>3. Tient(lien'.adresse, lien'.objet, noms', parus')
  BY <1>1, <1>2, StillGood
<1>4. /\ copie'.fraiche = FALSE
      /\ copie' \in [doc : {copie'.doc}, contenu : {copie'.contenu}, etag : {copie'.contenu}, fraiche : BOOLEAN]
  BY <1>1, <1>2
<1>5. /\ requete' \in [doc : Docs, mixes : {requete'.mixes}, comptes : {requete'.comptes}, intacte : BOOLEAN]
      /\ requete'.intacte = FALSE /\ requete'.mixes = requete.mixes /\ requete'.comptes = requete.comptes
      /\ requete'.doc = requete.doc
  BY <1>1, <1>2 DEF EnLecture
<1>6. ASSUME NEW l, LigneTient(l, noms)
      PROVE  LigneTient(l, noms')
  BY <1>6, RowStillGood
<1>7. EnLecture(requete', noms', Presents', LignesDeComptes')
  BY <1>1, <1>5, <1>6 DEF EnLecture
<1> QED BY <1>3, <1>4, <1>7 DEF PublicationsInv

LEMMA PresentsFinite ==
  ASSUME TablesEnOrdre(noms, parus)
  PROVE  IsFiniteSet(Presents)
<1>1. parus \in Seq(UnMix)
  BY DEF TablesEnOrdre
<1>2. Presents \subseteq 1..Len(parus) /\ Len(parus) \in Int
  BY <1>1 DEF Presents
<1>3. IsFiniteSet(1..Len(parus))
  BY <1>2, FS_Interval
<1> QED BY <1>2, <1>3, FS_Subset

LEMMA RowsRead ==
  ASSUME TablesEnOrdre(noms, parus)
  PROVE  IsFiniteSet(LignesDeComptes) /\ \A l \in LignesDeComptes : LigneTient(l, noms)
<1>1. IsFiniteSet(Nommes)
  <2>1. Nommes \subseteq Deposants
    BY DEF Nommes
  <2> QED BY <2>1, PublicationsAssumption, FS_Subset
<1> DEFINE f == [c \in Nommes |-> <<c, noms[c]>>]
<1>2. LignesDeComptes = {f[c] : c \in Nommes}
  BY DEF LignesDeComptes
<1>3. DOMAIN f = Nommes /\ f = [x \in DOMAIN f |-> f[x]]
  OBVIOUS
<1>4. IsFiniteSet({f[c] : c \in Nommes})
  <2> HIDE DEF f
  <2> QED BY <1>1, <1>3, FiniteImage
<1>5. ASSUME NEW l \in LignesDeComptes
      PROVE  LigneTient(l, noms)
  <2>1. PICK c \in Nommes : l = <<c, noms[c]>>
    BY DEF LignesDeComptes
  <2>2. c \in Deposants /\ noms[c] \in Appels
    BY DEF Nommes
  <2> QED BY <2>1, <2>2 DEF LigneTient
<1> QED BY <1>2, <1>4, <1>5

\* Documents of one query.
LEMMA OneQueryServed ==
  ASSUME PublicationsInv, NEW doc, LireDocument(doc),
         \A e \in ToSet(Rendu(doc)) : Tient(e.adresse, e.objet, noms, parus)
  PROVE  PublicationsInv'
<1>1. Servir(doc, Rendu(doc), TRUE) /\ requete' = requete
  BY DEF LireDocument
<1>2. /\ TablesEnOrdre(noms', parus') /\ Tient(lien'.adresse, lien'.objet, noms', parus')
      /\ copie' \in [doc : {copie'.doc}, contenu : {copie'.contenu}, etag : {copie'.contenu}, fraiche : BOOLEAN]
      /\ \E d : d = copie'.doc /\ (copie'.fraiche => copie'.contenu = Rendu(d)')
  BY <1>1, ServedIsGood
<1>3. EnLecture(requete', noms', Presents', LignesDeComptes')
  <2>1. noms' = noms /\ parus' = parus
    BY <1>1 DEF Servir
  <2>2. Presents' = Presents /\ LignesDeComptes' = LignesDeComptes
    BY <2>1 DEF Presents, LignesDeComptes, Nommes
  <2>3. EnLecture(requete, noms, Presents, LignesDeComptes)
    BY DEF PublicationsInv
  <2> QED BY <1>1, <2>1, <2>2, <2>3
<1> QED BY <1>2, <1>3 DEF PublicationsInv

LEMMA ItemsHeld ==
  ASSUME NEW s
  PROVE  \A e \in ToSet(Items(s)) : Tient(e.adresse, e.objet, noms, parus)
BY ItemsTient DEF Tient

LEMMA DocumentsServed ==
  ASSUME PublicationsInv,
         \/ DemanderFeed(<<"site">>) \/ DemanderFeed(<<"playlist">>) \/ DemanderApercu(<<"vignette">>)
         \/ \E i \in DOMAIN parus : DemanderApercu(<<"apercu", i>>)
         \/ \E c \in Deposants : DemanderApercu(<<"profil", c>>)
  PROVE  PublicationsInv'
<1>1. CASE DemanderFeed(<<"site">>)
  <2>1. Rendu(<<"site">>) = Items(Recents(Presents))
    BY DEF Rendu, FluxDuSite
  <2>2. LireDocument(<<"site">>)
    BY <1>1 DEF DemanderFeed
  <2> QED BY <2>1, <2>2, ItemsHeld, OneQueryServed
<1>2. CASE DemanderFeed(<<"playlist">>)
  <2>1. Rendu(<<"playlist">>) = Items(liste)
    BY DEF Rendu, FluxDePlaylist
  <2>2. LireDocument(<<"playlist">>)
    BY <1>2 DEF DemanderFeed
  <2> QED BY <2>1, <2>2, ItemsHeld, OneQueryServed
<1>3. CASE DemanderApercu(<<"vignette">>)
  <2>1. Rendu(<<"vignette">>) = <<Entree(<<"playlists">>, <<"playlist">>, Len(liste), <<>>)>>
    BY DEF Rendu, ApercuDePlaylist
  <2>2. LireDocument(<<"vignette">>)
    BY <1>3 DEF DemanderApercu
  <2>3. ASSUME NEW e \in ToSet(Rendu(<<"vignette">>))
        PROVE  Tient(e.adresse, e.objet, noms, parus)
    <3>1. e = Entree(<<"playlists">>, <<"playlist">>, Len(liste), <<>>)
      BY <2>1, OneEntry
    <3>2. e.adresse = <<"playlists">> /\ e.objet = <<"playlist">>
      BY <3>1 DEF Entree
    <3> QED BY <3>2 DEF Tient
  <2> QED BY <2>2, <2>3, OneQueryServed
<1>4. ASSUME NEW i \in DOMAIN parus, DemanderApercu(<<"apercu", i>>)
      PROVE  PublicationsInv'
  <2> DEFINE doc == <<"apercu", i>>
  <2>1. Rendu(doc) = ApercuDuMix(i)
    BY DEF Rendu
  <2>2. LireDocument(doc) /\ Rendu(doc) # <<>>
    BY <1>4 DEF DemanderApercu
  <2>3. i \in Presents
    BY <2>1, <2>2 DEF ApercuDuMix
  <2>4. \A e \in ToSet(Rendu(doc)) : Tient(e.adresse, e.objet, noms, parus)
    BY <2>1, <2>3, PreviewTient DEF PublicationsInv
  <2> QED BY <2>2, <2>4, OneQueryServed
<1>5. ASSUME NEW c \in Deposants, DemanderApercu(<<"profil", c>>)
      PROVE  PublicationsInv'
  <2> DEFINE doc == <<"profil", c>>
  <2>1. Rendu(doc) = ApercuDuMembre(c)
    BY DEF Rendu
  <2>2. LireDocument(doc) /\ Rendu(doc) # <<>>
    BY <1>5 DEF DemanderApercu
  <2>3. c \in Nommes
    BY <2>1, <2>2 DEF ApercuDuMembre
  <2>4. \A e \in ToSet(Rendu(doc)) : Tient(e.adresse, e.objet, noms, parus)
    BY <2>1, <2>3, ProfileTient
  <2> QED BY <2>2, <2>4, OneQueryServed
<1> QED BY <1>1, <1>2, <1>3, <1>4, <1>5

\* A request of several queries, which changes nothing but itself.
LEMMA OnlyTheRequest ==
  ASSUME PublicationsInv, UNCHANGED <<noms, parus, liste, lien, copie>>,
         EnLecture(requete', noms, Presents, LignesDeComptes)
  PROVE  PublicationsInv'
<1>1. Presents' = Presents /\ LignesDeComptes' = LignesDeComptes
  BY DEF Presents, LignesDeComptes, Nommes
<1>2. \A doc : Rendu(doc)' = Rendu(doc)
  BY RenduSame
<1> QED BY <1>1, <1>2 DEF PublicationsInv

LEMMA RequestsRead ==
  ASSUME PublicationsInv,
         (\E c \in Deposants : DemanderMembre(c)) \/ DemanderPlan \/ LireMixesDuPlan \/ LireComptesDuPlan
  PROVE  PublicationsInv'
<1>1. /\ TablesEnOrdre(noms, parus) /\ EnLecture(requete, noms, Presents, LignesDeComptes)
  BY DEF PublicationsInv
<1>2. ASSUME NEW c \in Deposants, DemanderMembre(c)
      PROVE  PublicationsInv'
  <2>1. /\ requete'.doc = <<"membre", c>> /\ requete'.doc # <<"plan">>
        /\ requete' \in [doc : Docs, mixes : {requete'.mixes}, comptes : {requete'.comptes}, intacte : BOOLEAN]
        /\ UNCHANGED <<noms, parus, liste, lien, copie>>
    BY <1>2 DEF DemanderMembre, Docs
  <2> QED BY <2>1, OnlyTheRequest DEF EnLecture
<1>3. CASE DemanderPlan
  <2>1. /\ requete'.mixes = PasLu /\ requete'.comptes = PasLu
        /\ requete' \in [doc : Docs, mixes : {requete'.mixes}, comptes : {requete'.comptes}, intacte : BOOLEAN]
        /\ UNCHANGED <<noms, parus, liste, lien, copie>>
    BY <1>3 DEF DemanderPlan, Docs
  <2> QED BY <2>1, OnlyTheRequest DEF EnLecture
<1>4. CASE LireMixesDuPlan
  <2>1. /\ requete' = [requete EXCEPT !.mixes = Presents] /\ UNCHANGED <<noms, parus, liste, lien, copie>>
    BY <1>4 DEF LireMixesDuPlan
  <2>2. /\ requete'.doc = requete.doc /\ requete'.mixes = Presents /\ requete'.comptes = requete.comptes
        /\ requete'.intacte = requete.intacte
        /\ requete' \in [doc : Docs, mixes : {requete'.mixes}, comptes : {requete'.comptes}, intacte : BOOLEAN]
    BY <1>1, <2>1 DEF EnLecture
  <2>3. IsFiniteSet(Presents)
    BY <1>1, PresentsFinite
  <2>4. EnLecture(requete', noms, Presents, LignesDeComptes)
    BY <1>1, <2>2, <2>3 DEF EnLecture
  <2> QED BY <2>1, <2>4, OnlyTheRequest
<1>5. CASE LireComptesDuPlan
  <2>1. /\ requete' = [requete EXCEPT !.comptes = LignesDeComptes] /\ UNCHANGED <<noms, parus, liste, lien, copie>>
    BY <1>5 DEF LireComptesDuPlan
  <2>2. /\ requete'.doc = requete.doc /\ requete'.comptes = LignesDeComptes /\ requete'.mixes = requete.mixes
        /\ requete'.intacte = requete.intacte
        /\ requete' \in [doc : Docs, mixes : {requete'.mixes}, comptes : {requete'.comptes}, intacte : BOOLEAN]
    BY <1>1, <2>1 DEF EnLecture
  <2>3. IsFiniteSet(LignesDeComptes) /\ \A l \in LignesDeComptes : LigneTient(l, noms)
    BY <1>1, RowsRead
  <2>4. EnLecture(requete', noms, Presents, LignesDeComptes)
    BY <1>1, <2>2, <2>3 DEF EnLecture
  <2> QED BY <2>1, <2>4, OnlyTheRequest
<1> QED BY <1>2, <1>3, <1>4, <1>5

LEMMA RequestsAnswered ==
  ASSUME PublicationsInv, RepondrePlan \/ RepondreMembre
  PROVE  PublicationsInv'
<1>1. TablesEnOrdre(noms, parus) /\ EnLecture(requete, noms, Presents, LignesDeComptes)
  BY DEF PublicationsInv
<1>2. requete.intacte \in BOOLEAN /\ requete.doc \in Docs
  BY <1>1 DEF EnLecture
<1>3. requete' = SansRequete
  BY DEF RepondrePlan, RepondreMembre
<1>4. EnLecture(requete', noms', Presents', LignesDeComptes')
  <2>1. /\ requete'.doc = <<"aucun">> /\ requete'.doc # <<"plan">>
        /\ requete' \in [doc : Docs, mixes : {requete'.mixes}, comptes : {requete'.comptes}, intacte : BOOLEAN]
    BY <1>3 DEF SansRequete, Docs
  <2> QED BY <2>1 DEF EnLecture
<1>5. ASSUME NEW contenu, Servir(requete.doc, contenu, requete.intacte),
             \A e \in ToSet(contenu) : Tient(e.adresse, e.objet, noms, parus),
             requete.intacte => contenu = Rendu(requete.doc)
      PROVE  PublicationsInv'
  <2>1. /\ TablesEnOrdre(noms', parus') /\ Tient(lien'.adresse, lien'.objet, noms', parus')
        /\ copie' \in [doc : {copie'.doc}, contenu : {copie'.contenu}, etag : {copie'.contenu}, fraiche : BOOLEAN]
        /\ \E d : d = copie'.doc /\ (copie'.fraiche => copie'.contenu = Rendu(d)')
    BY <1>2, <1>5, ServedIsGood
  <2> QED BY <1>4, <2>1 DEF PublicationsInv
<1>6. CASE RepondrePlan
  <2> DEFINE m == requete.mixes
             cs == requete.comptes
  <2>1. requete.doc = <<"plan">> /\ m # PasLu /\ cs # PasLu
    BY <1>6 DEF RepondrePlan
  <2>2. Servir(requete.doc, Plan(m, cs), requete.intacte)
    BY <1>6 DEF RepondrePlan
  <2>3. /\ IsFiniteSet(m) /\ IsFiniteSet(cs) /\ \A l \in cs : LigneTient(l, noms)
        /\ requete.intacte => m = Presents /\ cs = LignesDeComptes
    BY <1>1, <2>1 DEF EnLecture
  <2>4. \A e \in ToSet(Plan(m, cs)) : Tient(e.adresse, e.objet, noms, parus)
    BY <2>3, PlanTient
  <2>5. Rendu(requete.doc) = Plan(Presents, LignesDeComptes)
    BY <2>1 DEF Rendu
  <2>6. requete.intacte => Plan(m, cs) = Rendu(requete.doc)
    BY <2>3, <2>5
  <2> QED BY <1>5, <2>2, <2>4, <2>6
<1>7. CASE RepondreMembre
  <2>1. requete.doc[1] = "membre" /\ Servir(requete.doc, Rendu(requete.doc), requete.intacte)
    BY <1>7 DEF RepondreMembre
  <2>2. PICK c \in Deposants : requete.doc = <<"membre", c>>
    BY <1>2, <2>1 DEF Docs
  <2>3. Rendu(requete.doc) = Items(Recents(De(c)))
    BY <2>2 DEF Rendu, FluxDuMembre
  <2> QED BY <1>5, <2>1, <2>3, ItemsHeld
<1> QED BY <1>6, <1>7

\* The tables change, one row or one account at a time.
LEMMA Tables ==
  ASSUME NEW no, NEW pa, TablesEnOrdre(no, pa)
  PROVE  /\ no \in [Deposants -> Appels \cup {SansNom, Parti}] /\ pa \in Seq(UnMix)
         /\ \A i \in DOMAIN pa : pa[i] \in UnMix /\ pa[i].auteur \in Deposants
         /\ \A c, d \in Deposants : no[c] \in Appels /\ no[c] = no[d] => c = d
         /\ \A i \in DOMAIN pa : pa[i].la => no[pa[i].auteur] # Parti
         /\ \A i, k \in DOMAIN pa :
              pa[i].la /\ pa[k].la /\ pa[i].auteur = pa[k].auteur /\ pa[i].slug = pa[k].slug => i = k
<1>1. \A i \in DOMAIN pa : pa[i] \in UnMix
  BY DEF TablesEnOrdre
<1> QED BY <1>1 DEF TablesEnOrdre, UnMix

LEMMA Published ==
  ASSUME PublicationsInv, NEW c \in Deposants, NEW s \in SlugsPris, NEW a \in Audios, Deposer(c, s, a)
  PROVE  PublicationsInv'
<1>1. TablesEnOrdre(noms, parus)
  BY DEF PublicationsInv
<1> DEFINE m == NouveauMix(c, s, a)
<1>2. /\ Bouger /\ noms' = noms /\ parus' = Append(parus, m) /\ noms[c] # Parti
      /\ \A i \in DOMAIN parus : parus[i].la /\ parus[i].auteur = c => parus[i].slug # s
  BY DEF Deposer, De, Presents
<1>3. m \in UnMix /\ m.auteur = c /\ m.slug = s
  BY DEF NouveauMix, UnMix
<1> HIDE DEF m
<1>4. /\ parus' \in Seq(UnMix) /\ DOMAIN parus' = DOMAIN parus \cup {Len(parus) + 1}
      /\ parus'[Len(parus) + 1] = m /\ \A i \in DOMAIN parus : parus'[i] = parus[i]
      /\ Len(parus) + 1 \notin DOMAIN parus
  BY <1>1, <1>2, <1>3 DEF TablesEnOrdre
<1>5. TablesEnOrdre(noms', parus')
  <2> DEFINE n == Len(parus) + 1
             p1 == parus'
  <2>1. /\ p1 \in Seq(UnMix) /\ DOMAIN p1 = DOMAIN parus \cup {n} /\ n \notin DOMAIN parus
        /\ p1[n].auteur = c /\ p1[n].slug = s /\ \A i \in DOMAIN parus : p1[i] = parus[i]
    BY <1>3, <1>4
  <2> HIDE DEF n, p1
  <2>2. \A i \in DOMAIN p1 : p1[i].la => noms[p1[i].auteur] # Parti
    BY <1>1, <1>2, <2>1, Tables
  <2>3. \A i, k \in DOMAIN p1 :
          p1[i].la /\ p1[k].la /\ p1[i].auteur = p1[k].auteur /\ p1[i].slug = p1[k].slug => i = k
    BY <1>1, <1>2, <2>1, Tables
  <2>4. TablesEnOrdre(noms, p1)
    BY <1>1, <2>1, <2>2, <2>3, Tables DEF TablesEnOrdre
  <2> QED BY <1>2, <2>4 DEF p1
<1> QED BY <1>2, <1>4, <1>5, MovedIsGood

\* One row changes, and keeps its author and slug.
LEMMA RowChanged ==
  ASSUME NEW no, NEW pa, TablesEnOrdre(no, pa), NEW i \in DOMAIN pa, NEW m \in UnMix,
         m.auteur = pa[i].auteur, m.slug = pa[i].slug, m.la => pa[i].la,
         NEW pa1, pa1 = [pa EXCEPT ![i] = m]
  PROVE  /\ TablesEnOrdre(no, pa1)
         /\ \A k \in DOMAIN pa : k \in DOMAIN pa1 /\ pa1[k].auteur = pa[k].auteur /\ pa1[k].slug = pa[k].slug
<1>1. pa \in Seq(UnMix)
  BY Tables
<1>2. DOMAIN pa1 = DOMAIN pa /\ \A k \in DOMAIN pa : pa1[k] = IF k = i THEN m ELSE pa[k]
  BY <1>1
<1>3. pa1 \in Seq(UnMix)
  BY <1>1
<1>4. \A k \in DOMAIN pa : /\ pa1[k].auteur = pa[k].auteur /\ pa1[k].slug = pa[k].slug
                           /\ pa1[k].la => pa[k].la
  BY <1>2
<1>5. \A k \in DOMAIN pa1 : pa1[k].la => no[pa1[k].auteur] # Parti
  BY <1>2, <1>4, Tables
<1>6. \A k, l \in DOMAIN pa1 :
        pa1[k].la /\ pa1[l].la /\ pa1[k].auteur = pa1[l].auteur /\ pa1[k].slug = pa1[l].slug => k = l
  BY <1>2, <1>4, Tables
<1> QED BY <1>2, <1>3, <1>4, <1>5, <1>6, Tables DEF TablesEnOrdre

LEMMA OneRow ==
  ASSUME NEW m \in UnMix, NEW a \in Audios
  PROVE  /\ Corrige(m, a) \in UnMix /\ Corrige(m, a).auteur = m.auteur /\ Corrige(m, a).slug = m.slug
         /\ Corrige(m, a).la = m.la
         /\ Retire(m) \in UnMix /\ Retire(m).auteur = m.auteur /\ Retire(m).slug = m.slug /\ ~Retire(m).la
<1> DEFINE m1 == [m EXCEPT !.titre = 3 - @]
<1>1. m1 \in UnMix /\ m1.auteur = m.auteur /\ m1.slug = m.slug /\ m1.la = m.la
  BY DEF UnMix
<1>2. Corrige(m, a) = [m1 EXCEPT !.audio = a]
  BY DEF Corrige
<1>3. /\ Corrige(m, a) \in UnMix /\ Corrige(m, a).auteur = m.auteur /\ Corrige(m, a).slug = m.slug
      /\ Corrige(m, a).la = m.la
  <2> HIDE DEF m1
  <2>1. [m1 EXCEPT !.audio = a] \in UnMix
    BY <1>1 DEF UnMix
  <2>2. /\ [m1 EXCEPT !.audio = a].auteur = m1.auteur /\ [m1 EXCEPT !.audio = a].slug = m1.slug
        /\ [m1 EXCEPT !.audio = a].la = m1.la
    BY <1>1 DEF UnMix
  <2> QED BY <1>1, <1>2, <2>1, <2>2
<1>4. Retire(m) \in UnMix /\ Retire(m).auteur = m.auteur /\ Retire(m).slug = m.slug /\ ~Retire(m).la
  BY DEF Retire, UnMix
<1> QED BY <1>3, <1>4

LEMMA Corrected ==
  ASSUME PublicationsInv, NEW i \in DOMAIN parus,
         OterMix(i) \/ (\E a \in Audios : Retoucher(i, a)) \/ Ranger(i)
  PROVE  PublicationsInv'
<1>1. TablesEnOrdre(noms, parus) /\ parus[i] \in UnMix
  BY Tables DEF PublicationsInv
<1>2. \A c \in Deposants : noms[c] \in {noms[c], Parti}
  OBVIOUS
<1>3. ASSUME NEW m \in UnMix, m.auteur = parus[i].auteur, m.slug = parus[i].slug, m.la => parus[i].la,
             Bouger, noms' = noms, parus' = [parus EXCEPT ![i] = m]
      PROVE  PublicationsInv'
  <2> DEFINE p1 == parus'
  <2>1. p1 = [parus EXCEPT ![i] = m]
    BY <1>3
  <2> HIDE DEF p1
  <2>2. /\ TablesEnOrdre(noms, p1)
        /\ \A k \in DOMAIN parus : k \in DOMAIN p1 /\ p1[k].auteur = parus[k].auteur /\ p1[k].slug = parus[k].slug
    BY <1>1, <1>3, <2>1, RowChanged
  <2> USE DEF p1
  <2> QED BY <1>2, <1>3, <2>2, MovedIsGood
<1>4. CASE OterMix(i)
  BY <1>1, <1>3, <1>4, OneRow DEF OterMix, Audios
<1>5. ASSUME NEW a \in Audios, Retoucher(i, a)
      PROVE  PublicationsInv'
  <2>1. /\ Corrige(parus[i], a) \in UnMix /\ Corrige(parus[i], a).auteur = parus[i].auteur
        /\ Corrige(parus[i], a).slug = parus[i].slug /\ Corrige(parus[i], a).la = parus[i].la
    BY <1>1, OneRow
  <2>2. Bouger /\ noms' = noms /\ parus' = [parus EXCEPT ![i] = Corrige(parus[i], a)]
    BY <1>5 DEF Retoucher
  <2> QED BY <1>3, <2>1, <2>2
<1>6. CASE Ranger(i)
  <2>1. Bouger /\ noms' = noms /\ parus' = parus
    BY <1>6 DEF Ranger
  <2> QED BY <1>1, <2>1, MovedIsGood
<1> QED BY <1>4, <1>5, <1>6

LEMMA Named ==
  ASSUME PublicationsInv, NEW c \in Deposants, NEW n \in Appels, Nommer(c, n)
  PROVE  PublicationsInv'
<1>1. TablesEnOrdre(noms, parus) /\ noms \in [Deposants -> Appels \cup {SansNom, Parti}]
  BY Tables DEF PublicationsInv
<1>2. /\ Bouger /\ parus' = parus /\ noms' = [noms EXCEPT ![c] = n] /\ noms[c] = SansNom
      /\ \A d \in Deposants : noms[d] # n
  BY DEF Nommer
<1>3. /\ noms' \in [Deposants -> Appels \cup {SansNom, Parti}]
      /\ \A d \in Deposants : noms'[d] = IF d = c THEN n ELSE noms[d]
  BY <1>1, <1>2
<1>4. SansNom \notin Appels \cup {Parti} /\ Parti \notin Appels
  BY PublicationsAssumption
<1>5. TablesEnOrdre(noms', parus')
  <2> DEFINE n1 == noms'
  <2>1. n1 \in [Deposants -> Appels \cup {SansNom, Parti}] /\ \A d \in Deposants : n1[d] = IF d = c THEN n ELSE noms[d]
    BY <1>3
  <2> HIDE DEF n1
  <2>2. \A d, e \in Deposants : n1[d] \in Appels /\ n1[d] = n1[e] => d = e
    BY <1>1, <1>2, <2>1, Tables
  <2>3. \A i \in DOMAIN parus : parus[i].la => n1[parus[i].auteur] # Parti
    BY <1>1, <1>4, <2>1, Tables
  <2>4. TablesEnOrdre(n1, parus)
    BY <1>1, <2>1, <2>2, <2>3, Tables DEF TablesEnOrdre
  <2> QED BY <1>2, <2>4 DEF n1
<1>6. \A d \in Deposants : noms[d] \in Appels \cup {Parti} => noms'[d] \in {noms[d], Parti}
  BY <1>2, <1>3, <1>4
<1> QED BY <1>2, <1>5, <1>6, MovedIsGood

LEMMA Gone ==
  ASSUME PublicationsInv, NEW c \in Deposants, QuitterSite(c)
  PROVE  PublicationsInv'
<1>1. TablesEnOrdre(noms, parus) /\ noms \in [Deposants -> Appels \cup {SansNom, Parti}]
  BY Tables DEF PublicationsInv
<1>2. /\ Bouger /\ noms' = [noms EXCEPT ![c] = Parti]
      /\ parus' = [i \in DOMAIN parus |-> IF parus[i].auteur = c THEN Retire(parus[i]) ELSE parus[i]]
  BY DEF QuitterSite
<1> DEFINE n1 == noms'
           p1 == parus'
<1>3. /\ n1 \in [Deposants -> Appels \cup {SansNom, Parti}]
      /\ \A d \in Deposants : n1[d] = IF d = c THEN Parti ELSE noms[d]
  BY <1>1, <1>2
<1>4. \A i \in DOMAIN parus : /\ parus[i] \in UnMix
                              /\ Retire(parus[i]) \in UnMix /\ Retire(parus[i]).auteur = parus[i].auteur
                              /\ Retire(parus[i]).slug = parus[i].slug /\ ~Retire(parus[i]).la
  <2>1. \A i \in DOMAIN parus : parus[i] \in UnMix
    BY <1>1, Tables
  <2>2. "cadre" \in Audios
    BY DEF Audios
  <2> QED BY <2>1, <2>2, OneRow
<1>5. /\ DOMAIN p1 = DOMAIN parus
      /\ \A i \in DOMAIN parus : /\ p1[i] \in UnMix /\ p1[i].auteur = parus[i].auteur /\ p1[i].slug = parus[i].slug
                                 /\ p1[i].la => parus[i].la /\ parus[i].auteur # c
  BY <1>2, <1>4
<1>6. p1 \in Seq(UnMix)
  <2>1. parus \in Seq(UnMix)
    BY <1>1, Tables
  <2>2. Len(parus) \in Nat /\ DOMAIN parus = 1..Len(parus)
    BY <2>1
  <2>3. p1 = [i \in 1..Len(parus) |-> p1[i]]
    BY <1>2, <2>2
  <2> HIDE DEF p1
  <2>4. p1 \in [1..Len(parus) -> UnMix]
    BY <1>5, <2>2, <2>3
  <2> QED BY <2>2, <2>4
<1> HIDE DEF n1, p1
<1>7. Parti \notin Appels
  BY PublicationsAssumption
<1>8. TablesEnOrdre(n1, p1)
  <2>1. \A d, e \in Deposants : n1[d] \in Appels /\ n1[d] = n1[e] => d = e
    BY <1>1, <1>3, <1>7, Tables
  <2>2. \A i \in DOMAIN p1 : p1[i].la => n1[p1[i].auteur] # Parti
    BY <1>1, <1>3, <1>5, Tables
  <2>3. \A i, k \in DOMAIN p1 :
          p1[i].la /\ p1[k].la /\ p1[i].auteur = p1[k].auteur /\ p1[i].slug = p1[k].slug => i = k
    BY <1>1, <1>5, Tables
  <2> QED BY <1>3, <1>6, <2>1, <2>2, <2>3 DEF TablesEnOrdre
<1>9. \A d \in Deposants : n1[d] \in {noms[d], Parti}
  BY <1>3
<1> USE DEF n1, p1
<1> QED BY <1>2, <1>5, <1>8, <1>9, MovedIsGood

LEMMA PublicationsStarts == PublicationsInit => PublicationsInv
<1>1. SUFFICES ASSUME PublicationsInit PROVE PublicationsInv
  OBVIOUS
<1>2. PICK c \in Deposants, d \in Deposants, s \in SlugsPris, t \in SlugsPris, a \in Audios :
        (c = d => s # t) /\ parus = <<NouveauMix(c, s, a), NouveauMix(d, t, a)>>
  BY <1>1 DEF PublicationsInit
<1> DEFINE m == NouveauMix(c, s, a)
           n == NouveauMix(d, t, a)
<1>3. /\ m \in UnMix /\ m.auteur = c /\ m.slug = s
      /\ n \in UnMix /\ n.auteur = d /\ n.slug = t
  BY DEF NouveauMix, UnMix
<1> HIDE DEF m, n
<1>4. /\ parus \in Seq(UnMix) /\ DOMAIN parus = {1, 2} /\ parus[1] = m /\ parus[2] = n
  <2>1. parus = <<m, n>>
    BY <1>2 DEF m, n
  <2> QED BY <1>3, <2>1
<1>5. noms \in [Deposants -> Appels \cup {SansNom}] /\ Parti \notin Appels \cup {SansNom}
  BY <1>1, PublicationsAssumption DEF PublicationsInit
<1>6. TablesEnOrdre(noms, parus)
  <2>1. \A e, f \in Deposants : noms[e] \in Appels /\ noms[e] = noms[f] => e = f
    BY <1>1 DEF PublicationsInit, Nommes
  <2>2. \A i \in DOMAIN parus : noms[parus[i].auteur] # Parti
    BY <1>3, <1>4, <1>5
  <2>3. \A i, k \in DOMAIN parus : parus[i].auteur = parus[k].auteur /\ parus[i].slug = parus[k].slug => i = k
    BY <1>2, <1>3, <1>4
  <2> QED BY <1>4, <1>5, <2>1, <2>2, <2>3 DEF TablesEnOrdre
<1>7. Tient(lien.adresse, lien.objet, noms, parus)
  BY <1>1 DEF PublicationsInit, Tient
<1>8. EnLecture(requete, noms, Presents, LignesDeComptes)
  <2>1. /\ requete.doc = <<"aucun">> /\ requete.doc # <<"plan">>
        /\ requete \in [doc : Docs, mixes : {requete.mixes}, comptes : {requete.comptes}, intacte : BOOLEAN]
    BY <1>1 DEF PublicationsInit, SansRequete, Docs
  <2> QED BY <2>1 DEF EnLecture
<1>9. /\ copie \in [doc : {copie.doc}, contenu : {copie.contenu}, etag : {copie.contenu}, fraiche : BOOLEAN]
      /\ copie.fraiche = FALSE
  BY <1>1 DEF PublicationsInit, SansCopie
<1> QED BY <1>6, <1>7, <1>8, <1>9 DEF PublicationsInv

\* What readers hold stays good: an address a feed, a preview or the sitemap
\* gave leads to what it was given for while that exists, and a copy renewed
\* by its ETag after the last change is the document (feeds.service.ts,
\* sitemap.service.ts, preview.service.ts), for any members, mixes and names.
THEOREM WhatIsHeldStaysGoodAlways ==
  PublicationsInit /\ [][PublicationsNext]_publicationsVars => []WhatIsHeldStaysGood
<1>1. PublicationsInv /\ [PublicationsNext]_publicationsVars => PublicationsInv'
  <2>1. SUFFICES ASSUME PublicationsInv, [PublicationsNext]_publicationsVars PROVE PublicationsInv'
    OBVIOUS
  <2>2. CASE UNCHANGED publicationsVars
    <3>1. UNCHANGED <<noms, parus, liste, lien, copie>> /\ requete' = requete
      BY <2>2 DEF publicationsVars
    <3>2. EnLecture(requete', noms, Presents, LignesDeComptes)
      BY <2>1, <3>1 DEF PublicationsInv
    <3> QED BY <2>1, <3>1, <3>2, OnlyTheRequest
  <2>3. CASE PublicationsNext
    BY <2>1, <2>3, DocumentsServed, RequestsRead, RequestsAnswered, Published, Corrected, Named, Gone
       DEF PublicationsNext
  <2> QED BY <2>1, <2>2, <2>3
<1> QED BY <1>1, PublicationsStarts, HeldIsGood, PTL

(***************************************************************************)
(* The recovery budgets.  What a key was accepted for and the dates its    *)
(* entry holds are filtered by different windows at different times, and   *)
(* yet say the same of the window that is open now (SameBudget), because   *)
(* a filter of a filter is the narrower one, a swept entry has its dates   *)
(* in order, and an evicted key starts again.                              *)
(***************************************************************************)

\* What holds of zero, and of a number when of the one before, holds of all.
LEMMA EveryNumber ==
  ASSUME NEW A, 0 \in A, \A n \in Nat : n \in A => n + 1 \in A
  PROVE  Nat \subseteq A
<1> SUFFICES ASSUME ~(Nat \subseteq A) PROVE FALSE
    OBVIOUS
<1> DEFINE T == Nat \ A
<1>1. T \subseteq Nat /\ T # {}
    OBVIOUS
<1>2. PICK x \in T : \A y \in T : ~(<<y, x>> \in OpToRel(<, Nat))
    BY <1>1, NatLessThanWellFounded, WFMin
<1>3. \A y \in T : ~(y < x)
    BY <1>1, <1>2 DEF OpToRel
<1>4. x \in Nat /\ x # 0
    BY <1>1
<1>5. x - 1 \in Nat /\ x - 1 < x
    BY <1>4
<1>6. x - 1 \in A
    BY <1>3, <1>5
<1> QED BY <1>5, <1>6, <1>4

\* The same of sequences, from the empty one and one element at a time.
LEMMA EverySequence ==
  ASSUME NEW S, NEW A, <<>> \in A,
         \A s \in Seq(S), e \in S : s \in A => Append(s, e) \in A
  PROVE  Seq(S) \subseteq A
<1> DEFINE B == {n \in Nat : \A s \in Seq(S) : Len(s) = n => s \in A}
<1>1. 0 \in B
  <2>1. \A s \in Seq(S) : Len(s) = 0 => s = <<>>
      OBVIOUS
  <2> QED BY <2>1
<1>2. \A n \in Nat : n \in B => n + 1 \in B
  <2> SUFFICES ASSUME NEW n \in Nat, n \in B, NEW s \in Seq(S), Len(s) = n + 1
               PROVE  s \in A
      OBVIOUS
  <2>1. s # <<>>
      OBVIOUS
  <2>2. PICK t \in Seq(S), e \in S : s = Append(t, e)
      BY <2>1, SequenceEmptyOrAppend
  <2>3. Len(t) = n
      BY <2>2
  <2> QED BY <2>2, <2>3
<1> HIDE DEF B
<1>3. Nat \subseteq B
    BY <1>1, <1>2, EveryNumber
<1>4. \A s \in Seq(S) : Len(s) \in B
    BY <1>3
<1> QED BY <1>4 DEF B

-----------------------------------------------------------------------------
(* The filter.                                                             *)

Etape(g, s, I, i) == IF i \in I THEN Append(g[i - 1], s[i]) ELSE g[i - 1]

\* The stages g of the filter of s, up to n.
Etapes(g, s, I, n) ==
  /\ g = [i \in 0..n |-> g[i]] /\ g[0] = <<>>
  /\ \A i \in 1..n : g[i] = Etape(g, s, I, i)

LEMMA StagesExist ==
  ASSUME NEW s, NEW I
  PROVE  \A n \in Nat : \E g : Etapes(g, s, I, n)
<1> DEFINE A == {n \in Nat : \E g : Etapes(g, s, I, n)}
<1>1. 0 \in A
  <2> DEFINE g == [i \in 0..0 |-> <<>>]
  <2>1. Etapes(g, s, I, 0)
      BY DEF Etapes
  <2> QED BY <2>1
<1>2. \A n \in Nat : n \in A => n + 1 \in A
  <2> SUFFICES ASSUME NEW n \in Nat, n \in A PROVE n + 1 \in A
      OBVIOUS
  <2>1. PICK g : Etapes(g, s, I, n)
      OBVIOUS
  <2> DEFINE h == [i \in 0..(n + 1) |-> IF i <= n THEN g[i] ELSE Etape(g, s, I, n + 1)]
  <2>2. \A i \in 0..n : h[i] = g[i]
      OBVIOUS
  <2>3. h[n + 1] = Etape(g, s, I, n + 1)
      OBVIOUS
  <2>4. h[0] = <<>>
      BY <2>1, <2>2 DEF Etapes
  <2>5. h = [i \in 0..(n + 1) |-> h[i]]
      OBVIOUS
  <2> HIDE DEF h
  <2>6. \A i \in 1..n : h[i] = Etape(h, s, I, i)
    <3> SUFFICES ASSUME NEW i \in 1..n PROVE h[i] = Etape(h, s, I, i)
        OBVIOUS
    <3>1. i \in 0..n /\ i - 1 \in 0..n
        OBVIOUS
    <3>2. h[i] = g[i] /\ h[i - 1] = g[i - 1]
        BY <2>2, <3>1
    <3> QED BY <2>1, <3>2 DEF Etapes, Etape
  <2>7. h[n + 1] = Etape(h, s, I, n + 1)
    <3>1. h[(n + 1) - 1] = g[(n + 1) - 1]
        BY <2>2
    <3> QED BY <2>3, <3>1 DEF Etape
  <2>8. \A i \in 1..(n + 1) : h[i] = Etape(h, s, I, i)
      BY <2>6, <2>7
  <2>9. Etapes(h, s, I, n + 1)
      BY <2>4, <2>5, <2>8 DEF Etapes
  <2> QED BY <2>9
<1> HIDE DEF A
<1>3. Nat \subseteq A
    BY <1>1, <1>2, EveryNumber
<1> QED BY <1>3 DEF A

\* Two filters that keep the same of two sequences agree.
LEMMA StagesAgree ==
  ASSUME NEW s, NEW t, NEW I, NEW J, NEW m \in Nat, NEW n \in Nat, m <= n,
         NEW g, Etapes(g, s, I, m), NEW h, Etapes(h, t, J, n),
         \A i \in 1..m : (i \in I <=> i \in J) /\ (i \in I => s[i] = t[i])
  PROVE  g[m] = h[m]
<1> DEFINE A == {i \in Nat : i <= m => g[i] = h[i]}
<1>1. 0 \in A
    BY DEF Etapes
<1>2. \A i \in Nat : i \in A => i + 1 \in A
  <2> SUFFICES ASSUME NEW i \in Nat, i \in A, i + 1 <= m PROVE g[i + 1] = h[i + 1]
      OBVIOUS
  <2>1. g[i] = h[i] /\ i + 1 \in 1..m /\ i + 1 \in 1..n /\ (i + 1) - 1 = i
      OBVIOUS
  <2>2. g[i + 1] = Etape(g, s, I, i + 1) /\ h[i + 1] = Etape(h, t, J, i + 1)
      BY <2>1 DEF Etapes
  <2>3. (i + 1 \in I <=> i + 1 \in J) /\ (i + 1 \in I => s[i + 1] = t[i + 1])
      BY <2>1
  <2> QED BY <2>1, <2>2, <2>3 DEF Etape
<1> HIDE DEF A
<1>3. Nat \subseteq A
    BY <1>1, <1>2, EveryNumber
<1> QED BY <1>3 DEF A

LEMMA PlacesAreLastStage ==
  ASSUME NEW X, NEW s \in Seq(X), NEW I
  PROVE  \E g : Etapes(g, s, I, Len(s)) /\ AuxPlaces(s, I) = g[Len(s)]
<1> DEFINE P(f) == f = [i \in 0..Len(s) |-> IF i = 0 THEN <<>>
                     ELSE IF i \in I THEN Append(f[i - 1], s[i]) ELSE f[i - 1]]
           d == CHOOSE f : P(f)
<1>0. Len(s) \in Nat
    OBVIOUS
<1>1. PICK g : Etapes(g, s, I, Len(s))
    BY <1>0, StagesExist
<1>2. P(g)
  <2>1. \A i \in 0..Len(s) : g[i] = IF i = 0 THEN <<>>
                     ELSE IF i \in I THEN Append(g[i - 1], s[i]) ELSE g[i - 1]
    <3> SUFFICES ASSUME NEW i \in 0..Len(s)
                 PROVE  g[i] = IF i = 0 THEN <<>>
                          ELSE IF i \in I THEN Append(g[i - 1], s[i]) ELSE g[i - 1]
        OBVIOUS
    <3>1. CASE i = 0
        BY <1>1, <3>1 DEF Etapes
    <3>2. CASE i # 0
      <4>1. i \in 1..Len(s)
          BY <1>0, <3>2
      <4> QED BY <1>1, <3>2, <4>1 DEF Etapes, Etape
    <3> QED BY <3>1, <3>2
  <2>2. g = [i \in 0..Len(s) |-> g[i]]
      BY <1>1 DEF Etapes
  <2> QED BY <2>1, <2>2
<1>3. P(d)
    BY <1>2
<1>4. AuxPlaces(s, I) = d[Len(s)]
    BY DEF AuxPlaces
<1> HIDE DEF d
<1>5. Etapes(d, s, I, Len(s))
  <2>0. \A i \in 0..Len(s) : d[i] = IF i = 0 THEN <<>>
                     ELSE IF i \in I THEN Append(d[i - 1], s[i]) ELSE d[i - 1]
      BY <1>3
  <2>1. d = [i \in 0..Len(s) |-> d[i]]
      BY <1>3
  <2> HIDE DEF P
  <2>2. d[0] = <<>>
      BY <1>0, <2>0
  <2>3. \A i \in 1..Len(s) : d[i] = Etape(d, s, I, i)
    <3> SUFFICES ASSUME NEW i \in 1..Len(s) PROVE d[i] = Etape(d, s, I, i)
        OBVIOUS
    <3>1. i \in 0..Len(s) /\ i # 0
        OBVIOUS
    <3> QED BY <2>0, <3>1 DEF Etape
  <2> QED BY <2>1, <2>2, <2>3 DEF Etapes
<1> QED BY <1>4, <1>5

\* Filters that keep the same places, with the same there, leave the same.
LEMMA SamePlaces ==
  ASSUME NEW X, NEW s \in Seq(X), NEW t \in Seq(X), Len(s) = Len(t), NEW I, NEW J,
         \A i \in 1..Len(s) : (i \in I <=> i \in J) /\ (i \in I => s[i] = t[i])
  PROVE  AuxPlaces(s, I) = AuxPlaces(t, J)
<1>1. PICK g : Etapes(g, s, I, Len(s)) /\ AuxPlaces(s, I) = g[Len(s)]
    BY PlacesAreLastStage
<1>2. PICK h : Etapes(h, t, J, Len(t)) /\ AuxPlaces(t, J) = h[Len(t)]
    BY PlacesAreLastStage
<1>3. Len(s) \in Nat /\ Len(s) <= Len(t) /\ Len(t) \in Nat
    OBVIOUS
<1>4. g[Len(s)] = h[Len(s)]
    BY <1>1, <1>2, <1>3, StagesAgree
<1> QED BY <1>1, <1>2, <1>4

\* A filter takes the elements one at a time.
LEMMA PlacesOfAppend ==
  ASSUME NEW X, NEW s \in Seq(X), NEW e \in X, NEW I
  PROVE  AuxPlaces(Append(s, e), I) = IF Len(s) + 1 \in I THEN Append(AuxPlaces(s, I), e)
                                      ELSE AuxPlaces(s, I)
<1> DEFINE t == Append(s, e)
<1>1. t \in Seq(X) /\ Len(t) = Len(s) + 1 /\ t[Len(s) + 1] = e /\ Len(s) \in Nat
      /\ \A i \in 1..Len(s) : s[i] = t[i]
    BY AppendProperties
<1>2. PICK g : Etapes(g, s, I, Len(s)) /\ AuxPlaces(s, I) = g[Len(s)]
    BY PlacesAreLastStage
<1> HIDE DEF t
<1>3. PICK h : Etapes(h, t, I, Len(t)) /\ AuxPlaces(t, I) = h[Len(t)]
    BY <1>1, PlacesAreLastStage
<1>4. g[Len(s)] = h[Len(s)]
  <2>1. Len(t) \in Nat /\ Len(s) <= Len(t)
      BY <1>1
  <2> QED BY <1>1, <1>2, <1>3, <2>1, StagesAgree
<1>5. h[Len(s) + 1] = Etape(h, t, I, Len(s) + 1)
    BY <1>1, <1>3 DEF Etapes
<1>6. (Len(s) + 1) - 1 = Len(s)
    BY <1>1
<1> QED BY <1>1, <1>2, <1>3, <1>4, <1>5, <1>6 DEF Etape, t

LEMMA FilterOfAppend ==
  ASSUME NEW X, NEW s \in Seq(X), NEW e \in X, NEW S
  PROVE  Filtrees(Append(s, e), S) = IF e \in S THEN Append(Filtrees(s, S), e)
                                     ELSE Filtrees(s, S)
<1> DEFINE t == Append(s, e)
           I == {i \in DOMAIN s : s[i] \in S}
           J == {i \in DOMAIN t : t[i] \in S}
<1>1. /\ DOMAIN t = 1..(Len(s) + 1) /\ t[Len(s) + 1] = e /\ Len(s) \in Nat
      /\ DOMAIN s = 1..Len(s) /\ \A i \in 1..Len(s) : s[i] = t[i]
    BY AppendProperties, LenProperties
<1>2. Filtrees(s, S) = AuxPlaces(s, I) /\ Filtrees(t, S) = AuxPlaces(t, J)
    BY DEF Filtrees
<1> HIDE DEF t
<1>3. \A i \in 1..Len(s) : i \in I <=> i \in J
    BY <1>1
<1>4. Len(s) + 1 \in J <=> e \in S
    BY <1>1
<1> HIDE DEF I, J
<1>5. AuxPlaces(s, I) = AuxPlaces(s, J)
    BY <1>3, SamePlaces
<1>6. AuxPlaces(t, J) = IF Len(s) + 1 \in J THEN Append(AuxPlaces(s, J), e) ELSE AuxPlaces(s, J)
    BY PlacesOfAppend DEF t
<1> QED BY <1>2, <1>4, <1>5, <1>6 DEF t

LEMMA PlacesOfNone ==
  ASSUME NEW I
  PROVE  AuxPlaces(<<>>, I) = <<>>
<1>1. <<>> \in Seq({}) /\ Len(<<>>) = 0
    OBVIOUS
<1>2. PICK g : Etapes(g, <<>>, I, Len(<<>>)) /\ AuxPlaces(<<>>, I) = g[Len(<<>>)]
    BY <1>1, PlacesAreLastStage
<1> QED BY <1>1, <1>2 DEF Etapes

LEMMA FilterOfNone ==
  ASSUME NEW S
  PROVE  Filtrees(<<>>, S) = <<>>
BY PlacesOfNone DEF Filtrees

LEMMA FilterTyped ==
  ASSUME NEW X, NEW S
  PROVE  \A s \in Seq(X) : Filtrees(s, S) \in Seq(X) /\ Len(Filtrees(s, S)) <= Len(s)
<1> DEFINE A == {s \in Seq(X) : Filtrees(s, S) \in Seq(X) /\ Len(Filtrees(s, S)) <= Len(s)}
<1>1. <<>> \in A
  <2>1. Filtrees(<<>>, S) = <<>> /\ <<>> \in Seq(X) /\ Len(<<>>) = 0
      BY FilterOfNone
  <2>2. Filtrees(<<>>, S) \in Seq(X)
      BY <2>1
  <2>3. Len(Filtrees(<<>>, S)) <= Len(<<>>)
      BY <2>1
  <2> QED BY <2>1, <2>2, <2>3
<1>2. \A s \in Seq(X), e \in X : s \in A => Append(s, e) \in A
  <2> SUFFICES ASSUME NEW s \in Seq(X), NEW e \in X, s \in A
               PROVE  Append(s, e) \in A
      OBVIOUS
  <2> DEFINE f == Filtrees(s, S)
  <2>1. f \in Seq(X) /\ Len(f) <= Len(s) /\ Len(f) \in Nat /\ Len(s) \in Nat
      OBVIOUS
  <2>2. Append(s, e) \in Seq(X) /\ Len(Append(s, e)) = Len(s) + 1
      BY AppendProperties
  <2> HIDE DEF f
  <2>3. Append(f, e) \in Seq(X) /\ Len(Append(f, e)) = Len(f) + 1
      BY <2>1, AppendProperties
  <2>4. Filtrees(Append(s, e), S) = IF e \in S THEN Append(f, e) ELSE f
      BY FilterOfAppend DEF f
  <2>5. Filtrees(Append(s, e), S) \in Seq(X) /\ Len(Filtrees(Append(s, e), S)) <= Len(s) + 1
      BY <2>1, <2>3, <2>4
  <2> QED BY <2>2, <2>5
<1> HIDE DEF A
<1>3. Seq(X) \subseteq A
    BY <1>1, <1>2, EverySequence
<1> QED BY <1>3 DEF A

LEMMA ElementsOfAppend ==
  ASSUME NEW X, NEW s \in Seq(X), NEW e \in X
  PROVE  ToSet(Append(s, e)) = ToSet(s) \cup {e}
<1>1. DOMAIN Append(s, e) = 1..(Len(s) + 1) /\ DOMAIN s = 1..Len(s) /\ Len(s) \in Nat
    BY AppendProperties, LenProperties
<1>2. /\ \A i \in 1..Len(s) : Append(s, e)[i] = s[i]
      /\ Append(s, e)[Len(s) + 1] = e
    BY AppendProperties
<1>3. \A i \in 1..(Len(s) + 1) : i \in 1..Len(s) \/ i = Len(s) + 1
    BY <1>1
<1>4. 1..Len(s) \subseteq 1..(Len(s) + 1) /\ Len(s) + 1 \in 1..(Len(s) + 1)
    BY <1>1
<1>5. ToSet(Append(s, e)) \subseteq ToSet(s) \cup {e}
    BY <1>1, <1>2, <1>3 DEF ToSet
<1>6. ToSet(s) \cup {e} \subseteq ToSet(Append(s, e))
    BY <1>1, <1>2, <1>4 DEF ToSet
<1> QED BY <1>5, <1>6

LEMMA NoElement == ToSet(<<>>) = {}
<1>1. DOMAIN <<>> = {}
    OBVIOUS
<1> QED BY <1>1 DEF ToSet

LEMMA ElementsOfFilter ==
  ASSUME NEW X, NEW S
  PROVE  \A s \in Seq(X) : ToSet(Filtrees(s, S)) = ToSet(s) \cap S
<1> DEFINE A == {s \in Seq(X) : ToSet(Filtrees(s, S)) = ToSet(s) \cap S}
<1>1. <<>> \in A
    BY FilterOfNone, NoElement
<1>2. \A s \in Seq(X), e \in X : s \in A => Append(s, e) \in A
  <2> SUFFICES ASSUME NEW s \in Seq(X), NEW e \in X, s \in A
               PROVE  Append(s, e) \in A
      OBVIOUS
  <2>1. Append(s, e) \in Seq(X)
      BY AppendProperties
  <2>2. ToSet(Append(s, e)) = ToSet(s) \cup {e}
      BY ElementsOfAppend
  <2>3. Filtrees(Append(s, e), S) = IF e \in S THEN Append(Filtrees(s, S), e) ELSE Filtrees(s, S)
      BY FilterOfAppend
  <2>4. Filtrees(s, S) \in Seq(X)
      BY FilterTyped
  <2>5. ToSet(Append(Filtrees(s, S), e)) = ToSet(Filtrees(s, S)) \cup {e}
      BY <2>4, ElementsOfAppend
  <2> QED BY <2>1, <2>2, <2>3, <2>5
<1> HIDE DEF A
<1>3. Seq(X) \subseteq A
    BY <1>1, <1>2, EverySequence
<1> QED BY <1>3 DEF A

LEMMA FilterOfNothing ==
  ASSUME NEW X, NEW s \in Seq(X), NEW S, ToSet(s) \cap S = {}
  PROVE  Filtrees(s, S) = <<>>
<1>1. Filtrees(s, S) \in Seq(X) /\ ToSet(Filtrees(s, S)) = {}
    BY FilterTyped, ElementsOfFilter
<1>2. DOMAIN Filtrees(s, S) = {}
    BY <1>1 DEF ToSet
<1> QED BY <1>1, <1>2

LEMMA FilterTwice ==
  ASSUME NEW X, NEW S, NEW R
  PROVE  \A s \in Seq(X) : Filtrees(Filtrees(s, S), R) = Filtrees(s, S \cap R)
<1> DEFINE A == {s \in Seq(X) : Filtrees(Filtrees(s, S), R) = Filtrees(s, S \cap R)}
<1>1. <<>> \in A
    BY FilterOfNone
<1>2. \A s \in Seq(X), e \in X : s \in A => Append(s, e) \in A
  <2> SUFFICES ASSUME NEW s \in Seq(X), NEW e \in X, s \in A
               PROVE  Append(s, e) \in A
      OBVIOUS
  <2>1. Append(s, e) \in Seq(X)
      BY AppendProperties
  <2>2. Filtrees(Append(s, e), S) = IF e \in S THEN Append(Filtrees(s, S), e) ELSE Filtrees(s, S)
      BY FilterOfAppend
  <2>3. Filtrees(Append(s, e), S \cap R) =
          IF e \in S \cap R THEN Append(Filtrees(s, S \cap R), e) ELSE Filtrees(s, S \cap R)
      BY FilterOfAppend
  <2>4. Filtrees(s, S) \in Seq(X)
      BY FilterTyped
  <2>5. Filtrees(Append(Filtrees(s, S), e), R) =
          IF e \in R THEN Append(Filtrees(Filtrees(s, S), R), e) ELSE Filtrees(Filtrees(s, S), R)
      BY <2>4, FilterOfAppend
  <2>6. Filtrees(Filtrees(s, S), R) = Filtrees(s, S \cap R)
      OBVIOUS
  <2>7. Filtrees(Filtrees(Append(s, e), S), R) = Filtrees(Append(s, e), S \cap R)
    <3>1. CASE e \in S /\ e \in R
        BY <2>2, <2>3, <2>5, <2>6, <3>1
    <3>2. CASE e \in S /\ e \notin R
        BY <2>2, <2>3, <2>5, <2>6, <3>2
    <3>3. CASE e \notin S
        BY <2>2, <2>3, <2>6, <3>3
    <3> QED BY <3>1, <3>2, <3>3
  <2> QED BY <2>1, <2>7
<1> HIDE DEF A
<1>3. Seq(X) \subseteq A
    BY <1>1, <1>2, EverySequence
<1> QED BY <1>3 DEF A

\* A filter that keeps the last element ends with it.
LEMMA FilterKeepsLast ==
  ASSUME NEW X, NEW s \in Seq(X), NEW S, s # <<>>, Derniere(s) \in S
  PROVE  Filtrees(s, S) # <<>> /\ Derniere(Filtrees(s, S)) = Derniere(s)
<1>1. PICK t \in Seq(X), e \in X : s = Append(t, e)
    BY SequenceEmptyOrAppend
<1>2. Derniere(s) = e
    BY <1>1, AppendProperties DEF Derniere
<1>3. Filtrees(s, S) = Append(Filtrees(t, S), e)
    BY <1>1, <1>2, FilterOfAppend
<1>4. Filtrees(t, S) \in Seq(X)
    BY FilterTyped
<1> QED BY <1>2, <1>3, <1>4, AppendProperties DEF Derniere

-----------------------------------------------------------------------------
\* A Map has one entry for each of its keys.
UneParCle(h) == \A i, j \in DOMAIN h : h[i].cle = h[j].cle => i = j

LEMMA AppendOfNewKey ==
  ASSUME NEW X, NEW s \in Seq(X), NEW e \in X
  PROVE  UneParCle(Append(s, e)) <=> UneParCle(s) /\ \A x \in ToSet(s) : x.cle # e.cle
<1> DEFINE t == Append(s, e)
<1>1. DOMAIN t = 1..(Len(s) + 1) /\ DOMAIN s = 1..Len(s) /\ Len(s) \in Nat
    BY AppendProperties, LenProperties
<1>2. /\ \A i \in 1..Len(s) : t[i] = s[i]
      /\ t[Len(s) + 1] = e
    BY AppendProperties
<1> HIDE DEF t
<1>3. \A i \in 1..(Len(s) + 1) : i \in 1..Len(s) \/ i = Len(s) + 1
    BY <1>1
<1>4. 1..Len(s) \subseteq 1..(Len(s) + 1) /\ Len(s) + 1 \in 1..(Len(s) + 1)
      /\ Len(s) + 1 \notin 1..Len(s)
    BY <1>1
<1>5. ASSUME UneParCle(t) PROVE UneParCle(s) /\ \A x \in ToSet(s) : x.cle # e.cle
  <2>1. UneParCle(s)
      BY <1>1, <1>2, <1>4, <1>5 DEF UneParCle
  <2>2. \A i \in 1..Len(s) : s[i].cle # e.cle
      BY <1>1, <1>2, <1>4, <1>5 DEF UneParCle
  <2> QED BY <1>1, <2>1, <2>2 DEF ToSet
<1>6. ASSUME UneParCle(s), \A x \in ToSet(s) : x.cle # e.cle PROVE UneParCle(t)
  <2>1. \A i \in 1..Len(s) : s[i].cle # e.cle
      BY <1>1, <1>6 DEF ToSet
  <2> SUFFICES ASSUME NEW i \in DOMAIN t, NEW j \in DOMAIN t, t[i].cle = t[j].cle
               PROVE  i = j
      BY DEF UneParCle
  <2>2. CASE i \in 1..Len(s) /\ j \in 1..Len(s)
      BY <1>1, <1>2, <1>6, <2>2 DEF UneParCle
  <2>3. CASE i = Len(s) + 1 /\ j \in 1..Len(s)
      BY <1>2, <2>1, <2>3
  <2>4. CASE i \in 1..Len(s) /\ j = Len(s) + 1
      BY <1>2, <2>1, <2>4
  <2> QED BY <1>1, <1>3, <2>2, <2>3, <2>4
<1> QED BY <1>5, <1>6 DEF t

LEMMA FilterKeepsKeysApart ==
  ASSUME NEW X, NEW S
  PROVE  \A s \in Seq(X) : UneParCle(s) => UneParCle(Filtrees(s, S))
<1> DEFINE A == {s \in Seq(X) : UneParCle(s) => UneParCle(Filtrees(s, S))}
<1>1. <<>> \in A
    BY FilterOfNone DEF UneParCle
<1>2. \A s \in Seq(X), e \in X : s \in A => Append(s, e) \in A
  <2> SUFFICES ASSUME NEW s \in Seq(X), NEW e \in X, s \in A, UneParCle(Append(s, e))
               PROVE  Append(s, e) \in Seq(X) /\ UneParCle(Filtrees(Append(s, e), S))
      BY AppendProperties
  <2>1. Append(s, e) \in Seq(X)
      BY AppendProperties
  <2>2. UneParCle(s) /\ \A x \in ToSet(s) : x.cle # e.cle
      BY AppendOfNewKey
  <2>3. Filtrees(s, S) \in Seq(X) /\ ToSet(Filtrees(s, S)) \subseteq ToSet(s)
      BY FilterTyped, ElementsOfFilter
  <2>4. UneParCle(Append(Filtrees(s, S), e))
    <3>1. UneParCle(Filtrees(s, S)) /\ \A x \in ToSet(Filtrees(s, S)) : x.cle # e.cle
        BY <2>2, <2>3
    <3> QED BY <2>3, <3>1, AppendOfNewKey
  <2>5. Filtrees(Append(s, e), S) = IF e \in S THEN Append(Filtrees(s, S), e) ELSE Filtrees(s, S)
      BY FilterOfAppend
  <2> QED BY <2>1, <2>2, <2>4, <2>5
<1> HIDE DEF A
<1>3. Seq(X) \subseteq A
    BY <1>1, <1>2, EverySequence
<1> QED BY <1>3 DEF A

-----------------------------------------------------------------------------
(* Dates.                                                                  *)

\* The dates of an entry at date n: the last one is the latest.
EnOrdre(d, n) ==
  d \in Seq(Nat) /\ d # <<>> /\ Derniere(d) <= n /\ \A t \in ToSet(d) : t <= Derniere(d)

LEMMA OpenTyped ==
  ASSUME NEW d \in Seq(Nat), NEW n \in Nat
  PROVE  /\ Ouvertes(d, n) \in Seq(Nat) /\ Len(Ouvertes(d, n)) <= Len(d)
         /\ ToSet(Ouvertes(d, n)) = ToSet(d) \cap {t \in Nat : t > n - Window}
BY FilterTyped, ElementsOfFilter DEF Ouvertes

\* What is open later is among what was open.
LEMMA OpenLater ==
  ASSUME NEW d \in Seq(Nat), NEW n \in Nat, NEW m \in Nat, n <= m
  PROVE  Ouvertes(Ouvertes(d, n), m) = Ouvertes(d, m)
<1> DEFINE S == {t \in Nat : t > n - Window}
           R == {t \in Nat : t > m - Window}
<1>1. S \cap R = R
    BY BudgetAssumption
<1> HIDE DEF S, R
<1>2. Filtrees(Filtrees(d, S), R) = Filtrees(d, S \cap R)
    BY FilterTwice
<1>3. Filtrees(Filtrees(d, S), R) = Filtrees(d, R)
    BY <1>1, <1>2
<1> QED BY <1>3 DEF Ouvertes, S, R

LEMMA OpenAppend ==
  ASSUME NEW d \in Seq(Nat), NEW n \in Nat
  PROVE  Ouvertes(Append(d, n), n) = Append(Ouvertes(d, n), n)
<1> DEFINE S == {t \in Nat : t > n - Window}
<1>1. n \in S
    BY BudgetAssumption
<1>2. Ouvertes(Append(d, n), n) = Filtrees(Append(d, n), S) /\ Ouvertes(d, n) = Filtrees(d, S)
    BY DEF Ouvertes
<1> HIDE DEF S
<1>3. Filtrees(Append(d, n), S) = Append(Filtrees(d, S), n)
    BY <1>1, FilterOfAppend
<1> QED BY <1>2, <1>3

LEMMA OpenNone ==
  ASSUME NEW n
  PROVE  Ouvertes(<<>>, n) = <<>>
BY FilterOfNone DEF Ouvertes

\* Dates whose latest is out of the window are all out of it.
LEMMA DeadDates ==
  ASSUME NEW d, NEW n \in Nat, EnOrdre(d, n), ~(Derniere(d) > n - Window)
  PROVE  Ouvertes(d, n) = <<>>
<1>1. d \in Seq(Nat) /\ d # <<>> /\ \A t \in ToSet(d) : t <= Derniere(d)
    BY DEF EnOrdre
<1>2. Derniere(d) \in Nat
    BY <1>1 DEF Derniere
<1>3. ToSet(d) \cap {t \in Nat : t > n - Window} = {}
    BY <1>1, <1>2, BudgetAssumption
<1> QED BY <1>1, <1>3, FilterOfNothing DEF Ouvertes

\* Pruned dates are in order when there are any, and a new date goes last.
LEMMA PrunedInOrder ==
  ASSUME NEW d, NEW n \in Nat, EnOrdre(d, n), Ouvertes(d, n) # <<>>
  PROVE  EnOrdre(Ouvertes(d, n), n)
<1> DEFINE S == {t \in Nat : t > n - Window}
<1>1. d \in Seq(Nat) /\ d # <<>> /\ Derniere(d) <= n /\ \A t \in ToSet(d) : t <= Derniere(d)
    BY DEF EnOrdre
<1>2. Derniere(d) \in Nat
    BY <1>1 DEF Derniere
<1>3. Derniere(d) \in S
    BY <1>2, DeadDates
<1>4. Ouvertes(d, n) = Filtrees(d, S)
    BY DEF Ouvertes
<1> HIDE DEF S
<1>5. Filtrees(d, S) # <<>> /\ Derniere(Filtrees(d, S)) = Derniere(d)
    BY <1>1, <1>3, FilterKeepsLast
<1>6. Filtrees(d, S) \in Seq(Nat) /\ ToSet(Filtrees(d, S)) \subseteq ToSet(d)
    BY <1>1, FilterTyped, ElementsOfFilter
<1> QED BY <1>1, <1>4, <1>5, <1>6 DEF EnOrdre

LEMMA RenewedInOrder ==
  ASSUME NEW d \in Seq(Nat), NEW n \in Nat, \A t \in ToSet(d) : t <= n
  PROVE  EnOrdre(Append(d, n), n)
<1>1. Append(d, n) \in Seq(Nat) /\ Append(d, n) # <<>> /\ Derniere(Append(d, n)) = n
    BY AppendProperties DEF Derniere
<1>2. ToSet(Append(d, n)) = ToSet(d) \cup {n}
    BY ElementsOfAppend
<1> QED BY <1>1, <1>2 DEF EnOrdre

-----------------------------------------------------------------------------
(* The Map.                                                                *)

LigneDeMap == [cle : Keys, dates : Seq(Nat)]

BonneMap(h, n) ==
  h \in Seq(LigneDeMap) /\ UneParCle(h) /\ \A e \in ToSet(h) : EnOrdre(e.dates, n)

LEMMA EntryTyped ==
  ASSUME NEW h \in Seq(LigneDeMap), NEW e \in ToSet(h)
  PROVE  e \in LigneDeMap /\ e.cle \in Keys /\ e.dates \in Seq(Nat) /\ e.cle \in Cles(h)
<1>1. e \in LigneDeMap
    BY DEF ToSet
<1> QED BY <1>1 DEF LigneDeMap, Cles

\* The dates of a key are those of its entry.
LEMMA DatesOfEntry ==
  ASSUME NEW h, UneParCle(h), NEW e \in ToSet(h)
  PROVE  Dates(h, e.cle) = e.dates
<1>1. e.cle \in Cles(h)
    BY DEF Cles
<1>2. \A x \in ToSet(h) : x.cle = e.cle => x = e
    BY DEF ToSet, UneParCle
<1> DEFINE x == CHOOSE y \in ToSet(h) : y.cle = e.cle
<1>3. x \in ToSet(h) /\ x.cle = e.cle
    OBVIOUS
<1>4. x = e
    BY <1>2, <1>3
<1>5. Dates(h, e.cle) = x.dates
    BY <1>1 DEF Dates
<1> HIDE DEF x
<1> QED BY <1>4, <1>5

LEMMA NoEntryNoDates ==
  ASSUME NEW h, NEW c, c \notin Cles(h)
  PROVE  Dates(h, c) = <<>>
BY DEF Dates

LEMMA EntryOfKey ==
  ASSUME NEW h, NEW c \in Cles(h)
  PROVE  \E e \in ToSet(h) : e.cle = c
BY DEF Cles

LEMMA DatesTyped ==
  ASSUME NEW h, NEW n, BonneMap(h, n), NEW c
  PROVE  Dates(h, c) \in Seq(Nat) /\ (c \in Cles(h) => EnOrdre(Dates(h, c), n))
<1>1. CASE c \in Cles(h)
  <2>1. PICK e \in ToSet(h) : e.cle = c
      BY <1>1, EntryOfKey
  <2>2. Dates(h, c) = e.dates
      BY <2>1, DatesOfEntry DEF BonneMap
  <2> QED BY <2>2 DEF BonneMap, EnOrdre
<1>2. CASE c \notin Cles(h)
  <2>1. Dates(h, c) = <<>> /\ <<>> \in Seq(Nat)
      BY <1>2, NoEntryNoDates
  <2> QED BY <1>2, <2>1
<1> QED BY <1>1, <1>2

\* Entries taken away leave the others as they were.
LEMMA FewerEntries ==
  ASSUME NEW h, NEW g, NEW n, BonneMap(h, n), UneParCle(g), ToSet(g) \subseteq ToSet(h),
         NEW c \in Cles(g)
  PROVE  Dates(g, c) = Dates(h, c) /\ c \in Cles(h)
<1>1. PICK e \in ToSet(g) : e.cle = c
    BY EntryOfKey
<1>2. e \in ToSet(h)
    BY <1>1
<1> QED BY <1>1, <1>2, DatesOfEntry DEF BonneMap, Cles

LEMMA FilteredMap ==
  ASSUME NEW h, NEW n, BonneMap(h, n), NEW S
  PROVE  /\ BonneMap(Filtrees(h, S), n) /\ ToSet(Filtrees(h, S)) = ToSet(h) \cap S
         /\ Len(Filtrees(h, S)) <= Len(h)
<1>1. h \in Seq(LigneDeMap) /\ UneParCle(h) /\ \A e \in ToSet(h) : EnOrdre(e.dates, n)
    BY DEF BonneMap
<1>2. Filtrees(h, S) \in Seq(LigneDeMap) /\ ToSet(Filtrees(h, S)) = ToSet(h) \cap S
      /\ Len(Filtrees(h, S)) <= Len(h)
    BY <1>1, FilterTyped, ElementsOfFilter
<1>3. UneParCle(Filtrees(h, S))
    BY <1>1, FilterKeepsKeysApart
<1> QED BY <1>1, <1>2, <1>3 DEF BonneMap

LEMMA CappedMap ==
  ASSUME NEW h, NEW n, BonneMap(h, n)
  PROVE  BonneMap(Plafonner(h), n) /\ ToSet(Plafonner(h)) \subseteq ToSet(h)
<1>1. CASE Len(h) < MaxKeys
    BY <1>1 DEF Plafonner
<1>2. CASE ~(Len(h) < MaxKeys)
  <2> DEFINE a == Len(h) - MaxKeys + 2
             b == Len(h)
             g == SubSeq(h, a, b)
  <2>1. Plafonner(h) = g
      BY <1>2 DEF Plafonner
  <2>2. h \in Seq(LigneDeMap) /\ UneParCle(h) /\ \A e \in ToSet(h) : EnOrdre(e.dates, n)
      BY DEF BonneMap
  <2>3. b \in Nat /\ a \in Int /\ a >= 2 /\ MaxKeys \in Nat /\ a <= b + 1
      BY <1>2, <2>2, BudgetAssumption
  <2> HIDE DEF a
  <2>4. \A i \in a..b : i \in 1..Len(h) /\ h[i] \in LigneDeMap
      BY <2>2, <2>3
  <2>5. /\ g \in Seq(LigneDeMap)
        /\ Len(g) = IF a <= b THEN b - a + 1 ELSE 0
        /\ \A i \in 1..(b - a + 1) : g[i] = h[a + i - 1]
      BY <2>3, <2>4, SubSeqProperties
  <2> HIDE DEF g
  <2>6. Len(g) = b - a + 1 /\ DOMAIN g = 1..Len(g)
      BY <2>3, <2>5, LenProperties
  <2>7. \A i \in DOMAIN g : a + i - 1 \in DOMAIN h /\ g[i] = h[a + i - 1]
    <3>1. DOMAIN h = 1..b
        BY <2>2
    <3> QED BY <2>3, <2>5, <2>6, <3>1
  <2>8. ToSet(g) \subseteq ToSet(h)
      BY <2>7 DEF ToSet
  <2>9. UneParCle(g)
    <3> SUFFICES ASSUME NEW i \in DOMAIN g, NEW j \in DOMAIN g, g[i].cle = g[j].cle
                 PROVE  i = j
        BY DEF UneParCle
    <3>1. a + i - 1 = a + j - 1
        BY <2>2, <2>7 DEF UneParCle
    <3> QED BY <2>3, <2>6, <3>1
  <2> QED BY <2>1, <2>2, <2>5, <2>8, <2>9 DEF BonneMap
<1> QED BY <1>1, <1>2

\* An accepted key has the new dates, and the others theirs.
LEMMA PlacedEntry ==
  ASSUME NEW h, NEW n, BonneMap(h, n), NEW c \in Keys, NEW d, EnOrdre(d, n)
  PROVE  /\ BonneMap(Placer(h, c, d), n) /\ Dates(Placer(h, c, d), c) = d
         /\ \A k \in Keys : k # c => Dates(Placer(h, c, d), k) = Dates(h, k)
<1> DEFINE g == Sans(h, c)
           e == [cle |-> c, dates |-> d]
           p == Append(g, e)
<1>1. BonneMap(g, n) /\ ToSet(g) = {x \in ToSet(h) : x.cle # c}
  <2>1. ToSet(h) \cap {x \in ToSet(h) : x.cle # c} = {x \in ToSet(h) : x.cle # c}
      OBVIOUS
  <2> QED BY <2>1, FilteredMap DEF Sans
<1>2. Placer(h, c, d) = p
    BY DEF Placer
<1>3. e \in LigneDeMap /\ e.cle = c /\ e.dates = d
    BY DEF LigneDeMap, EnOrdre
<1> HIDE DEF g, e
<1>4. g \in Seq(LigneDeMap) /\ UneParCle(g) /\ \A x \in ToSet(g) : EnOrdre(x.dates, n)
    BY <1>1 DEF BonneMap
<1>5. p \in Seq(LigneDeMap) /\ ToSet(p) = ToSet(g) \cup {e}
    BY <1>3, <1>4, AppendProperties, ElementsOfAppend
<1>6. UneParCle(p)
    BY <1>1, <1>3, <1>4, AppendOfNewKey
<1> HIDE DEF p
<1>7. BonneMap(p, n)
    BY <1>3, <1>4, <1>5, <1>6 DEF BonneMap
<1>8. Dates(p, c) = d
    BY <1>3, <1>5, <1>6, DatesOfEntry
<1>9. ASSUME NEW k \in Keys, k # c PROVE Dates(p, k) = Dates(h, k)
  <2>1. CASE k \in Cles(h)
    <3>1. PICK x \in ToSet(h) : x.cle = k
        BY <2>1, EntryOfKey
    <3>2. x \in ToSet(p)
        BY <1>1, <1>5, <1>9, <3>1
    <3>3. UneParCle(h)
        BY DEF BonneMap
    <3> QED BY <1>6, <3>1, <3>2, <3>3, DatesOfEntry
  <2>2. CASE k \notin Cles(h)
    <3>1. k \notin Cles(p)
        BY <1>1, <1>3, <1>5, <1>9, <2>2 DEF Cles
    <3> QED BY <2>2, <3>1, NoEntryNoDates
  <2> QED BY <2>1, <2>2
<1> QED BY <1>2, <1>7, <1>8, <1>9

\* A refused one has its pruned dates, in its place.
LEMMA PrunedEntry ==
  ASSUME NEW h, NEW n, BonneMap(h, n), NEW c \in Keys, NEW d, EnOrdre(d, n)
  PROVE  /\ BonneMap(Elaguer(h, c, d), n)
         /\ c \in Cles(h) => Dates(Elaguer(h, c, d), c) = d
         /\ \A k \in Keys : k # c => Dates(Elaguer(h, c, d), k) = Dates(h, k)
<1> DEFINE Neuf(x) == [x EXCEPT !.dates = d]
           p == Elaguer(h, c, d)
<1>1. h \in Seq(LigneDeMap) /\ UneParCle(h) /\ \A e \in ToSet(h) : EnOrdre(e.dates, n)
    BY DEF BonneMap
<1>2. d \in Seq(Nat)
    BY DEF EnOrdre
<1>3. \A x \in LigneDeMap : Neuf(x) \in LigneDeMap /\ Neuf(x).cle = x.cle /\ Neuf(x).dates = d
    BY <1>2 DEF LigneDeMap
<1>4. DOMAIN p = DOMAIN h /\ DOMAIN h = 1..Len(h) /\ Len(h) \in Nat
      /\ \A i \in DOMAIN h : p[i] = IF h[i].cle = c THEN Neuf(h[i]) ELSE h[i]
    BY <1>1 DEF Elaguer
<1>4a. p = [i \in 1..Len(h) |-> p[i]]
    BY <1>4 DEF Elaguer
<1> HIDE DEF p, Neuf
<1>5. \A i \in DOMAIN h : h[i] \in LigneDeMap /\ h[i] \in ToSet(h)
    BY <1>1 DEF ToSet
<1>6. \A i \in DOMAIN h : p[i] \in LigneDeMap /\ p[i].cle = h[i].cle
                          /\ p[i].dates = IF h[i].cle = c THEN d ELSE h[i].dates
    BY <1>3, <1>4, <1>5
<1>7. p \in Seq(LigneDeMap)
  <2>1. p \in [1..Len(h) -> LigneDeMap]
      BY <1>4, <1>4a, <1>6
  <2> QED BY <1>4, <2>1, SeqDef
<1>8. UneParCle(p)
    BY <1>1, <1>4, <1>6 DEF UneParCle
<1>9. \A e \in ToSet(p) : EnOrdre(e.dates, n)
  <2>1. \A i \in DOMAIN h : EnOrdre(p[i].dates, n)
      BY <1>1, <1>5, <1>6
  <2> QED BY <1>4, <2>1 DEF ToSet
<1>10. \A i \in DOMAIN h : Dates(p, p[i].cle) = p[i].dates /\ Dates(h, h[i].cle) = h[i].dates
  <2>1. \A i \in DOMAIN h : p[i] \in ToSet(p)
      BY <1>4 DEF ToSet
  <2> QED BY <1>1, <1>5, <1>8, <2>1, DatesOfEntry
<1>11. \A k : k \in Cles(h) => \E i \in DOMAIN h : h[i].cle = k
    BY DEF Cles, ToSet
<1>12. c \in Cles(h) => Dates(p, c) = d
    BY <1>6, <1>10, <1>11
<1>13. ASSUME NEW k \in Keys, k # c PROVE Dates(p, k) = Dates(h, k)
  <2>1. CASE k \in Cles(h)
      BY <1>6, <1>10, <1>11, <1>13, <2>1
  <2>2. CASE k \notin Cles(h)
    <3>1. \A i \in DOMAIN h : h[i].cle # k
        BY <1>5, <2>2 DEF Cles
    <3>2. k \notin Cles(p)
        BY <1>4, <1>6, <3>1 DEF Cles, ToSet
    <3> QED BY <2>2, <3>2, NoEntryNoDates
  <2> QED BY <2>1, <2>2
<1> QED BY <1>7, <1>8, <1>9, <1>12, <1>13 DEF BonneMap, p

-----------------------------------------------------------------------------
(* The invariant.                                                          *)

\* What a key was accepted for and its entry say the same of the open window.
SameBudget(h, a, n) == \A c \in Keys : Ouvertes(a[c], n) = Ouvertes(Dates(h, c), n)

WithinLimit(a, n) == \A c \in Keys : Len(Ouvertes(a[c], n)) <= Limit

BudgetInv ==
  /\ heure \in Nat /\ BonneMap(hits, heure)
  /\ acceptes \in [Keys -> Seq(Nat)]
  /\ SameBudget(hits, acceptes, heure) /\ WithinLimit(acceptes, heure)

LEMMA EmptyMap == ASSUME NEW n PROVE BonneMap(<<>>, n) /\ Cles(<<>>) = {}
<1>1. DOMAIN <<>> = {} /\ <<>> \in Seq(LigneDeMap)
    OBVIOUS
<1> QED BY <1>1, NoElement DEF BonneMap, UneParCle, Cles

LEMMA WholeBudgets ==
  ASSUME NEW n, NEW a, a = [c \in Keys |-> <<>>]
  PROVE  /\ BonneMap(<<>>, n) /\ a \in [Keys -> Seq(Nat)]
         /\ SameBudget(<<>>, a, n) /\ WithinLimit(a, n)
<1>1. \A c \in Keys : a[c] = <<>> /\ Dates(<<>>, c) = <<>>
    BY EmptyMap, NoEntryNoDates
<1>2. <<>> \in Seq(Nat) /\ Len(<<>>) = 0 /\ Ouvertes(<<>>, n) = <<>>
    BY OpenNone
<1>3. SameBudget(<<>>, a, n)
    BY <1>1, <1>2 DEF SameBudget
<1>4. WithinLimit(a, n)
    BY <1>1, <1>2, BudgetAssumption DEF WithinLimit
<1> QED BY <1>2, <1>3, <1>4, EmptyMap

\* A sweep gives no budget back, but to the keys the ceiling costs.
LEMMA SweptMap ==
  ASSUME BudgetInv,
         NEW h, h = IF DoitBalayer(hits) THEN Sweep(hits) ELSE hits,
         NEW a, a = [k \in Keys |-> IF k \in Evincees(h) THEN <<>> ELSE acceptes[k]]
  PROVE  /\ BonneMap(h, heure) /\ a \in [Keys -> Seq(Nat)]
         /\ SameBudget(h, a, heure) /\ WithinLimit(a, heure)
<1> DEFINE S == {e \in ToSet(hits) : EncoreUtile(e)}
           f == Filtrees(hits, S)
<1>1. heure \in Nat /\ BonneMap(hits, heure) /\ acceptes \in [Keys -> Seq(Nat)]
      /\ SameBudget(hits, acceptes, heure) /\ WithinLimit(acceptes, heure)
    BY DEF BudgetInv
<1>2. <<>> \in Seq(Nat) /\ Len(<<>>) = 0 /\ Ouvertes(<<>>, heure) = <<>> /\ Limit \in Nat
    BY OpenNone, BudgetAssumption
<1>3. \A k \in Keys : a[k] = IF k \in Evincees(h) THEN <<>> ELSE acceptes[k]
    OBVIOUS
<1>4. a \in [Keys -> Seq(Nat)]
    BY <1>1, <1>2
<1>5. WithinLimit(a, heure)
    BY <1>1, <1>2, <1>3 DEF WithinLimit
<1>6. BonneMap(f, heure) /\ ToSet(f) = ToSet(hits) \cap S /\ Len(f) <= Len(hits)
    BY <1>1, FilteredMap
<1>7. ToSet(f) = S
    BY <1>6
<1>8. Sweep(hits) = Plafonner(f)
    BY DEF Sweep
<1>9. \A e \in S : e \in ToSet(hits) /\ EncoreUtile(e)
    OBVIOUS
<1>10. \A e \in ToSet(hits) : e \notin S => ~EncoreUtile(e)
    OBVIOUS
<1> HIDE DEF S, f
<1>11. BonneMap(Plafonner(f), heure) /\ ToSet(Plafonner(f)) \subseteq ToSet(hits)
    BY <1>6, CappedMap
<1>12. BonneMap(h, heure) /\ ToSet(h) \subseteq ToSet(hits)
    BY <1>1, <1>8, <1>11
<1>13. UneParCle(h) /\ UneParCle(hits) /\ h \in Seq(LigneDeMap) /\ hits \in Seq(LigneDeMap)
    BY <1>1, <1>12 DEF BonneMap
<1>14. SameBudget(h, a, heure)
  <2> SUFFICES ASSUME NEW k \in Keys PROVE Ouvertes(a[k], heure) = Ouvertes(Dates(h, k), heure)
      BY DEF SameBudget
  <2>1. Ouvertes(acceptes[k], heure) = Ouvertes(Dates(hits, k), heure)
      BY <1>1 DEF SameBudget
  <2>2. CASE k \in Cles(h)
    <3>1. Dates(h, k) = Dates(hits, k)
        BY <1>1, <1>12, <1>13, <2>2, FewerEntries
    <3>2. a[k] = acceptes[k]
        BY <1>3, <2>2 DEF Evincees
    <3> QED BY <2>1, <3>1, <3>2
  <2>3. CASE k \notin Cles(h)
    <3>1. Dates(h, k) = <<>>
        BY <2>3, NoEntryNoDates
    <3>2. CASE k \in Evincees(h)
        BY <1>2, <1>3, <3>1, <3>2
    <3>3. CASE k \notin Cles(hits)
      <4>1. Dates(hits, k) = <<>> /\ a[k] = acceptes[k]
          BY <1>3, <3>3, NoEntryNoDates DEF Evincees
      <4> QED BY <2>1, <3>1, <4>1
    <3>4. CASE k \in Cles(hits) /\ k \notin Evincees(h)
      <4>1. a[k] = acceptes[k]
          BY <1>3, <3>4
      <4>2. ~(Len(hits) >= MaxKeys)
          BY <2>3, <3>4 DEF Evincees
      <4>3. h = Plafonner(f)
        <5>1. h # hits
            BY <2>3, <3>4
        <5> QED BY <1>8, <5>1
      <4>4. h = f
        <5>1. f \in Seq(LigneDeMap)
            BY <1>6 DEF BonneMap
        <5>2. Len(f) \in Nat /\ Len(hits) \in Nat /\ MaxKeys \in Nat
            BY <1>13, <5>1, BudgetAssumption
        <5>3. Len(f) < MaxKeys
            BY <1>6, <4>2, <5>2
        <5> QED BY <4>3, <5>3 DEF Plafonner
      <4>5. PICK e \in ToSet(hits) : e.cle = k
          BY <3>4, EntryOfKey
      <4>6. e \notin S
          BY <1>7, <2>3, <4>4, <4>5 DEF Cles
      <4>7. ~(Derniere(e.dates) > heure - Window)
          BY <1>10, <4>6 DEF EncoreUtile
      <4>8. Ouvertes(e.dates, heure) = <<>>
          BY <1>1, <4>7, DeadDates DEF BonneMap
      <4>9. Dates(hits, k) = e.dates
          BY <1>13, <4>5, DatesOfEntry
      <4> QED BY <1>2, <2>1, <3>1, <4>1, <4>8, <4>9
    <3> QED BY <3>2, <3>3, <3>4
  <2> QED BY <2>2, <2>3
<1> QED BY <1>4, <1>5, <1>12, <1>14

LEMMA BudgetInvTryConsume ==
  ASSUME BudgetInv, NEW c \in Keys, TryConsume(c)
  PROVE  BudgetInv'
<1> DEFINE h == IF DoitBalayer(hits) THEN Sweep(hits) ELSE hits
           recent == Ouvertes(Dates(h, c), heure)
           a == [k \in Keys |-> IF k \in Evincees(h) THEN <<>> ELSE acceptes[k]]
<1>1. /\ hits' = IF DansLeBudget(recent) THEN Placer(h, c, Append(recent, heure))
                 ELSE Elaguer(h, c, recent)
      /\ acceptes' = IF DansLeBudget(recent)
                     THEN [a EXCEPT ![c] = Append(Ouvertes(@, heure), heure)] ELSE a
      /\ heure' = heure
    BY DEF TryConsume
<1>2. /\ BonneMap(h, heure) /\ a \in [Keys -> Seq(Nat)]
      /\ SameBudget(h, a, heure) /\ WithinLimit(a, heure)
    BY SweptMap
<1>3. heure \in Nat /\ Limit \in Nat \ {0}
    BY BudgetAssumption DEF BudgetInv
<1> HIDE DEF h, a
<1>4. Dates(h, c) \in Seq(Nat) /\ (c \in Cles(h) => EnOrdre(Dates(h, c), heure))
    BY <1>2, DatesTyped
<1>5. recent = Ouvertes(a[c], heure)
    BY <1>2 DEF SameBudget
<1>6. recent \in Seq(Nat) /\ Len(recent) \in Nat /\ ToSet(recent) \subseteq ToSet(Dates(h, c))
  <2>1. recent \in Seq(Nat) /\ ToSet(recent) = ToSet(Dates(h, c)) \cap {t \in Nat : t > heure - Window}
      BY <1>3, <1>4, OpenTyped
  <2> HIDE DEF recent
  <2> QED BY <2>1
<1>7. recent = Ouvertes(recent, heure)
    BY <1>3, <1>4, OpenLater
<1> HIDE DEF recent
<1>8. CASE DansLeBudget(recent)
  <2> DEFINE d == Append(recent, heure)
             b == [a EXCEPT ![c] = d]
  <2>1. hits' = Placer(h, c, d) /\ acceptes' = b
      BY <1>1, <1>2, <1>5, <1>8
  <2>2. d \in Seq(Nat) /\ Ouvertes(d, heure) = d /\ Len(d) = Len(recent) + 1
      BY <1>3, <1>6, <1>7, OpenAppend, AppendProperties
  <2>3. Len(d) <= Limit
      BY <1>3, <1>6, <1>8, <2>2 DEF DansLeBudget
  <2>4. EnOrdre(d, heure)
    <3>1. \A t \in ToSet(recent) : t <= heure
      <4>1. CASE c \in Cles(h)
        <5>1. EnOrdre(Dates(h, c), heure)
            BY <1>4, <4>1
        <5>2. Derniere(Dates(h, c)) \in Nat /\ Derniere(Dates(h, c)) <= heure
            BY <5>1 DEF EnOrdre, Derniere
        <5>3. \A t \in ToSet(Dates(h, c)) : t \in Nat /\ t <= Derniere(Dates(h, c))
            BY <5>1 DEF EnOrdre, ToSet
        <5> QED BY <1>3, <1>6, <5>2, <5>3
      <4>2. CASE c \notin Cles(h)
          BY <1>6, <4>2, NoEntryNoDates, NoElement
      <4> QED BY <4>1, <4>2
    <3> QED BY <1>3, <1>6, <3>1, RenewedInOrder
  <2> HIDE DEF d
  <2>5. /\ BonneMap(Placer(h, c, d), heure) /\ Dates(Placer(h, c, d), c) = d
        /\ \A k \in Keys : k # c => Dates(Placer(h, c, d), k) = Dates(h, k)
      BY <1>2, <2>4, PlacedEntry
  <2>6. b \in [Keys -> Seq(Nat)] /\ b[c] = d /\ \A k \in Keys : k # c => b[k] = a[k]
      BY <1>2, <2>2
  <2> HIDE DEF b
  <2>7. SameBudget(Placer(h, c, d), b, heure)
      BY <1>2, <2>5, <2>6 DEF SameBudget
  <2>8. WithinLimit(b, heure)
      BY <1>2, <2>2, <2>3, <2>6 DEF WithinLimit
  <2> QED BY <1>1, <1>3, <2>1, <2>5, <2>6, <2>7, <2>8 DEF BudgetInv
<1>9. CASE ~DansLeBudget(recent)
  <2>1. hits' = Elaguer(h, c, recent) /\ acceptes' = a
      BY <1>1, <1>9
  <2>2. recent # <<>>
      BY <1>3, <1>9 DEF DansLeBudget
  <2>3. c \in Cles(h)
      BY <2>2, NoEntryNoDates, OpenNone DEF recent
  <2>4. EnOrdre(recent, heure)
      BY <1>3, <1>4, <2>2, <2>3, PrunedInOrder DEF recent
  <2>5. /\ BonneMap(Elaguer(h, c, recent), heure) /\ Dates(Elaguer(h, c, recent), c) = recent
        /\ \A k \in Keys : k # c => Dates(Elaguer(h, c, recent), k) = Dates(h, k)
      BY <1>2, <2>3, <2>4, PrunedEntry
  <2>6. SameBudget(Elaguer(h, c, recent), a, heure)
      BY <1>2, <1>5, <1>7, <2>5 DEF SameBudget
  <2> QED BY <1>1, <1>2, <1>3, <2>1, <2>5, <2>6 DEF BudgetInv
<1> QED BY <1>8, <1>9

\* Time closes windows and opens none.
LEMMA BudgetInvTic ==
  ASSUME BudgetInv, TicFenetre
  PROVE  BudgetInv'
<1>1. heure \in Nat /\ BonneMap(hits, heure) /\ acceptes \in [Keys -> Seq(Nat)]
      /\ SameBudget(hits, acceptes, heure) /\ WithinLimit(acceptes, heure)
    BY DEF BudgetInv
<1>2. heure' = heure + 1 /\ hits' = hits /\ acceptes' = acceptes
    BY DEF TicFenetre
<1> DEFINE m == heure + 1
<1>3. m \in Nat /\ heure <= m
    BY <1>1
<1>4. BonneMap(hits, m)
  <2>1. \A e \in ToSet(hits) : EnOrdre(e.dates, heure) => EnOrdre(e.dates, m)
    <3> SUFFICES ASSUME NEW d, EnOrdre(d, heure) PROVE EnOrdre(d, m)
        OBVIOUS
    <3>1. Derniere(d) \in Nat
        BY DEF EnOrdre, Derniere
    <3> QED BY <1>1, <3>1 DEF EnOrdre
  <2> QED BY <1>1, <2>1 DEF BonneMap
<1> HIDE DEF m
<1>5. \A c \in Keys : acceptes[c] \in Seq(Nat) /\ Dates(hits, c) \in Seq(Nat)
    BY <1>1, DatesTyped
<1>6. \A c \in Keys : /\ Ouvertes(acceptes[c], m) = Ouvertes(Ouvertes(acceptes[c], heure), m)
                      /\ Ouvertes(Dates(hits, c), m) = Ouvertes(Ouvertes(Dates(hits, c), heure), m)
    BY <1>1, <1>3, <1>5, OpenLater
<1>7. SameBudget(hits, acceptes, m)
    BY <1>1, <1>6 DEF SameBudget
<1>8. WithinLimit(acceptes, m)
  <2> SUFFICES ASSUME NEW c \in Keys PROVE Len(Ouvertes(acceptes[c], m)) <= Limit
      BY DEF WithinLimit
  <2>1. Ouvertes(acceptes[c], heure) \in Seq(Nat)
      BY <1>1, <1>5, OpenTyped
  <2>2. Len(Ouvertes(Ouvertes(acceptes[c], heure), m)) <= Len(Ouvertes(acceptes[c], heure))
        /\ Ouvertes(Ouvertes(acceptes[c], heure), m) \in Seq(Nat)
      BY <1>3, <2>1, OpenTyped
  <2>3. Len(Ouvertes(acceptes[c], heure)) <= Limit
      BY <1>1 DEF WithinLimit
  <2> QED BY <1>6, <2>1, <2>2, <2>3, BudgetAssumption
<1> QED BY <1>1, <1>2, <1>3, <1>4, <1>7, <1>8 DEF BudgetInv, m

\* No key is accepted more than Limit times in one window, unless the ceiling
\* evicted it meanwhile (SlidingWindow of password-reset.service.ts), whatever
\* the keys, the limit and the moments of the sweeps.
THEOREM BudgetHeldAlways == WindowSpec => []BudgetHeld
<1>1. WindowInit => BudgetInv
  <2> SUFFICES ASSUME WindowInit PROVE BudgetInv
      OBVIOUS
  <2> QED BY WholeBudgets DEF WindowInit, BudgetInv
<1>2. BudgetInv /\ [WindowNext]_windowVars => BudgetInv'
  <2> SUFFICES ASSUME BudgetInv, [WindowNext]_windowVars PROVE BudgetInv'
      OBVIOUS
  <2>1. CASE \E c \in Keys : TryConsume(c)
      BY <2>1, BudgetInvTryConsume
  <2>2. CASE TicFenetre
      BY <2>2, BudgetInvTic
  <2>3. CASE ViderBudgets
      BY <2>3, WholeBudgets DEF ViderBudgets, BudgetInv
  <2>4. CASE UNCHANGED windowVars
      BY <2>4 DEF windowVars, BudgetInv, SameBudget, WithinLimit, BonneMap
  <2> QED BY <2>1, <2>2, <2>3, <2>4 DEF WindowNext
<1>3. BudgetInv => BudgetHeld
    BY DEF BudgetInv, WithinLimit, BudgetHeld
<1> QED BY <1>1, <1>2, <1>3, PTL DEF WindowSpec

-----------------------------------------------------------------------------
(***************************************************************************)
(* Issues.  The feed drops the references to a mix it has, then asks which *)
(* mixes exist; the page asks for each reference, keeps what came and is   *)
(* compared without its repetitions.  Both are one filter after the other  *)
(* (RepetitionThenFilter), and each reading tells the catalogue as it is   *)
(* for as long as it is a witness of it.                                   *)
(***************************************************************************)

\* The places of a sequence whose value is new there.
Neufs(s) == {i \in DOMAIN s : \A k \in 1..(i - 1) : s[k] # s[i]}

LEMMA RepetitionIsPlaces ==
  ASSUME NEW X, NEW s \in Seq(X)
  PROVE  SansRepetition(s) = AuxPlaces(s, Neufs(s))
<1> DEFINE n == [m \in ToSet(s) |-> m]
<1>1. \A i \in DOMAIN s : s[i] \in ToSet(s) /\ n[s[i]] = s[i]
    BY DEF ToSet
<1>2. \A i \in DOMAIN s : \A k \in 1..(i - 1) : k \in DOMAIN s
    OBVIOUS
<1> HIDE DEF n
<1>3. Inedits(s, n) = Neufs(s)
    BY <1>1, <1>2 DEF Inedits, Neufs
<1> QED BY <1>3 DEF SansRepetition, n

LEMMA RepetitionOfAppend ==
  ASSUME NEW X, NEW s \in Seq(X), NEW e \in X
  PROVE  SansRepetition(Append(s, e)) =
           IF e \in ToSet(s) THEN SansRepetition(s) ELSE Append(SansRepetition(s), e)
<1> DEFINE t == Append(s, e)
<1>1. /\ t \in Seq(X) /\ DOMAIN t = 1..(Len(s) + 1) /\ t[Len(s) + 1] = e /\ Len(s) \in Nat
      /\ DOMAIN s = 1..Len(s) /\ \A i \in 1..Len(s) : t[i] = s[i]
    BY AppendProperties, LenProperties
<1> HIDE DEF t
<1>2. \A i \in 1..Len(s) : i \in Neufs(s) <=> i \in Neufs(t)
  <2> SUFFICES ASSUME NEW i \in 1..Len(s) PROVE i \in Neufs(s) <=> i \in Neufs(t)
      OBVIOUS
  <2>1. \A k \in 1..(i - 1) : k \in 1..Len(s) /\ t[k] = s[k]
      BY <1>1
  <2>2. i \in DOMAIN s /\ i \in DOMAIN t /\ t[i] = s[i]
      BY <1>1
  <2> QED BY <2>1, <2>2 DEF Neufs
<1>3. Len(s) + 1 \in Neufs(t) <=> e \notin ToSet(s)
  <2>1. 1..((Len(s) + 1) - 1) = DOMAIN s /\ Len(s) + 1 \in DOMAIN t
      BY <1>1
  <2>2. \A k \in DOMAIN s : t[k] = s[k]
      BY <1>1
  <2> QED BY <1>1, <2>1, <2>2 DEF Neufs, ToSet
<1>4. AuxPlaces(s, Neufs(s)) = AuxPlaces(s, Neufs(t))
    BY <1>2, SamePlaces
<1>5. AuxPlaces(t, Neufs(t)) = IF Len(s) + 1 \in Neufs(t) THEN Append(AuxPlaces(s, Neufs(t)), e)
                               ELSE AuxPlaces(s, Neufs(t))
    BY PlacesOfAppend DEF t
<1>6. SansRepetition(t) = AuxPlaces(t, Neufs(t)) /\ SansRepetition(s) = AuxPlaces(s, Neufs(s))
    BY <1>1, RepetitionIsPlaces
<1> QED BY <1>3, <1>4, <1>5, <1>6 DEF t

LEMMA RepetitionOfNone == SansRepetition(<<>>) = <<>>
<1>1. <<>> \in Seq({})
    OBVIOUS
<1> QED BY <1>1, RepetitionIsPlaces, PlacesOfNone

LEMMA RepetitionTyped ==
  ASSUME NEW X
  PROVE  \A s \in Seq(X) : SansRepetition(s) \in Seq(X)
<1> DEFINE A == {s \in Seq(X) : SansRepetition(s) \in Seq(X)}
<1>1. <<>> \in A
  <2>1. SansRepetition(<<>>) \in Seq(X) /\ <<>> \in Seq(X)
    <3>1. SansRepetition(<<>>) = <<>>
        BY RepetitionOfNone
    <3>2. <<>> \in Seq(X)
        OBVIOUS
    <3> QED BY <3>1, <3>2
  <2> QED BY <2>1
<1>2. \A s \in Seq(X), e \in X : s \in A => Append(s, e) \in A
  <2> SUFFICES ASSUME NEW s \in Seq(X), NEW e \in X, s \in A
               PROVE  Append(s, e) \in A
      OBVIOUS
  <2>1. Append(s, e) \in Seq(X) /\ Append(SansRepetition(s), e) \in Seq(X)
      BY AppendProperties
  <2>2. SansRepetition(Append(s, e)) \in Seq(X)
      BY <2>1, RepetitionOfAppend
  <2> QED BY <2>1, <2>2
<1> HIDE DEF A
<1>3. Seq(X) \subseteq A
    BY <1>1, <1>2, EverySequence
<1> QED BY <1>3 DEF A

\* Dropping repetitions, then what is not in E, is the same as the other way.
LEMMA RepetitionThenFilter ==
  ASSUME NEW X, NEW E
  PROVE  \A s \in Seq(X) : Filtrees(SansRepetition(s), E) = SansRepetition(Filtrees(s, E))
<1> DEFINE A == {s \in Seq(X) : Filtrees(SansRepetition(s), E) = SansRepetition(Filtrees(s, E))}
<1>1. <<>> \in A
    BY RepetitionOfNone, FilterOfNone
<1>2. \A s \in Seq(X), e \in X : s \in A => Append(s, e) \in A
  <2> SUFFICES ASSUME NEW s \in Seq(X), NEW e \in X, s \in A
               PROVE  Append(s, e) \in A
      OBVIOUS
  <2> DEFINE r == SansRepetition(s)
             f == Filtrees(s, E)
             t == Append(s, e)
  <2>1. t \in Seq(X) /\ r \in Seq(X) /\ f \in Seq(X) /\ ToSet(f) = ToSet(s) \cap E
      BY AppendProperties, RepetitionTyped, FilterTyped, ElementsOfFilter
  <2>2. Filtrees(r, E) = SansRepetition(f)
      OBVIOUS
  <2>3. SansRepetition(t) = IF e \in ToSet(s) THEN r ELSE Append(r, e)
      BY RepetitionOfAppend
  <2>4. Filtrees(t, E) = IF e \in E THEN Append(f, e) ELSE f
      BY FilterOfAppend
  <2> HIDE DEF r, f, t
  <2>5. Filtrees(Append(r, e), E) = IF e \in E THEN Append(Filtrees(r, E), e) ELSE Filtrees(r, E)
      BY <2>1, FilterOfAppend
  <2>6. SansRepetition(Append(f, e)) =
          IF e \in ToSet(f) THEN SansRepetition(f) ELSE Append(SansRepetition(f), e)
      BY <2>1, RepetitionOfAppend
  <2>7. Filtrees(SansRepetition(t), E) = SansRepetition(Filtrees(t, E))
    <3>1. CASE e \in E /\ e \in ToSet(s)
        BY <2>1, <2>2, <2>3, <2>4, <2>6, <3>1
    <3>2. CASE e \in E /\ e \notin ToSet(s)
        BY <2>1, <2>2, <2>3, <2>4, <2>5, <2>6, <3>2
    <3>3. CASE e \notin E
        BY <2>2, <2>3, <2>4, <2>5, <3>3
    <3> QED BY <3>1, <3>2, <3>3
  <2> QED BY <2>1, <2>7 DEF t
<1> HIDE DEF A
<1>3. Seq(X) \subseteq A
    BY <1>1, <1>2, EverySequence
<1> QED BY <1>3 DEF A

\* The mixes of what a filter by places leaves are what it leaves of the mixes.
LEMMA PlacesThenCites ==
  ASSUME NEW X, NEW I
  PROVE  \A s \in Seq(X) : Cites(AuxPlaces(s, I)) = AuxPlaces(Cites(s), I)
<1> DEFINE A == {s \in Seq(X) : AuxPlaces(s, I) \in Seq(X)
                                /\ Cites(AuxPlaces(s, I)) = AuxPlaces(Cites(s), I)}
<1>1. <<>> \in A
  <2>1. Cites(<<>>) = <<>>
    <3>1. DOMAIN <<>> = 1..0 /\ Len(<<>>) = 0
        OBVIOUS
    <3>2. Cites(<<>>) \in [1..0 -> {}]
        BY <3>1 DEF Cites
    <3>3. Cites(<<>>) \in Seq({}) /\ DOMAIN Cites(<<>>) = {}
        BY <3>2, SeqDef
    <3> QED BY <3>3
  <2>2. AuxPlaces(<<>>, I) = <<>> /\ <<>> \in Seq(X)
      BY PlacesOfNone
  <2> QED BY <2>1, <2>2
<1>2. \A s \in Seq(X), e \in X : s \in A => Append(s, e) \in A
  <2> SUFFICES ASSUME NEW s \in Seq(X), NEW e \in X, s \in A
               PROVE  Append(s, e) \in A
      OBVIOUS
  <2> DEFINE Y == {Cite[x] : x \in X}
             p == AuxPlaces(s, I)
  <2>0. Cite[e] \in Y
      OBVIOUS
  <2>1. p \in Seq(X) /\ Cites(p) = AuxPlaces(Cites(s), I)
      OBVIOUS
  <2>2. ASSUME NEW u \in Seq(X)
        PROVE  /\ Cites(u) \in Seq(Y) /\ Len(Cites(u)) = Len(u)
               /\ Cites(Append(u, e)) = Append(Cites(u), Cite[e])
    <3> DEFINE v == Append(u, e)
               c == Cites(u)
    <3>1. /\ DOMAIN v = 1..(Len(u) + 1) /\ v[Len(u) + 1] = e /\ Len(u) \in Nat
          /\ DOMAIN u = 1..Len(u) /\ \A i \in 1..Len(u) : v[i] = u[i] /\ u[i] \in X
        BY AppendProperties, LenProperties
    <3>2. c = [i \in 1..Len(u) |-> Cite[u[i]]]
        BY <3>1 DEF Cites
    <3>3. c \in Seq(Y) /\ Len(c) = Len(u)
      <4>1. c \in [1..Len(u) -> Y]
          BY <3>1, <3>2
      <4>2. c \in Seq(Y)
          BY <3>1, <4>1, SeqDef
      <4> QED BY <3>1, <4>1, <4>2
    <3>4. Cites(v) = [i \in 1..(Len(u) + 1) |-> Cite[v[i]]]
        BY <3>1 DEF Cites
    <3>5. \A i \in 1..Len(u) : c[i] = Cite[u[i]]
        BY <3>2
    <3> HIDE DEF v, c
    <3> DEFINE w == Append(c, Cite[e])
    <3>6. w \in Seq(Y) /\ Len(w) = Len(u) + 1 /\ w[Len(u) + 1] = Cite[e]
          /\ \A i \in 1..Len(u) : w[i] = c[i]
        BY <2>0, <3>3, AppendProperties
    <3> HIDE DEF w
    <3>7. w = [i \in 1..(Len(u) + 1) |-> w[i]]
        BY <3>6
    <3>8. \A i \in 1..(Len(u) + 1) : w[i] = Cite[v[i]]
        BY <3>1, <3>5, <3>6
    <3>9. Cites(v) = w
        BY <3>4, <3>7, <3>8
    <3> QED BY <3>3, <3>9 DEF v, c, w
  <2> HIDE DEF Y, p
  <2>3. AuxPlaces(Append(s, e), I) = IF Len(s) + 1 \in I THEN Append(p, e) ELSE p
      BY PlacesOfAppend DEF p
  <2>4. AuxPlaces(Cites(Append(s, e)), I) =
          IF Len(s) + 1 \in I THEN Append(Cites(p), Cite[e]) ELSE Cites(p)
    <3>0. Cites(s) \in Seq(Y) /\ Len(Cites(s)) = Len(s)
          /\ Cites(Append(s, e)) = Append(Cites(s), Cite[e])
        BY <2>2
    <3>1. AuxPlaces(Append(Cites(s), Cite[e]), I) =
            IF Len(Cites(s)) + 1 \in I THEN Append(AuxPlaces(Cites(s), I), Cite[e])
            ELSE AuxPlaces(Cites(s), I)
      <4> DEFINE c == Cites(s)
                 m == Cite[e]
      <4> SUFFICES AuxPlaces(Append(c, m), I) =
            IF Len(c) + 1 \in I THEN Append(AuxPlaces(c, I), m) ELSE AuxPlaces(c, I)
          OBVIOUS
      <4>1. c \in Seq(Y) /\ m \in Y
          BY <2>0, <3>0
      <4> HIDE DEF c, m
      <4> QED BY <4>1, PlacesOfAppend
    <3> QED BY <2>1, <3>0, <3>1
  <2>5. Cites(Append(p, e)) = Append(Cites(p), Cite[e])
      BY <2>1, <2>2
  <2>6. Append(p, e) \in Seq(X) /\ Append(s, e) \in Seq(X)
      BY <2>1, AppendProperties
  <2>7. AuxPlaces(Append(s, e), I) \in Seq(X)
      BY <2>1, <2>3, <2>6
  <2>8. Cites(AuxPlaces(Append(s, e), I)) = AuxPlaces(Cites(Append(s, e)), I)
      BY <2>3, <2>4, <2>5
  <2> QED BY <2>6, <2>7, <2>8
<1> HIDE DEF A
<1>3. Seq(X) \subseteq A
    BY <1>1, <1>2, EverySequence
<1> QED BY <1>3 DEF A

\* The mixes of a feed, before the base is asked.
LEMMA FeedOfReferences ==
  ASSUME NEW X, NEW refs \in Seq(X)
  PROVE  Cites(Dedoublonner(refs)) = SansRepetition(Cites(refs))
<1> DEFINE c == Cites(refs)
           Y == {Cite[x] : x \in X}
<1>1. DOMAIN c = DOMAIN refs /\ \A i \in DOMAIN refs : c[i] = Cite[refs[i]]
    BY DEF Cites
<1>2. c \in Seq(Y)
  <2>1. DOMAIN refs = 1..Len(refs) /\ Len(refs) \in Nat /\ \A i \in DOMAIN refs : refs[i] \in X
      OBVIOUS
  <2>2. c = [i \in 1..Len(refs) |-> Cite[refs[i]]]
      BY <2>1 DEF Cites
  <2>3. c \in [1..Len(refs) -> Y]
      BY <2>1, <2>2
  <2> QED BY <2>1, <2>3, SeqDef
<1>3. \A i \in DOMAIN refs : \A k \in 1..(i - 1) : k \in DOMAIN refs
    OBVIOUS
<1> HIDE DEF c, Y
<1>4. Inedits(refs, Cite) = Neufs(c)
    BY <1>1, <1>3 DEF Inedits, Neufs
<1>5. Cites(Dedoublonner(refs)) = AuxPlaces(c, Neufs(c))
    BY <1>4, PlacesThenCites DEF Dedoublonner, c
<1> QED BY <1>2, <1>5, RepetitionIsPlaces DEF c

-----------------------------------------------------------------------------
(* The issue of the day.                                                   *)

LEMMA HasLeast ==
  ASSUME NEW S, S # {}, S \subseteq Nat
  PROVE  \E p \in S : \A q \in S : p <= q
<1>1. PICK x \in S : \A y \in S : ~(<<y, x>> \in OpToRel(<, Nat))
    BY NatLessThanWellFounded, WFMin
<1>2. x \in Nat /\ \A y \in S : y \in Nat
    OBVIOUS
<1>3. \A y \in S : ~(y < x)
    BY <1>1, <1>2 DEF OpToRel
<1>4. \A y \in S : x <= y
    BY <1>2, <1>3
<1> QED BY <1>4

LEMMA ElueIsReadable ==
  ASSUME NEW v \in Parus, NEW j \in Jours, Elue(v, j) # Manque
  PROVE  Elue(v, j) \in ToSet(Feuillets[v]) /\ LisibleAuSite(Elue(v, j))
<1> DEFINE fs == Feuillets[v]
           C == {i \in DOMAIN fs : /\ LisibleAuSite(fs[i]) /\ fs[i].affichee
                                   /\ fs[i].de <= j /\ j <= fs[i].a}
           Premier(i) == \A k \in C \ {i} : fs[k].de < fs[i].de \/ (fs[k].de = fs[i].de /\ i < k)
           c == CHOOSE i \in C : Premier(i)
<1>1. Elue(v, j) = fs[c] /\ C # {}
    BY DEF Elue
<1>2. fs \in Seq(ToSet(fs)) /\ \A f \in ToSet(fs) : f.de \in Nat
    BY FourneesAssumption
<1>3. DOMAIN fs \subseteq Nat /\ \A i \in DOMAIN fs : fs[i] \in ToSet(fs)
    BY <1>2 DEF ToSet
<1>4. \A i \in C : i \in Nat /\ i \in DOMAIN fs /\ fs[i].de \in Nat /\ fs[i].de <= j /\ LisibleAuSite(fs[i])
    BY <1>2, <1>3
<1>5. j \in Nat
    BY FourneesAssumption
<1> HIDE DEF fs, C
<1>6. \E i \in C : Premier(i)
  <2> DEFINE D == {fs[k].de : k \in C}
  <2>1. D # {} /\ D \subseteq 0..j
    <3>1. \A k \in C : fs[k].de \in 0..j
        BY <1>4, <1>5
    <3> QED BY <1>1, <3>1
  <2>2. PICK d \in D : \A e \in D : e <= d
      BY <1>5, <2>1, HasGreatest
  <2> DEFINE K == {k \in C : fs[k].de = d}
  <2>3. K # {} /\ K \subseteq Nat
      BY <1>4, <2>2
  <2>4. PICK i \in K : \A k \in K : i <= k
      BY <2>3, HasLeast
  <2>5. ASSUME NEW k \in C \ {i}
        PROVE  fs[k].de < fs[i].de \/ (fs[k].de = fs[i].de /\ i < k)
    <3>1. fs[k].de \in Nat /\ fs[i].de = d /\ d \in Nat /\ k \in Nat /\ i \in Nat /\ i # k
        BY <1>4, <2>4
    <3>2. fs[k].de <= d
        BY <2>2
    <3>3. fs[k].de = d => i <= k
        BY <2>4
    <3> QED BY <3>1, <3>2, <3>3
  <2>6. i \in C /\ Premier(i)
      BY <2>4, <2>5
  <2> QED BY <2>6
<1>7. c \in C
    BY <1>6
<1> HIDE DEF c
<1> QED BY <1>1, <1>3, <1>4, <1>7 DEF fs

-----------------------------------------------------------------------------
(* The invariant.                                                          *)

\* A page that shows an issue of its version.
PageDe(a) ==
  /\ a = [version |-> a.version, fichier |-> a.fichier, reponses |-> a.reponses, montre |-> a.montre]
  /\ a.version \in Parus /\ a.fichier \in ToSet(Feuillets[a.version]) /\ LisibleAuSite(a.fichier)
  /\ a.reponses = [i \in DOMAIN a.fichier.refs |-> a.reponses[i]]

\* What came tells what the base has.
Fidele(a, E) ==
  \A i \in DOMAIN a.fichier.refs :
    LET m == Cite[a.fichier.refs[i]]
    IN  a.reponses[i] = "attendue" \/ a.reponses[i] = IF m \in E THEN m ELSE "refusee"

\* A feed asked for the number of the page's issue.
FluxDe(f, a) ==
  /\ f = [etat |-> f.etat, version |-> f.version, fichier |-> f.fichier, items |-> f.items]
  /\ f.etat \in {"muet", "500", "404", "en base", "servi"}
  /\ f.etat = "500" => \E g \in ToSet(Feuillets[f.version]) : ~LisibleAuFlux(g)
  /\ f.etat = "404" /\ f.version # Manque =>
       \A g \in ToSet(Feuillets[f.version]) : g.exemple \/ g.numero # a.fichier.numero
  /\ f.etat \in {"en base", "servi"} =>
       f.fichier \in ToSet(Feuillets[f.version]) /\ f.fichier.numero = a.fichier.numero

Servi(f, E) == f.etat = "servi" => f.items = Filtrees(Cites(Dedoublonner(f.fichier.refs)), E)

FourneesInv ==
  /\ paquet \in Parus /\ dossier \in Parus \cup {Manque} /\ enBase \subseteq Citables
  /\ accueil = PageFermee \/ PageDe(accueil)
  /\ FluxDe(flux, accueil)
  /\ "accueil" \in temoins => accueil = PageFermee \/ Fidele(accueil, enBase)
  /\ "flux" \in temoins => Servi(flux, enBase)

LEMMA MuteFeed == ASSUME NEW a PROVE FluxDe(FluxMuet, a) /\ \A E : Servi(FluxMuet, E)
BY DEF FluxDe, Servi, FluxMuet

LEMMA FourneesStarts == FourneesInit => FourneesInv
BY MuteFeed, FourneesAssumption DEF FourneesInit, FourneesInv

LEMMA PageOpened ==
  ASSUME FourneesInv, NEW j \in Jours, OuvrirAccueil(j)
  PROVE  FourneesInv'
<1> DEFINE f == Elue(paquet, j)
<1>1. /\ accueil' = IF f = Manque THEN PageFermee
                    ELSE [version |-> paquet, fichier |-> f, montre |-> TRUE,
                          reponses |-> [i \in DOMAIN f.refs |-> "attendue"]]
      /\ temoins' = {"accueil"} /\ flux' = FluxMuet
      /\ UNCHANGED <<paquet, dossier, enBase, remous>>
    BY DEF OuvrirAccueil
<1>2. paquet \in Parus
    BY DEF FourneesInv
<1>3. f # Manque => f \in ToSet(Feuillets[paquet]) /\ LisibleAuSite(f)
    BY <1>2, ElueIsReadable
<1> HIDE DEF f
<1>4. accueil' = PageFermee \/ (PageDe(accueil') /\ Fidele(accueil', enBase'))
  <2>1. CASE f = Manque
      BY <1>1, <2>1
  <2>2. CASE f # Manque
    <3> DEFINE a == [version |-> paquet, fichier |-> f, montre |-> TRUE,
                     reponses |-> [i \in DOMAIN f.refs |-> "attendue"]]
    <3>1. /\ a.version = paquet /\ a.fichier = f /\ a.montre = TRUE
          /\ a.reponses = [i \in DOMAIN f.refs |-> "attendue"]
          /\ a = [version |-> a.version, fichier |-> a.fichier, reponses |-> a.reponses, montre |-> a.montre]
        OBVIOUS
    <3>2. accueil' = a
        BY <1>1, <2>2
    <3> HIDE DEF a
    <3>3. a.reponses = [i \in DOMAIN a.fichier.refs |-> a.reponses[i]]
          /\ \A i \in DOMAIN a.fichier.refs : a.reponses[i] = "attendue"
        BY <3>1
    <3>4. PageDe(a)
        BY <1>2, <1>3, <2>2, <3>1, <3>3 DEF PageDe
    <3>5. Fidele(a, enBase')
        BY <3>3 DEF Fidele
    <3> QED BY <3>2, <3>4, <3>5
  <2> QED BY <2>1, <2>2
<1> QED BY <1>1, <1>4, MuteFeed DEF FourneesInv

LEMMA ReferenceAnswered ==
  ASSUME FourneesInv, NEW i, RepondreRef(i)
  PROVE  FourneesInv'
<1> DEFINE m == Cite[accueil.fichier.refs[i]]
<1>1. i \in DOMAIN accueil.reponses /\ UNCHANGED <<paquet, dossier, enBase, remous, flux>>
    BY DEF RepondreRef
<1>2. PICK r \in {m, "refusee"} :
        /\ r = m => m \in enBase
        /\ accueil' = [accueil EXCEPT !.reponses = [accueil.reponses EXCEPT ![i] = r],
             !.montre = "attendue" \in ToSet([accueil.reponses EXCEPT ![i] = r])
                        \/ Len(Venus([accueil.reponses EXCEPT ![i] = r])) >= MixMinimum]
        /\ temoins' = IF r = "refusee" /\ m \in enBase THEN temoins \ {"accueil"} ELSE temoins
    BY DEF RepondreRef
<1>3. PageDe(accueil)
  <2>1. PageFermee.reponses = <<>> /\ DOMAIN <<>> = {}
      BY DEF PageFermee
  <2> QED BY <1>1, <2>1 DEF FourneesInv
<1> DEFINE a == accueil'
<1>4. /\ a.version = accueil.version /\ a.fichier = accueil.fichier
      /\ a.reponses = [accueil.reponses EXCEPT ![i] = r]
      /\ a = [version |-> a.version, fichier |-> a.fichier, reponses |-> a.reponses, montre |-> a.montre]
    BY <1>2, <1>3 DEF PageDe
<1> HIDE DEF a
<1>5. /\ DOMAIN a.reponses = DOMAIN accueil.fichier.refs /\ i \in DOMAIN accueil.fichier.refs
      /\ a.reponses[i] = r /\ \A k \in DOMAIN accueil.fichier.refs : k # i => a.reponses[k] = accueil.reponses[k]
      /\ a.reponses = [k \in DOMAIN a.fichier.refs |-> a.reponses[k]]
    BY <1>1, <1>3, <1>4 DEF PageDe
<1>6. PageDe(a)
    BY <1>3, <1>4, <1>5 DEF PageDe
<1>7. FluxDe(flux, a)
    BY <1>4 DEF FourneesInv, FluxDe
<1>8. "accueil" \in temoins' => Fidele(a, enBase)
  <2> SUFFICES ASSUME "accueil" \in temoins' PROVE Fidele(a, enBase)
      OBVIOUS
  <2>1. "accueil" \in temoins /\ ~(r = "refusee" /\ m \in enBase)
      BY <1>2
  <2>2. Fidele(accueil, enBase)
    <3>1. accueil # PageFermee
      <4>1. PageFermee.version = Manque /\ Manque \notin Parus
          BY FourneesAssumption DEF PageFermee
      <4> QED BY <1>3, <4>1 DEF PageDe
    <3> QED BY <2>1, <3>1 DEF FourneesInv
  <2>3. r = IF m \in enBase THEN m ELSE "refusee"
      BY <1>2, <2>1
  <2> QED BY <1>4, <1>5, <2>2, <2>3 DEF Fidele
<1> QED BY <1>1, <1>2, <1>6, <1>7, <1>8 DEF FourneesInv, a

LEMMA FeedAsked ==
  ASSUME FourneesInv, accueil.fichier # Manque, DemanderFlux(accueil.fichier.numero)
  PROVE  FourneesInv'
<1> DEFINE n == accueil.fichier.numero
           fs == Feuillets[dossier]
           lus == IF dossier = Manque THEN <<>> ELSE Filtrees(fs, {f \in ToSet(fs) : ~f.exemple})
           trouves == Filtrees(lus, {f \in ToSet(lus) : f.numero = n})
           illisible == \E i \in DOMAIN lus : ~LisibleAuFlux(lus[i])
<1>1. /\ flux' = IF illisible THEN [FluxMuet EXCEPT !.etat = "500", !.version = dossier]
                 ELSE IF trouves = <<>> THEN [FluxMuet EXCEPT !.etat = "404", !.version = dossier]
                 ELSE [etat |-> "en base", version |-> dossier, fichier |-> trouves[1], items |-> <<>>]
      /\ UNCHANGED <<paquet, dossier, enBase, remous, accueil>>
      /\ temoins' = temoins \cup {"flux"}
    BY DEF DemanderFlux
<1>2. dossier \in Parus \cup {Manque}
    BY DEF FourneesInv
<1>3. dossier \in Parus =>
        /\ lus \in Seq(ToSet(fs)) /\ ToSet(lus) = {f \in ToSet(fs) : ~f.exemple}
  <2> SUFFICES ASSUME dossier \in Parus
               PROVE  lus \in Seq(ToSet(fs)) /\ ToSet(lus) = {f \in ToSet(fs) : ~f.exemple}
      OBVIOUS
  <2>1. dossier # Manque /\ fs \in Seq(ToSet(fs))
      BY FourneesAssumption
  <2>2. lus = Filtrees(fs, {f \in ToSet(fs) : ~f.exemple})
      BY <2>1
  <2>3. ToSet(fs) \cap {f \in ToSet(fs) : ~f.exemple} = {f \in ToSet(fs) : ~f.exemple}
      OBVIOUS
  <2> HIDE DEF fs
  <2> QED BY <2>1, <2>2, <2>3, FilterTyped, ElementsOfFilter
<1>4. dossier = Manque => lus = <<>>
    OBVIOUS
<1> HIDE DEF lus, fs
<1>5. dossier \in Parus =>
        trouves \in Seq(ToSet(fs)) /\ ToSet(trouves) = {f \in ToSet(lus) : f.numero = n}
  <2>1. ToSet(lus) \cap {f \in ToSet(lus) : f.numero = n} = {f \in ToSet(lus) : f.numero = n}
      OBVIOUS
  <2> QED BY <1>3, <2>1, FilterTyped, ElementsOfFilter
<1>6. dossier = Manque => trouves = <<>> /\ ~illisible
  <2>1. DOMAIN <<>> = {}
      OBVIOUS
  <2> QED BY <1>4, <2>1, FilterOfNone
<1>7. illisible => dossier \in Parus /\ \E g \in ToSet(fs) : ~LisibleAuFlux(g)
  <2>1. \A i \in DOMAIN lus : lus[i] \in ToSet(lus)
      BY DEF ToSet
  <2> QED BY <1>2, <1>3, <1>6, <2>1
<1> HIDE DEF trouves, illisible
<1>8. trouves # <<>> =>
        /\ dossier \in Parus /\ trouves[1] \in ToSet(fs) /\ trouves[1].numero = n
  <2> SUFFICES ASSUME trouves # <<>>
               PROVE  dossier \in Parus /\ trouves[1] \in ToSet(fs) /\ trouves[1].numero = n
      OBVIOUS
  <2>1. dossier \in Parus
      BY <1>2, <1>6
  <2>2. 1 \in DOMAIN trouves
      BY <1>5, <2>1
  <2>3. trouves[1] \in ToSet(trouves)
      BY <2>2 DEF ToSet
  <2> QED BY <1>3, <1>5, <2>1, <2>3
<1>9. trouves = <<>> /\ dossier # Manque => \A g \in ToSet(fs) : g.exemple \/ g.numero # n
  <2>1. ToSet(<<>>) = {}
    <3>1. DOMAIN <<>> = {}
        OBVIOUS
    <3> QED BY <3>1 DEF ToSet
  <2> QED BY <1>2, <1>3, <1>5, <2>1
<1>10. FluxDe(flux', accueil) /\ flux'.etat # "servi"
  <2>1. CASE illisible
    <3>1. flux' = [etat |-> "500", version |-> dossier, fichier |-> Manque, items |-> <<>>]
        BY <1>1, <2>1 DEF FluxMuet
    <3> QED BY <1>7, <2>1, <3>1 DEF FluxDe, fs
  <2>2. CASE ~illisible /\ trouves = <<>>
    <3>1. flux' = [etat |-> "404", version |-> dossier, fichier |-> Manque, items |-> <<>>]
        BY <1>1, <2>2 DEF FluxMuet
    <3> QED BY <1>9, <2>2, <3>1 DEF FluxDe, fs
  <2>3. CASE ~illisible /\ trouves # <<>>
    <3>1. flux' = [etat |-> "en base", version |-> dossier, fichier |-> trouves[1], items |-> <<>>]
        BY <1>1, <2>3
    <3> QED BY <1>8, <2>3, <3>1 DEF FluxDe, fs
  <2> QED BY <2>1, <2>2, <2>3
<1>11. Servi(flux', enBase)
    BY <1>10 DEF Servi
<1>12. "accueil" \in temoins' => "accueil" \in temoins
    BY <1>1
<1> QED BY <1>1, <1>10, <1>11, <1>12 DEF FourneesInv

LEMMA FeedServed ==
  ASSUME FourneesInv, ServirFlux
  PROVE  FourneesInv'
<1>1. /\ flux.etat = "en base"
      /\ flux' = [flux EXCEPT !.etat = "servi",
                    !.items = Filtrees(Cites(Dedoublonner(flux.fichier.refs)), enBase)]
      /\ UNCHANGED <<paquet, dossier, enBase, remous, accueil, temoins>>
    BY DEF ServirFlux
<1>2. FluxDe(flux, accueil)
    BY DEF FourneesInv
<1> DEFINE x == Filtrees(Cites(Dedoublonner(flux.fichier.refs)), enBase)
<1>3. flux' = [etat |-> "servi", version |-> flux.version, fichier |-> flux.fichier, items |-> x]
    BY <1>1, <1>2 DEF FluxDe
<1>4. Servi(flux', enBase)
    BY <1>3 DEF Servi
<1> HIDE DEF x
<1>5. FluxDe(flux', accueil)
    BY <1>1, <1>2, <1>3 DEF FluxDe
<1> QED BY <1>1, <1>4, <1>5 DEF FourneesInv

LEMMA FourneesKept == FourneesInv /\ [FourneesNext]_fourneesVars => FourneesInv'
<1> SUFFICES ASSUME FourneesInv, [FourneesNext]_fourneesVars PROVE FourneesInv'
    OBVIOUS
<1>1. CASE \E j \in Jours : OuvrirAccueil(j)
    BY <1>1, PageOpened
<1>2. CASE \E i \in DOMAIN accueil.reponses : RepondreRef(i)
    BY <1>2, ReferenceAnswered
<1>3. CASE accueil.fichier # Manque /\ DemanderFlux(accueil.fichier.numero)
    BY <1>3, FeedAsked
<1>4. CASE ServirFlux
    BY <1>4, FeedServed
<1>5. CASE \E m \in Citables : ChangerCatalogue(m)
    BY <1>5 DEF ChangerCatalogue, FourneesInv
<1>6. CASE \E v \in Parus : RemplacerPaquet(v)
    BY <1>6 DEF RemplacerPaquet, FourneesInv
<1>7. CASE RemplacerDossier
    BY <1>7 DEF RemplacerDossier, FourneesInv
<1>8. CASE UNCHANGED fourneesVars
    BY <1>8 DEF fourneesVars, FourneesInv
<1> QED BY <1>1, <1>2, <1>3, <1>4, <1>5, <1>6, <1>7, <1>8 DEF FourneesNext

\* What came, when all has and nothing failed, is what the base has of it.
LEMMA BannerIsFilter ==
  ASSUME NEW a, PageDe(a), NEW E \in SUBSET Citables, Fidele(a, E), "attendue" \notin ToSet(a.reponses)
  PROVE  Venus(a.reponses) = Filtrees(Cites(a.fichier.refs), E)
<1> DEFINE refs == a.fichier.refs
           c == Cites(refs)
           s == a.reponses
           X == Citables \cup {"refusee"}
<1>1. refs \in Seq(ToSet(refs)) /\ ToSet(refs) \subseteq DOMAIN Cite
    BY FourneesAssumption DEF PageDe, LisibleAuSite
<1>2. DOMAIN refs = 1..Len(refs) /\ Len(refs) \in Nat /\ \A i \in DOMAIN refs : refs[i] \in DOMAIN Cite
    BY <1>1
<1>3. c = [i \in 1..Len(refs) |-> Cite[refs[i]]]
    BY <1>2 DEF Cites
<1>4. s = [i \in 1..Len(refs) |-> s[i]]
    BY <1>2 DEF PageDe
<1>5. \A i \in 1..Len(refs) : s[i] # "attendue"
    BY <1>4 DEF ToSet
<1>6. \A i \in 1..Len(refs) :
        /\ c[i] = Cite[refs[i]] /\ c[i] \in Citables
        /\ s[i] = IF c[i] \in E THEN c[i] ELSE "refusee"
    BY <1>2, <1>3, <1>5, FourneesAssumption DEF Fidele
<1> HIDE DEF refs, c, s
<1>7. c \in [1..Len(refs) -> X] /\ s \in [1..Len(refs) -> X]
    BY <1>3, <1>4, <1>6
<1>8. c \in Seq(X) /\ s \in Seq(X) /\ Len(c) = Len(refs) /\ Len(s) = Len(refs)
  <2>1. c \in Seq(X) /\ s \in Seq(X)
      BY <1>2, <1>7, SeqDef
  <2> QED BY <1>2, <1>7, <2>1
<1> DEFINE I == {i \in DOMAIN s : s[i] \in Citables}
           J == {i \in DOMAIN c : c[i] \in E}
<1>9. DOMAIN s = 1..Len(refs) /\ DOMAIN c = 1..Len(refs) /\ "refusee" \notin Citables /\ E \subseteq Citables
    BY <1>7, FourneesAssumption
<1>10. \A i \in 1..Len(s) : (i \in I <=> i \in J) /\ (i \in I => s[i] = c[i])
    BY <1>6, <1>8, <1>9
<1>11. Venus(s) = AuxPlaces(s, I) /\ Filtrees(c, E) = AuxPlaces(c, J)
    BY DEF Venus, Filtrees
<1> HIDE DEF I, J, X
<1>12. AuxPlaces(s, I) = AuxPlaces(c, J)
    BY <1>8, <1>10, SamePlaces
<1> QED BY <1>11, <1>12 DEF s, c, refs

LEMMA BannerAndFeedFollow == FourneesInv => BannerAndFeedAgree
<1> SUFFICES ASSUME FourneesInv, Comparables, accueil.version # Manque,
                    accueil.version = flux.version, AdmiseEnCI(accueil.version),
                    NumerosDistincts(accueil.version), ~accueil.fichier.exemple
             PROVE  flux.etat = "servi" /\ flux.items = SansRepetition(Venus(accueil.reponses))
    BY DEF BannerAndFeedAgree
<1> DEFINE v == accueil.version
           f == accueil.fichier
           fs == Feuillets[v]
<1>1. /\ temoins = {"accueil", "flux"} /\ flux.etat \notin {"muet", "en base"}
      /\ "attendue" \notin ToSet(accueil.reponses)
    BY DEF Comparables
<1>2. PageDe(accueil) /\ accueil # PageFermee
  <2>1. PageFermee.version = Manque
      BY DEF PageFermee
  <2> QED BY <2>1 DEF FourneesInv
<1>3. Fidele(accueil, enBase) /\ Servi(flux, enBase) /\ FluxDe(flux, accueil) /\ enBase \in SUBSET Citables
    BY <1>1, <1>2 DEF FourneesInv
<1>4. f \in ToSet(fs) /\ LisibleAuSite(f)
    BY <1>2 DEF PageDe
<1>5. flux.etat # "500"
  <2>1. \A g \in ToSet(fs) : LisibleAuSite(g)
      BY DEF AdmiseEnCI, ToSet
  <2>2. \A g : LisibleAuSite(g) => LisibleAuFlux(g)
      BY DEF LisibleAuSite, LisibleAuFlux
  <2> QED BY <1>3, <2>1, <2>2 DEF FluxDe
<1>6. flux.etat # "404"
    BY <1>3, <1>4 DEF FluxDe
<1>7. flux.etat = "servi"
    BY <1>1, <1>3, <1>5, <1>6 DEF FluxDe
<1>8. flux.fichier \in ToSet(fs) /\ flux.fichier.numero = f.numero
    BY <1>3, <1>7 DEF FluxDe
<1>9. flux.fichier = f
    BY <1>4, <1>8 DEF NumerosDistincts, ToSet
<1> DEFINE c == Cites(f.refs)
<1>10. f.refs \in Seq(DOMAIN Cite)
  <2>1. f.refs \in Seq(ToSet(f.refs)) /\ ToSet(f.refs) \subseteq DOMAIN Cite
      BY <1>2, FourneesAssumption DEF PageDe, LisibleAuSite
  <2> QED BY <2>1, SeqMonotonic
<1>11. c \in Seq(Citables)
  <2>1. DOMAIN f.refs = 1..Len(f.refs) /\ Len(f.refs) \in Nat
        /\ \A i \in DOMAIN f.refs : Cite[f.refs[i]] \in Citables
      BY <1>10, FourneesAssumption
  <2>2. c = [i \in 1..Len(f.refs) |-> Cite[f.refs[i]]]
      BY <2>1 DEF Cites
  <2>3. c \in [1..Len(f.refs) -> Citables]
      BY <2>1, <2>2
  <2> QED BY <2>1, <2>3, SeqDef
<1>12. flux.items = Filtrees(Cites(Dedoublonner(f.refs)), enBase)
    BY <1>3, <1>7, <1>9 DEF Servi
<1>13. Cites(Dedoublonner(f.refs)) = SansRepetition(c)
    BY <1>10, FeedOfReferences
<1>14. Venus(accueil.reponses) = Filtrees(c, enBase)
    BY <1>1, <1>2, <1>3, BannerIsFilter
<1> HIDE DEF c
<1>15. Filtrees(SansRepetition(c), enBase) = SansRepetition(Filtrees(c, enBase))
    BY <1>11, RepetitionThenFilter
<1> QED BY <1>7, <1>12, <1>13, <1>14, <1>15

\* The banner of the home page and the feed it links to have the same mixes in
\* the same order (useFournee.ts, fournees.reader.ts, feeds.service.ts),
\* whatever the files, the days, the changes of the catalogue and the moments
\* of a deployment, when one version that passed CI was read by both.
THEOREM BannerAndFeedAgreeAlways ==
  FourneesInit /\ [][FourneesNext]_fourneesVars => []BannerAndFeedAgree
BY FourneesStarts, FourneesKept, BannerAndFeedFollow, PTL

=============================================================================
