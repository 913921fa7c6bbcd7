----------------------------- MODULE MCServices -----------------------------
(* One instance of each service whose state is its own: the proof of a forum *)
(* account, the request budgets, the watched sources, the outgoing requests, *)
(* the playlists and the comments.  They share no variable, so that their    *)
(* interleavings tell nothing: a behaviour moves the one `partie` names.     *)
EXTENDS IncongruesLink, SlidingWindow, Veille, Outgoing, Playlists, Comments, TLC

VARIABLE partie   \* the component of this behaviour

Au(nom, suite, autres) == partie = nom /\ suite /\ UNCHANGED <<partie, autres>>

ServicesInit ==
  /\ partie \in {"lien", "budgets", "veille", "sorties", "playlists", "commentaires"}
  /\ Init /\ WindowInit /\ VeilleInit /\ OutgoingInit /\ PlaylistsInit /\ CommentsInit

ServicesNext ==
  \/ Au("lien", Next, <<windowVars, veilleVars, outgoingVars, playlistsVars, commentsVars>>)
  \/ Au("budgets", WindowNext, <<vars, veilleVars, outgoingVars, playlistsVars, commentsVars>>)
  \/ Au("veille", VeilleNext, <<vars, windowVars, outgoingVars, playlistsVars, commentsVars>>)
  \/ Au("sorties", OutgoingNext, <<vars, windowVars, veilleVars, playlistsVars, commentsVars>>)
  \/ Au("playlists", PlaylistsNext, <<vars, windowVars, veilleVars, outgoingVars, commentsVars>>)
  \/ Au("commentaires", CommentsNext, <<vars, windowVars, veilleVars, outgoingVars, playlistsVars>>)

ServicesSpec ==
  /\ ServicesInit
  /\ [][ServicesNext]_<<partie, vars, windowVars, veilleVars, outgoingVars, playlistsVars, commentsVars>>

\* The mix s1 is posted by u1, and s2 by u2.
Posteurs == [s \in Sets |-> IF s = "s1" THEN "u1" ELSE "u2"]

\* What is interchangeable in each of them; the sets of two components that
\* have as many elements are the same set, which keeps the group small.
Symetrie == Permutations(Users) \cup Permutations(Jetons) \cup Permutations(Keys)
=============================================================================
