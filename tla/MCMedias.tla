------------------------------- MODULE MCMedias -------------------------------
EXTENDS Medias, TLC

\* No word of the source, half a pair, a pair, a pair and its page, a page alone.
CorpsPossibles ==
  {SansSource, [SansSource EXCEPT !.type = TRUE],
   [SansSource EXCEPT !.type = TRUE, !.ref = TRUE],
   [type |-> TRUE, ref |-> TRUE, page |-> TRUE], [SansSource EXCEPT !.page = TRUE]}

\* The requests are interchangeable.
Symetrie == Permutations(Requetes)
===============================================================================
