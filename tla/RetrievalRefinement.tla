------------------------- MODULE RetrievalRefinement -------------------------
(* The tables of Retrieval seen as the two texts of RetrievalAbs. *)
EXTENDS Retrieval

Nothing == [version |-> NoVersion]

\* The head of a source, while head_generation is set.
WrittenText(s) ==
  IF source[s].heads
  THEN [version |-> source[s].version, content |-> head[s], profile |-> source[s].target]
  ELSE Nothing

\* The published generation with the bodies of the rows search reads.
ShownText(s) ==
  IF source[s].published # 0
  THEN LET g == generations[s][source[s].published] IN
       [version |-> g.version, profile |-> g.profile,
        content |-> [i \in DOMAIN chunks[s] |-> chunks[s][i].text]]
  ELSE Nothing

Abstract == INSTANCE RetrievalAbs WITH
  written <- [s \in Sources |-> WrittenText(s)],
  shown <- [s \in Sources |-> ShownText(s)]

\* The tables implement the promise of RetrievalAbs: search sees a current text
\* whole, replaced in one step, withdrawn at once by a removal.
ImplementsAbstract == Abstract!Spec
=============================================================================
