--------------------- MODULE RetrievalRefinementProofs ---------------------
(***************************************************************************)
(* The fenced index implements RetrievalAbs: a rewrite is an abstract      *)
(* write, a removal a withdrawal, the commit of publish a publication, the *)
(* identity migration a relabelling; every other step is a stutter.        *)
(***************************************************************************)
EXTENDS RetrievalIndexProofs, RetrievalRefinement

Written == [s \in Sources |-> WrittenText(s)]
Shown == [s \in Sources |-> ShownText(s)]

\* A text is never taken for the absence of one.
LEMMA TextIsSomething ==
  ASSUME NEW v, NEW c, NEW p
  PROVE  /\ [version |-> v, content |-> c, profile |-> p] # Nothing
         /\ [version |-> v, profile |-> p, content |-> c]
            = [version |-> v, content |-> c, profile |-> p]
  <1>1. "content" \in DOMAIN [version |-> v, content |-> c, profile |-> p]
    OBVIOUS
  <1>2. "content" \notin DOMAIN Nothing
    BY DEF Nothing
  <1> QED
    BY <1>1, <1>2

\* The first state of the tables is that of the abstract specification.
LEMMA RefinesInit == Init => Abstract!Init
  <1> SUFFICES ASSUME Init PROVE Abstract!Init
    OBVIOUS
  <1>1. \A s \in Sources : source[s].heads = FALSE /\ source[s].published = 0
    BY DEF Init, NoRow
  <1>2. \A s \in Sources : WrittenText(s) = Nothing /\ ShownText(s) = Nothing
    BY <1>1 DEF WrittenText, ShownText
  <1> QED
    BY <1>2 DEF Abstract!Init

\* Quiet steps show and write nothing.
LEMMA QuietStutters ==
  ASSUME TypeOK, Quiet
  PROVE  Written' = Written /\ Shown' = Shown
  <1> SUFFICES ASSUME NEW s \in Sources
               PROVE  WrittenText(s)' = WrittenText(s) /\ ShownText(s)' = ShownText(s)
    BY DEF Written, Shown
  <1>1. SourceStays(s) /\ UNCHANGED <<head, generations, chunks>>
    BY DEF Quiet
  <1> QED
    BY <1>1 DEF SourceStays, WrittenText, ShownText

\* A rewrite replaces the written text and leaves the shown one.
LEMMA RewriteWrites ==
  ASSUME TypeOK, NEW s \in Sources, NEW v \in Versions, NEW c \in Contents, NEW f \in Flags,
         NEW p \in Targets, Rewrites(s, v, c, f, p)
  PROVE  /\ Written' = [Written EXCEPT ![s] = [version |-> v, content |-> c, profile |-> p]]
         /\ Shown' = Shown
  <1> DEFINE text == [version |-> v, content |-> c, profile |-> p]
             row == RewrittenRow(s, v, c, f, p)
             epoch == source[s].epoch + 1
  <1>0. source[s] \in SourceRow
    BY RowTypes
  <1>1. row.version = v /\ row.target = p /\ row.heads = TRUE /\ row.published = source[s].published
    <2>1. row = [source[s] EXCEPT !.eligible = f.eligible, !.shown = f.shown, !.expires = f.expires,
                                  !.epoch = epoch, !.version = v, !.content = c,
                                  !.target = p, !.heads = TRUE]
      BY DEF RewrittenRow
    <2> HIDE DEF epoch
    <2> QED
      BY <1>0, <2>1 DEF SourceRow
  <1>2. source'[s] = row /\ head'[s] = c
    BY DEF TypeOK, Rewrites
  <1> HIDE DEF row
  <1>3. \A t \in Sources : t # s => source'[t] = source[t] /\ head'[t] = head[t]
    BY DEF TypeOK, Rewrites
  <1>4. UNCHANGED <<generations, chunks>>
    BY DEF Rewrites
  <1>5. WrittenText(s)' = text /\ ShownText(s)' = ShownText(s)
    BY <1>1, <1>2, <1>4 DEF WrittenText, ShownText
  <1>6. \A t \in Sources : t # s => WrittenText(t)' = WrittenText(t) /\ ShownText(t)' = ShownText(t)
    BY <1>3, <1>4 DEF WrittenText, ShownText
  <1> HIDE DEF text
  <1>7. Written' = [Written EXCEPT ![s] = text] /\ Shown' = Shown
    BY <1>5, <1>6 DEF Written, Shown
  <1> QED
    BY <1>7 DEF text

\* A removal withdraws both at once.
LEMMA RemoveWithdraws ==
  ASSUME TypeOK, NEW s \in Sources, Remove(s)
  PROVE  /\ Written' = [Written EXCEPT ![s] = Nothing]
         /\ Shown' = [Shown EXCEPT ![s] = Nothing]
  <1> DEFINE epoch == source[s].epoch + 1
             row == [source[s] EXCEPT !.eligible = FALSE, !.shown = FALSE, !.epoch = epoch,
                                      !.published = 0, !.heads = FALSE]
  <1>0. source[s] \in SourceRow
    BY RowTypes
  <1>1. source'[s] = row
    BY DEF TypeOK, Remove
  <1> HIDE DEF epoch
  <1>2. row.heads = FALSE /\ row.published = 0
    BY <1>0 DEF SourceRow
  <1> HIDE DEF row
  <1>3. \A t \in Sources : t # s => /\ source'[t] = source[t] /\ head'[t] = head[t]
                                    /\ generations'[t] = generations[t] /\ chunks'[t] = chunks[t]
    BY DEF TypeOK, Remove
  <1>4. WrittenText(s)' = Nothing /\ ShownText(s)' = Nothing
    BY <1>1, <1>2 DEF WrittenText, ShownText, Nothing
  <1>5. \A t \in Sources : t # s => WrittenText(t)' = WrittenText(t) /\ ShownText(t)' = ShownText(t)
    BY <1>3 DEF WrittenText, ShownText
  <1> QED
    BY <1>4, <1>5 DEF Written, Shown

\* The commit of publish shows exactly the written text.
LEMMA CommitShows ==
  ASSUME TypeOK, IndexInv, NEW w \in Workers, Commits(w), NEW s \in Sources,
         s = worker[w].claim.source
  PROVE  /\ Written' = Written /\ WrittenText(s) # Nothing
         /\ Shown' = [Shown EXCEPT ![s] = WrittenText(s)]
  <1> DEFINE cl == worker[w].claim
             g == Len(generations[s]) + 1
             text == [version |-> cl.version, content |-> head[s], profile |-> cl.profile]
  <1>0. Published(w, s)
    BY CommitPublishes DEF IndexInv
  <1>1. /\ source[s].heads /\ source[s].version = cl.version /\ source[s].target = cl.profile
        /\ source'[s].heads = source[s].heads /\ source'[s].version = source[s].version
        /\ source'[s].target = source[s].target /\ head' = head
        /\ source'[s].published = g /\ g # 0
    BY <1>0, Zenon DEF Published
  <1>2. generations'[s][g] = [version |-> cl.version, profile |-> cl.profile]
    BY <1>0, Zenon DEF Published
  <1>3. /\ DOMAIN chunks'[s] = 1..Len(head[s])
        /\ \A i \in 1..Len(head[s]) :
             chunks'[s][i] = [text |-> head[s][i], vector |-> accepted[s][cl.epoch][i],
                              generation |-> g, profile |-> cl.profile]
    BY <1>0, Zenon DEF Published
  <1>4. \A t \in Sources : t # s =>
          source'[t] = source[t] /\ generations'[t] = generations[t] /\ chunks'[t] = chunks[t]
    BY <1>0, Zenon DEF Published
  <1> HIDE DEF g, cl
  <1>5. WrittenText(s) = text /\ WrittenText(s)' = text
    BY <1>1 DEF WrittenText
  <1>6. text # Nothing
    BY TextIsSomething
  <1>7. [i \in DOMAIN chunks'[s] |-> chunks'[s][i].text] = head[s]
    <2>1. head[s] = [i \in 1..Len(head[s]) |-> head[s][i]]
      BY RowTypes
    <2>2. ASSUME NEW i \in 1..Len(head[s]) PROVE chunks'[s][i].text = head[s][i]
      <3>1. chunks'[s][i] = [text |-> head[s][i], vector |-> accepted[s][cl.epoch][i],
                             generation |-> g, profile |-> cl.profile]
        BY <1>3
      <3> QED
        BY <3>1
    <2>3. [i \in DOMAIN chunks'[s] |-> chunks'[s][i].text] = [i \in 1..Len(head[s]) |-> head[s][i]]
      BY <1>3, <2>2
    <2> QED
      BY <2>1, <2>3
  <1>8. ShownText(s)' = text
    <2>1. /\ generations'[s][source'[s].published].version = cl.version
          /\ generations'[s][source'[s].published].profile = cl.profile
      BY <1>1, <1>2
    <2>2. ShownText(s)' = [version |-> cl.version, profile |-> cl.profile,
                           content |-> [i \in DOMAIN chunks'[s] |-> chunks'[s][i].text]]
      BY <1>1, <2>1 DEF ShownText
    <2> QED
      BY <1>7, <2>2, TextIsSomething
  <1>9. \A t \in Sources : t # s => WrittenText(t)' = WrittenText(t) /\ ShownText(t)' = ShownText(t)
    BY <1>1, <1>4 DEF WrittenText, ShownText
  <1> HIDE DEF text
  <1> QED
    BY <1>5, <1>6, <1>8, <1>9 DEF Written, Shown

\* What the abstract relabelling makes of a text.
LabelText(text, q, approved) ==
  IF text # Nothing /\ text.profile \in approved
  THEN [version |-> text.version, content |-> text.content, profile |-> q]
  ELSE text

\* Relabelling commutes with taking a text for something.
LEMMA LabelledText ==
  ASSUME NEW v, NEW c, NEW p, NEW q, NEW approved
  PROVE  LabelText([version |-> v, content |-> c, profile |-> p], q, approved)
         = [version |-> v, content |-> c, profile |-> Label(q, approved, p)]
  <1> DEFINE text == [version |-> v, content |-> c, profile |-> p]
  <1>1. text # Nothing
    BY TextIsSomething
  <1>2. text.version = v /\ text.content = c /\ text.profile = p
    OBVIOUS
  <1>3. text = [version |-> v, content |-> c, profile |-> p]
    OBVIOUS
  <1> HIDE DEF text
  <1>4. LabelText(text, q, approved)
        = [version |-> v, content |-> c, profile |-> Label(q, approved, p)]
    BY <1>1, <1>2, <1>3 DEF LabelText, Label
  <1> QED
    BY <1>4 DEF text

\* The identity migration relabels written and shown texts together.
LEMMA MigrationRelabelsTexts ==
  ASSUME TypeOK, IndexInv, NEW q \in Profiles, NEW approved \in SUBSET Profiles,
         MigrateModelIdentities(q, approved)
  PROVE  /\ Written' = [s \in Sources |-> LabelText(WrittenText(s), q, approved)]
         /\ Shown' = [s \in Sources |-> LabelText(ShownText(s), q, approved)]
  <1> SUFFICES ASSUME NEW s \in Sources
               PROVE  /\ WrittenText(s)' = LabelText(WrittenText(s), q, approved)
                      /\ ShownText(s)' = LabelText(ShownText(s), q, approved)
    BY DEF Written, Shown
  <1>1. Relabelled(s, q, approved) /\ head' = head
    BY MigrationRelabels
  <1>2. /\ source'[s].version = source[s].version
        /\ source'[s].target = Label(q, approved, source[s].target)
        /\ source'[s].heads = source[s].heads /\ source'[s].published = source[s].published
    BY <1>1 DEF Relabelled
  <1>3. LabelText(Nothing, q, approved) = Nothing
    BY DEF LabelText
  <1>4. WrittenText(s)' = LabelText(WrittenText(s), q, approved)
    <2>1. CASE source[s].heads
      <3>1. WrittenText(s) = [version |-> source[s].version, content |-> head[s],
                              profile |-> source[s].target]
        BY <2>1 DEF WrittenText
      <3>2. WrittenText(s)' = [version |-> source[s].version, content |-> head[s],
                               profile |-> Label(q, approved, source[s].target)]
        BY <1>1, <1>2, <2>1 DEF WrittenText
      <3> QED
        BY <3>1, <3>2, LabelledText
    <2>2. CASE ~source[s].heads
      BY <1>2, <1>3, <2>2 DEF WrittenText, Nothing
    <2> QED
      BY <2>1, <2>2
  <1>5. ShownText(s)' = LabelText(ShownText(s), q, approved)
    <2>1. CASE source[s].published # 0
      <3> DEFINE g == source[s].published
                 body == [i \in DOMAIN chunks[s] |-> chunks[s][i].text]
      <3>1. g \in 1..Len(generations[s])
        BY <2>1, RowTypes DEF IndexInv, SourceInv, WholePublication
      <3>2. generations'[s][g] = [version |-> generations[s][g].version,
                                  profile |-> Label(q, approved, generations[s][g].profile)]
        BY <1>1, <3>1 DEF Relabelled
      <3>3. [i \in DOMAIN chunks'[s] |-> chunks'[s][i].text] = body
        BY <1>1 DEF Relabelled
      <3>4. ShownText(s) = [version |-> generations[s][g].version, content |-> body,
                            profile |-> generations[s][g].profile]
        BY <2>1, TextIsSomething DEF ShownText
      <3>5. ShownText(s)' = [version |-> generations'[s][g].version,
                             profile |-> generations'[s][g].profile,
                             content |-> [i \in DOMAIN chunks'[s] |-> chunks'[s][i].text]]
        BY <1>2, <2>1 DEF ShownText
      <3>6. /\ generations'[s][g].version = generations[s][g].version
            /\ generations'[s][g].profile = Label(q, approved, generations[s][g].profile)
        BY <3>2
      <3>7. ShownText(s)' = [version |-> generations[s][g].version, content |-> body,
                             profile |-> Label(q, approved, generations[s][g].profile)]
        BY <3>3, <3>5, <3>6, TextIsSomething
      <3> QED
        BY <3>4, <3>7, LabelledText
    <2>2. CASE source[s].published = 0
      BY <1>2, <1>3, <2>2 DEF ShownText, Nothing
    <2> QED
      BY <2>1, <2>2
  <1> QED
    BY <1>4, <1>5

\* Every step of the tables is a step of the abstract specification, or none.
LEMMA RefinesNext ==
  ASSUME TypeOK, IndexInv, [Next]_vars
  PROVE  [Abstract!Next]_Abstract!vars
  <1>1. CASE Quiet
    BY <1>1, QuietStutters DEF Abstract!vars, Written, Shown
  <1>2. ASSUME NEW s \in Sources, NEW v \in Versions, NEW c \in Contents, NEW f \in Flags,
               NEW p \in Targets, Rewrites(s, v, c, f, p)
        PROVE  Abstract!Next
    <2> DEFINE text == [version |-> v, content |-> c, profile |-> p]
    <2>1. text \in Abstract!Text
      BY DEF Abstract!Text, Targets
    <2>2. Abstract!Write(s, text)
      BY <1>2, RewriteWrites DEF Abstract!Write, Written, Shown
    <2> HIDE DEF text
    <2> QED
      BY <2>1, <2>2 DEF Abstract!Next
  <1>3. ASSUME NEW s \in Sources, Remove(s) PROVE Abstract!Next
    <2>1. Abstract!Withdraw(s)
      BY <1>3, RemoveWithdraws DEF Abstract!Withdraw, Written, Shown
    <2> QED
      BY <2>1 DEF Abstract!Next
  <1>4. ASSUME NEW q \in Profiles, NEW approved \in SUBSET Profiles,
               MigrateModelIdentities(q, approved)
        PROVE  Abstract!Next
    <2>1. Abstract!Relabel(approved, q)
      BY <1>4, MigrationRelabelsTexts DEF Abstract!Relabel, Written, Shown, LabelText
    <2> QED
      BY <2>1 DEF Abstract!Next
  <1>5. ASSUME NEW w \in Workers, Commits(w) PROVE Abstract!Next
    <2>1. PICK s \in Sources : s = worker[w].claim.source
      BY <1>5, ClaimTypes DEF Commits
    <2>2. Abstract!Publish(s)
      BY <1>5, <2>1, CommitShows DEF Abstract!Publish, Written, Shown
    <2> QED
      BY <2>2 DEF Abstract!Next
  <1> QED
    BY <1>1, <1>2, <1>3, <1>4, <1>5, StepKinds

\* The tables, claims and fences of the index implement the promise made to the
\* application, in every interleaving of writers, workers and migrations.
THEOREM Refinement == Spec => ImplementsAbstract
  <1> QED
    BY RefinesInit, RefinesNext, IndexInvariant, PTL DEF Spec, ImplementsAbstract, Abstract!Spec
=============================================================================
