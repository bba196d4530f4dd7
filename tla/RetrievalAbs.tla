---------------------------- MODULE RetrievalAbs ----------------------------
(***************************************************************************)
(* What the index promises an application: semantic search sees, per       *)
(* source, either nothing or exactly one text that was at some moment the  *)
(* current one, whole and under its own version and profile.  A rewrite    *)
(* leaves the old publication in place until the new text replaces it in   *)
(* one step; a removal withdraws it at once.                               *)
(***************************************************************************)
CONSTANTS
  Sources,    \* ids of the sources
  Versions,   \* versions the application writes
  Contents,   \* chunk lists
  Profiles,   \* retrieval profiles
  NoProfile,  \* written by a deployment without a model
  Nothing     \* no text

VARIABLES
  written,    \* the current text of a source
  shown       \* the text that semantic search sees

vars == <<written, shown>>

Text == [version: Versions, content: Contents, profile: Profiles \cup {NoProfile}]

Init == /\ written = [s \in Sources |-> Nothing]
        /\ shown = [s \in Sources |-> Nothing]

Write(s, text) ==
  /\ written' = [written EXCEPT ![s] = text]
  /\ UNCHANGED shown

Withdraw(s) ==
  /\ written' = [written EXCEPT ![s] = Nothing]
  /\ shown' = [shown EXCEPT ![s] = Nothing]

Publish(s) ==
  /\ written[s] # Nothing
  /\ shown' = [shown EXCEPT ![s] = written[s]]
  /\ UNCHANGED written

Relabel(old, new) ==
  LET label(text) ==
        IF text # Nothing /\ text.profile \in old
        THEN [version |-> text.version, content |-> text.content, profile |-> new]
        ELSE text
  IN /\ written' = [s \in Sources |-> label(written[s])]
     /\ shown' = [s \in Sources |-> label(shown[s])]

Next ==
  \/ \E s \in Sources, text \in Text : Write(s, text)
  \/ \E s \in Sources : Withdraw(s) \/ Publish(s)
  \/ \E old \in SUBSET Profiles, new \in Profiles : Relabel(old, new)

Spec == Init /\ [][Next]_vars
=============================================================================
