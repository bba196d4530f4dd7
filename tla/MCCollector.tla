---------------------------- MODULE MCCollector ----------------------------
(* Small instances of Collector for TLC. *)
EXTENDS Collector

CONSTANTS x, y, torn, blank, s1, s2

Native == [kind |-> "native"]
Named == [kind |-> "named-yolo", name |-> "work"]
Explicit == [kind |-> "explicit"]

OneKey == [f \in Files |-> s1]
OneOrigin == [s \in Sources |-> Native]
TwoOrigins == [s \in Sources |-> IF s = s1 THEN Named ELSE Explicit]

\* The second policy blanks a word of x.
BlankX == [c \in Contents |-> [p \in Policies |-> IF c = x /\ p = "q" THEN blank ELSE c]]

Open == [excludeDefaultProfile |-> FALSE, excludedYoloProfiles |-> {}]
NoDefault == [excludeDefaultProfile |-> TRUE, excludedYoloProfiles |-> {}]
NoWork == [excludeDefaultProfile |-> FALSE, excludedYoloProfiles |-> {"work"}]
AllOpen == {Open}
SomeHeld == {Open, NoDefault, NoWork}
=============================================================================
