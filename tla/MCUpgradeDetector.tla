-------------------------- MODULE MCUpgradeDetector --------------------------
(* Instances of UpgradeDetector for TLC: release configurations. *)
EXTENDS UpgradeDetector

\* Three releases: one leaves every upgrade to the vote, the others fix version 2's height.
VotedThenFixed == {[v \in Versions |-> IF v = 2 THEN h ELSE 99] : h \in {4, 10, 99}}
=============================================================================
