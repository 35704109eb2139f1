------------------------------ MODULE MCSandbox ------------------------------
(* The instance of SandboxDialog for TLC. *)
EXTENDS SandboxDialog

CONSTANTS p1, p2, old, other, new, required, optional

\* Two files; another author's version changes one and removes the other.
TwoPaths == {p1, p2}
ThreeBlobs == {old, other, new}
NewBlob == {new}
OldTree == [p \in {p1, p2} |-> old]
OtherTree == {[p \in {p1, p2} |-> IF p = p1 THEN other ELSE None]}

\* A required field without default, whose example is the empty string, and an
\* optional one.
TwoFields == {required, optional}
OneRequired == {required}
OptionalDefault == [f \in TwoFields |-> IF f = optional THEN "good" ELSE "absent"]
EmptyExample == [f \in TwoFields |-> IF f = optional THEN "good" ELSE "empty"]

=============================================================================
