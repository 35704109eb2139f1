-------------------------- MODULE MCSkillVersions --------------------------
(* Instances of SkillVersions for TLC. *)
EXTENDS SkillVersions, TLC

CONSTANTS w1, w2, w3, plain, tagged, p1, p2, b1

ThreeRequests == {w1, w2, w3}
PlainAndTagged == {plain, tagged}
OnePath == {p1}
TwoPaths == {p1, p2}
OneBlob == {b1}

\* The tags are stripped.
OnlyPlain == {plain}
StripTags == [c \in PlainAndTagged |-> plain]
KeepPlain == [c \in OnlyPlain |-> plain]

\* Nothing orders the requests or the paths.
Symmetry == Permutations(ThreeRequests) \cup Permutations(TwoPaths)

=============================================================================
