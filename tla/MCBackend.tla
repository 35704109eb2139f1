------------------------------ MODULE MCBackend ------------------------------
(* The instance of Backend for TLC. *)
EXTENDS Backend

CONSTANTS h1, h2, ta, tb, w1, w2, w3, content, path, blob

TwoHandlers == {h1, h2}
TwoTitles == {ta, tb}
Unforced == {FALSE}

\* Three writers of one skill, with or without one support file.
ThreeRequests == {w1, w2, w3}
OneContent == {content}
KeepContent == [c \in OneContent |-> c]
OnePath == {path}
OneBlob == {blob}

\* A draft, or a published version with an execution spec; a part that is not looked at
\* starts in one of its states.
MCInit ==
    /\ BackendInit
    /\ skill.title = ta /\ spec = IF newest = 0 THEN None ELSE newest
    /\ part = "versions" => newest = 0

MCSpec == MCInit /\ [][BackendNext]_<<part, vars, writers>> /\ BackendFairness

=============================================================================
