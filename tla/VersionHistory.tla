--------------------------- MODULE VersionHistory ---------------------------
(***************************************************************************)
(* What the version endpoints of a skill promise                           *)
(* (src/backend/apps/skills/api.py, create_version, import_skill and       *)
(* revert_version): the history only grows, a version is its content and   *)
(* its complete tree of support files, and reverting to an earlier version *)
(* appends a copy of it.                                                   *)
(***************************************************************************)
EXTENDS Naturals, Sequences

CONSTANTS Contents, Trees

VARIABLE history

\* from is the number of the version a revert copied, 0 for a new version.
Entry == [content : Contents, tree : Trees, from : Nat]

Init == history = << >>

Write(content, tree) ==
    history' = Append(history, [content |-> content, tree |-> tree, from |-> 0])

Revert(n) ==
    history' = Append(history, [history[n] EXCEPT !.from = n])

Next ==
    \/ \E content \in Contents, tree \in Trees : Write(content, tree)
    \/ \E n \in 1 .. Len(history) - 1 : Revert(n)

Spec == Init /\ [][Next]_history

=============================================================================
