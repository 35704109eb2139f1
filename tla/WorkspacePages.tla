----------------------------- MODULE WorkspacePages -----------------------------
(***************************************************************************)
(* Pages of a workspace, put together: the workspace settings with their   *)
(* page, which this module extends, the skill page with its editor, and    *)
(* the query cache under all pages.  They share no state: each behaviour   *)
(* is one of one of them, named by component, while the others stay in an  *)
(* initial state.                                                          *)
(***************************************************************************)
EXTENDS WorkspaceSettings

CONSTANTS
    Paths, Blobs, Texts, Scaffold,              \* of SkillEditor
    FirstVersions, OtherVersion, Imported,
    NewText, NewBlob, AddedPath, Sanitized, Parsed,
    MaxVersions, MaxSaves, MaxChanges,
    Site, MaxFacts, MaxPending, Asked           \* of Console; MaxFacts bounds changed

VARIABLES component,
          version, published, cache, open, ed, save, pending, changes,
          query, visited, changed, entry, ops, promised

editor == <<version, published, cache, open, ed, save, pending, changes>>
console == <<query, visited, changed, entry, ops, promised>>

Editor == INSTANCE SkillEditor

Cache == INSTANCE Console WITH MaxChanges <- MaxFacts, page <- visited

AllInit ==
    /\ Init /\ Editor!Init /\ Cache!Init
    /\ component \in {"editor", "settings", "console"}

AllNext ==
    \/ component = "editor" /\ UNCHANGED <<component, vars, console>> /\ Editor!Next
    \/ component = "settings" /\ UNCHANGED <<component, editor, console>> /\ Next
    \/ component = "console" /\ UNCHANGED <<component, vars, editor>> /\ Cache!Next

AllSpec == AllInit /\ [][AllNext]_<<component, vars, editor, console>>

----------------------------------------------------------------------------

\* The variables of the three modules have their types.
AllTypeOK ==
    /\ component = "editor" => Editor!TypeOK
    /\ component = "settings" => TypeOK
    /\ component = "console" => Cache!TypeOK

\* An editor without unsaved changes shows what the page makes of the stored text, or what
\* was sanitized into it (SkillEditor).
CleanMeansStored == Editor!CleanMeansStored

\* A save posts what the editor showed when it was pressed, and that is what is stored,
\* its text sanitized (SkillEditor).
SavedAsSubmitted == Editor!SavedAsSubmitted

\* Once a save is reported, its version is among those the page has, unless their list
\* counts as out of date or is still on its way for the first time (SkillEditor).
SavedVersionIsListed == Editor!SavedVersionIsListed

\* A page shows every change that its user was told of, once no optimistic mutation is
\* pending (Console).
ReadYourWrites == Cache!ReadYourWrites

\* A page never goes back to an older state, but where mutations put results (Console).
MonotonicReads == Cache!MonotonicReads

=============================================================================
