----------------------------- MODULE SkillMiniIde -----------------------------
(***************************************************************************)
(* The Mini IDE of the sandbox debugger: the support files of the version  *)
(* that the execution spec names are edited by hand or by the AI assist    *)
(* (AiEditPanel), saved as a new draft version, and run again ("Save &     *)
(* rerun").                                                                *)
(*                                                                         *)
(* As in ExecutionDebugger, a handler keeps the props and state of its     *)
(* render across its awaits.  The server keeps its promises (SkillVersions *)
(* shows how): a version never changes once it is saved.                   *)
(***************************************************************************)
EXTENDS Naturals, Sequences, FiniteSets

CONSTANTS
    Paths,       \* the support files of the skill
    Blobs,       \* what a file may contain
    None,        \* nothing
    Written,     \* what the user and the AI assist write
    FirstTree,   \* the files of the first version
    OtherTrees,  \* the files of other authors' versions
    MaxVersions  \* bound on the versions of the skill

Trees == [Paths -> Blobs \cup {None}]
NoFiles == [p \in Paths |-> None]
FilesOf(tree) == {p \in Paths : tree[p] # None}

VARIABLES
    version,    \* server: the trees of the versions, by number
    published,  \* server: the number of skill.current_version
    spec,       \* server: the number of the version that the execution spec names
    seen,       \* the query cache: the spec, and the newest version with a file list
    open,       \* the dialog is open
    ide,        \* the selected file and editedContent
    save,       \* performSave
    rerun,      \* the run that "Save & rerun" starts
    ai          \* the AI stream and its draft

server == <<version, published, spec>>
vars == <<version, published, spec, seen, open, ide, save, rerun, ai>>

Numbers == 0 .. MaxVersions


\* todo are the files that buildFilesPayload has not read yet, number is the answer.
Save == [pc : {"idle", "loading", "posting", "saved"}, base : Numbers,
         edits : Trees, todo : SUBSET Paths, tree : Trees, rerun : BOOLEAN,
         mounted : BOOLEAN, number : Numbers]
NoSave == [pc |-> "idle", base |-> 0, edits |-> NoFiles, todo |-> {},
           tree |-> NoFiles, rerun |-> FALSE, mounted |-> FALSE, number |-> 0]

\* fix is the version that was saved, ran the version that was run.
Rerun == [fix : Numbers, ran : Numbers]
NoRerun == [fix |-> 0, ran |-> 0]

FreshIde == [path |-> None, edits |-> NoFiles]
FreshAi == [streaming |-> FALSE, path |-> None, draft |-> None]

\* The version in the IDE, and whether its file list is loaded.  The IDE never goes
\* back to an earlier version: the spec's number only grows.
IdeBase == seen.spec
Listed == IdeBase # 0 /\ seen.files = IdeBase
IdeFiles == IF Listed THEN FilesOf(version[IdeBase]) ELSE {}

Dirty == ide.edits # NoFiles

TypeOK ==
    /\ version \in Seq(Trees) /\ Len(version) \in 1 .. MaxVersions
    /\ published \in 1 .. Len(version)
    /\ spec \in Numbers
    /\ seen \in [spec : Numbers, files : Numbers]
    /\ open \in BOOLEAN
    /\ ide \in [path : Paths \cup {None}, edits : Trees]
    /\ save \in Save
    /\ rerun \in Rerun
    /\ ai \in [streaming : BOOLEAN, path : Paths \cup {None}, draft : Blobs \cup {None}]

\* A published version; its spec may have been saved before it was published.
Init ==
    /\ version = << FirstTree >>
    /\ published = 1
    /\ spec \in {0, 1}
    /\ seen = [spec |-> 0, files |-> 0]
    /\ open = FALSE
    /\ ide = FreshIde
    /\ save = NoSave
    /\ rerun = NoRerun
    /\ ai = FreshAi

----------------------------------------------------------------------------
(* The server and the other authors *)

\* create_version numbers a version after the newest one, whatever it was based on.
Insert(tree) == Len(version) < MaxVersions /\ version' = Append(version, tree)

\* Another author's version, of other files.
OthersSave(tree) ==
    /\ Insert(tree)
    /\ UNCHANGED <<published, spec, seen, open, ide, save, rerun, ai>>

\* publish_skill: the newest version, and the spec's version, too.
PublishVersion ==
    /\ published < Len(version)
    /\ published' = Len(version)
    /\ spec' = Len(version)
    /\ UNCHANGED <<version, seen, open, ide, save, rerun, ai>>

----------------------------------------------------------------------------
(* Queries *)

\* useSkillExecutionSpec has no interval: it is fetched when the page is mounted
\* and when a mutation of this tab invalidates it.
RefreshSpec ==
    /\ seen' = [seen EXCEPT !.spec = spec]
    /\ UNCHANGED <<server, open, ide, save, rerun, ai>>

\* The file list of the version in the IDE; one of the files is selected.
LoadFiles ==
    /\ open /\ IdeBase # 0 /\ ~Listed
    /\ seen' = [seen EXCEPT !.files = IdeBase]
    /\ LET files == FilesOf(version[IdeBase])
       IN  IF ide.path = None /\ files # {}
           THEN \E p \in files : ide' = [ide EXCEPT !.path = p]
           ELSE UNCHANGED ide
    /\ UNCHANGED <<server, open, save, rerun, ai>>

\* The dialog opens with what the cache has.
Open ==
    /\ ~open
    /\ open' = TRUE
    /\ IF IdeFiles # {} THEN \E p \in IdeFiles : ide' = [ide EXCEPT !.path = p]
       ELSE UNCHANGED ide
    /\ UNCHANGED <<server, seen, save, rerun, ai>>

\* Closing unmounts the IDE and its unsaved edits (the user is asked); a save on
\* its way goes on.
Close ==
    /\ open
    /\ open' = FALSE
    /\ ide' = FreshIde
    /\ ai' = FreshAi
    /\ save' = [save EXCEPT !.mounted = FALSE]
    /\ UNCHANGED <<server, seen, rerun>>

\* Enabling or disabling the execution: the server saves the spec for the
\* published version.
HandleToggleExecution ==
    /\ spec' = published
    /\ seen' = [seen EXCEPT !.spec = spec']
    /\ UNCHANGED <<version, published, open, ide, save, rerun, ai>>

----------------------------------------------------------------------------
(* Editing *)

SelectFile(p) ==
    /\ open /\ p \in IdeFiles \ {ide.path}
    /\ ide' = [ide EXCEPT !.path = p]
    /\ UNCHANGED <<server, seen, open, save, rerun, ai>>

\* The editor is read-only while the AI streams, but not while a save is on its
\* way.
HandleEdit(b) ==
    /\ open /\ ide.path \in IdeFiles /\ ~ai.streaming
    /\ ide' = [ide EXCEPT !.edits[ide.path] = b]
    /\ UNCHANGED <<server, seen, open, save, rerun, ai>>

HandleResetFile ==
    /\ open /\ ide.path # None /\ ide.edits[ide.path] # None /\ save.pc = "idle"
    /\ ide' = [ide EXCEPT !.edits[ide.path] = None]
    /\ UNCHANGED <<server, seen, open, save, rerun, ai>>

----------------------------------------------------------------------------
(* Saving *)

\* performSave captures the edits and the version they are for.  While the list
\* of that version's files is loading, the list of files to send is empty.
PerformSave(thenRerun) ==
    /\ open /\ IdeBase # 0 /\ Dirty /\ save.pc = "idle"
    /\ save' = [pc |-> "loading", base |-> IdeBase, edits |-> ide.edits,
                todo |-> IdeFiles, tree |-> NoFiles, rerun |-> thenRerun,
                mounted |-> TRUE, number |-> 0]
    /\ UNCHANGED <<server, seen, open, ide, rerun, ai>>

\* Variant: the files are read from the version that is in the IDE by then.
LoadFileOfIde(p) ==
    /\ save.pc = "loading" /\ p \in save.todo
    /\ save' = [save EXCEPT !.todo = @ \ {p},
                            !.tree[p] = IF save.edits[p] # None THEN save.edits[p]
                                        ELSE version[IdeBase][p]]
    /\ UNCHANGED <<server, seen, open, ide, rerun, ai>>

\* buildFilesPayload reads one file after the other.
LoadFile(p) ==
    /\ save.pc = "loading" /\ p \in save.todo
    /\ save' = [save EXCEPT !.todo = @ \ {p},
                            !.tree[p] = IF save.edits[p] # None THEN save.edits[p]
                                        ELSE version[save.base][p]]
    /\ UNCHANGED <<server, seen, open, ide, rerun, ai>>

PostVersion ==
    /\ save.pc = "loading" /\ save.todo = {}
    /\ save' = [save EXCEPT !.pc = "posting"]
    /\ UNCHANGED <<server, seen, open, ide, rerun, ai>>

ServerSaves ==
    /\ save.pc = "posting"
    /\ Insert(save.tree)
    /\ save' = [save EXCEPT !.pc = "saved", !.number = Len(version')]
    /\ UNCHANGED <<published, spec, seen, open, ide, rerun, ai>>

\* A file that cannot be read, no changes, any other refusal.
SaveFails ==
    /\ save.pc \in {"loading", "posting"}
    /\ save' = NoSave
    /\ UNCHANGED <<server, seen, open, ide, rerun, ai>>

\* All edits are forgotten, those made since the press, too; "Save & rerun" sets
\* a timer of 400 ms.
SaveReturns ==
    /\ save.pc = "saved"
    /\ save' = NoSave
    /\ ide' = IF save.mounted THEN [ide EXCEPT !.edits = NoFiles] ELSE ide
    /\ rerun' = IF save.rerun
                THEN [fix |-> save.number, ran |-> 0]
                ELSE rerun
    /\ UNCHANGED <<server, seen, open, ai>>

\* The timer calls handleExecute of the render in which the save was pressed, and
\* execute_skill runs the published version: unless the execution is disabled,
\* the inputs are invalid or, when the dialog was closed, gone, or it refuses.
RunsAgain ==
    /\ rerun.fix # 0 /\ rerun.ran = 0
    /\ \/ open /\ rerun' = [rerun EXCEPT !.ran = published]
       \/ rerun' = NoRerun
    /\ UNCHANGED <<server, seen, open, ide, save, ai>>

----------------------------------------------------------------------------
(* AI assist *)

\* startStream keeps the callbacks of its render: the draft is for this file.
StartStream ==
    /\ open /\ IdeBase # 0 /\ ide.path # None /\ ~ai.streaming
    /\ ai' = [streaming |-> TRUE, path |-> ide.path, draft |-> None]
    /\ UNCHANGED <<server, seen, open, ide, save, rerun>>

\* onStreamComplete puts the draft into editedContent; the panel keeps it as well.
StreamEnds(draft) ==
    /\ ai.streaming
    /\ ide' = [ide EXCEPT !.edits[ai.path] = draft]
    /\ ai' = [FreshAi EXCEPT !.draft = draft]
    /\ UNCHANGED <<server, seen, open, save, rerun>>

\* Stopped, failed or empty; a part of the draft may be there.
StreamStops(draft) ==
    /\ ai.streaming
    /\ ai' = [FreshAi EXCEPT !.draft = draft]
    /\ UNCHANGED <<server, seen, open, ide, save, rerun>>

\* "Keep" calls the callback of this render: the draft goes to the file that is
\* selected now.
HandleAccept ==
    /\ ~ai.streaming /\ ai.draft # None /\ ide.path # None
    /\ ide' = [ide EXCEPT !.edits[ide.path] = ai.draft]
    /\ ai' = FreshAi
    /\ UNCHANGED <<server, seen, open, save, rerun>>

\* "Discard" forgets the draft; what StreamEnds put into the file stays.
HandleReject ==
    /\ ~ai.streaming /\ ai.draft # None
    /\ ai' = FreshAi
    /\ UNCHANGED <<server, seen, open, ide, save, rerun>>

----------------------------------------------------------------------------

Next ==
    \/ \E tree \in OtherTrees : OthersSave(tree)
    \/ PublishVersion \/ RefreshSpec \/ LoadFiles
    \/ Open \/ Close \/ HandleToggleExecution
    \/ HandleResetFile \/ PostVersion \/ ServerSaves \/ SaveFails \/ SaveReturns
    \/ RunsAgain \/ StartStream \/ HandleAccept \/ HandleReject
    \/ \E p \in Paths : SelectFile(p) \/ LoadFile(p)
    \/ \E b \in Written : HandleEdit(b) \/ StreamEnds(b)
    \/ \E b \in Written \cup {None} : StreamStops(b)
    \/ \E thenRerun \in BOOLEAN : PerformSave(thenRerun)

Spec == Init /\ [][Next]_vars

----------------------------------------------------------------------------
(* Properties *)

\* The files that the IDE posts are, path by path, the edit of the press or else the file
\* of the one version that was in the IDE, however the spec, the newest version
\* and the edits changed while they were read; or there is none at all.
NoMixedTrees ==
    save.pc \in {"posting", "saved"} =>
        LET base == version[save.base]
        IN  save.tree \in {NoFiles,
                           [p \in Paths |-> IF base[p] # None /\ save.edits[p] # None
                                            THEN save.edits[p] ELSE base[p]]}

\* ExecutionDebugger.tsx:344 says of the drafts of the IDE: "Use Save & rerun to test
\* fixes immediately. Publish from the skill page when ready."
RerunTestsTheFix == rerun.ran # 0 => rerun.ran = rerun.fix

=============================================================================
