------------------------------ MODULE SkillEditor ------------------------------
(***************************************************************************)
(* The skill page with its editor (SkillViewPage): the text of the newest  *)
(* version and its support files are edited and saved as a new version.    *)
(*                                                                         *)
(* The page shows what the query cache has.  After every step its effects  *)
(* run (Settled): they put the version that is to be shown into the editor *)
(* whenever another one is to be shown.  A handler keeps the state of its  *)
(* render across its awaits, so that a save posts what was in the editor   *)
(* when it was pressed; and nothing keeps Ctrl+S from starting another one *)
(* meanwhile.                                                              *)
(*                                                                         *)
(* text stands for instructions, frontmatter and Koinoflow metadata, which *)
(* the code treats alike; the change summary is left out.  Two conversions *)
(* are between the editor and the stored text: the server stores what      *)
(* sanitize_content_md and sanitize_frontmatter leave of it, and the page  *)
(* shows what parseFrontmatter, serializeFrontmatter and                   *)
(* normalizeKoinoflowMetadata make of that.  The description of the skill, *)
(* which fills in for one that the frontmatter lacks, is taken as fixed.   *)
(***************************************************************************)
EXTENDS Naturals, Sequences, FiniteSets

CONSTANTS
    Paths, Blobs,       \* support files and what they may contain
    Texts, Scaffold,    \* what SKILL.md may contain; its scaffold
    None,               \* nothing
    FirstVersions,      \* the contents that the first version may have
    OtherVersion,       \* what another author saves
    Imported,           \* what is imported from a .skill file
    NewText, NewBlob,   \* what the user writes
    AddedPath,          \* the file the user adds
    Sanitized, Parsed,  \* what the server stores of a text; what the page makes of that
    MaxVersions,        \* bound on the versions of the skill
    MaxSaves,           \* bound on the saves at a time
    MaxChanges          \* bound on the changes the user makes in the editor

Files == [Paths -> Blobs \cup {None}]
NoFiles == [p \in Paths |-> None]
PathsOf(files) == {p \in Paths : files[p] # None}

Contents == [text : Texts, files : Files]
Numbers == 0 .. MaxVersions
Saves == 1 .. MaxSaves

VARIABLES
    version,    \* server: the contents of the versions, by number
    published,  \* server: the number of skill.current_version, or 0
    cache,      \* the query cache, see Cache
    open,       \* the page is shown
    ed,         \* the editor, see Editor
    save,       \* the calls of handleSave
    pending,    \* the saves whose mutations the buttons show as pending, 0 for none
    changes     \* bound: the changes the user makes

server == <<version, published>>
saves == <<save, pending>>
vars == <<version, published, cache, open, ed, save, pending, changes>>

\* current is the number of the published version (0 is none), list the query of the
\* versions: the number of the newest one (None: not fetched yet), whether that was
\* invalidated when it lacked a version, and what the server answered to a fetch under way.
\* loaded is the newest version whose contents were fetched.
List == [data : Numbers \cup {None}, stale : BOOLEAN, fetch : Numbers \cup {None}]
Cache == [current : Numbers, list : List, loaded : Numbers]

NoCache == [current |-> 0, loaded |-> 0,
            list |-> [data |-> None, stale |-> FALSE, fetch |-> None]]

\* initialized is the number of the version whose text was put into the editor,
\* display the one whose files were; paths are the files of the editor, local those
\* of them that the user added, and edits their contents where the editor has them.
Editor == [editing : BOOLEAN, text : Texts \cup {None}, snapshot : Texts \cup {None},
           initialized : Numbers \cup {None}, display : Numbers,
           paths : SUBSET Paths, local : SUBSET Paths, edits : Files,
           modified : BOOLEAN, selected : Paths \cup {None}]

BlankEditor == [editing |-> FALSE, text |-> None, snapshot |-> None,
                initialized |-> None, display |-> 0, paths |-> {}, local |-> {},
                edits |-> NoFiles, modified |-> FALSE, selected |-> None]

\* What handleSave keeps of the render in which it was pressed (meant is what the
\* editor showed: the property SavedAsSubmitted compares it), the files it has
\* read and those it has not read yet, and the number of the version it saved.
\* joined says that the answer found the first fetch of the list under way, which
\* invalidating does not renew.
Save == [pc : {"idle", "renaming", "loading", "posting", "answered", "refetching"},
         text : Texts \cup {None}, modified : BOOLEAN, view : Numbers, meant : Files,
         tree : Files, todo : SUBSET Paths, exit : BOOLEAN, number : Numbers,
         joined : BOOLEAN]

NoSave == [pc |-> "idle", text |-> None, modified |-> FALSE, view |-> 0,
           meant |-> NoFiles, tree |-> NoFiles, todo |-> {}, exit |-> FALSE,
           number |-> 0, joined |-> FALSE]

TypeOK ==
    /\ version \in Seq(Contents) /\ Len(version) <= MaxVersions
    /\ published \in 0 .. Len(version)
    /\ cache \in Cache
    /\ open \in BOOLEAN
    /\ ed \in Editor /\ ed.local \subseteq ed.paths
    /\ save \in [Saves -> Save]
    /\ pending \in [rename : {0} \cup Saves, post : {0} \cup Saves]
    /\ changes \in 0 .. MaxChanges

----------------------------------------------------------------------------
(* What the page shows *)

Latest(c) == IF c.list.data = None THEN 0 ELSE c.list.data

NeedsLatestDraft(c) == Latest(c) # 0 /\ Latest(c) # c.current

\* latestVersionQuery has data for the newest version only, and only while that is
\* not the published one.
LatestLoaded(c) == NeedsLatestDraft(c) /\ c.loaded = Latest(c)

\* The version whose text is edited, and the one whose files are; 0 is none.
InitialVersion(c) == IF LatestLoaded(c) THEN Latest(c) ELSE c.current
DisplayVersion(c) == IF Latest(c) > c.current THEN InitialVersion(c) ELSE c.current

\* The text of the version to be shown, once.
Initialize(c, e) ==
    LET n == InitialVersion(c)
        put(text, number) == [e EXCEPT !.text = text, !.snapshot = text,
                                       !.initialized = number]
    IN  CASE n # 0 /\ e.initialized # n -> put(Parsed[version[n].text], n)
          [] n = 0 /\ c.list.data = 0 /\ e.initialized # 0 -> put(Scaffold, 0)
          [] OTHER -> e

\* resetFileEditorState
ResetFiles(e, files) ==
    [e EXCEPT !.paths = PathsOf(files), !.local = {}, !.edits = NoFiles,
              !.modified = FALSE, !.selected = None]

ShowFiles(c, e) ==
    LET n == DisplayVersion(c)
        moved == [e EXCEPT !.display = n]
    IN  CASE n = e.display -> e
          [] n = 0 -> moved
          [] OTHER -> ResetFiles(moved, version[n].files)

OnServer(e) == e.display # 0 /\ e.selected \notin e.local \cup {None}
               /\ version[e.display].files[e.selected] # None

\* The stored file goes into the editor whenever it is selected or editing begins,
\* over what was typed there before.
PutFetched(e) ==
    IF e.editing /\ OnServer(e)
    THEN [e EXCEPT !.edits[e.selected] = version[e.display].files[e.selected]]
    ELSE e

\* The effects of the page, after a step of the cache c and the editor e.
Settled(c, e) == ShowFiles(c, Initialize(c, e))

HasUnsavedChanges ==
    ed.snapshot # None /\ (ed.text # ed.snapshot \/ ed.modified)

\* A step that changes the cache only, or the editor only.
CacheStep(c) == cache' = c /\ ed' = IF open THEN Settled(c, ed) ELSE ed
EditorStep(e) ==
    /\ open
    /\ ed' = Settled(cache, e)
    /\ UNCHANGED <<server, cache, open, saves>>

\* A change that the user makes in the editor.
ChangeStep(e) ==
    /\ ed.editing
    /\ changes < MaxChanges /\ changes' = changes + 1
    /\ EditorStep(e)

\* The page is opened on a skill without versions, a draft or a published skill.
Init ==
    /\ version \in {<< >>} \cup {<< content >> : content \in FirstVersions}
    /\ published \in 0 .. Len(version)
    /\ cache = [NoCache EXCEPT !.current = published]
    /\ open = TRUE
    /\ ed = IF published = 0 THEN BlankEditor
            ELSE LET shown == version[1]
                 IN  [BlankEditor EXCEPT
                        !.text = Parsed[shown.text], !.snapshot = Parsed[shown.text],
                        !.initialized = 1, !.display = 1, !.paths = PathsOf(shown.files)]
    /\ save = [k \in Saves |-> NoSave]
    /\ pending = [rename |-> 0, post |-> 0]
    /\ changes \in 0 .. MaxChanges

----------------------------------------------------------------------------
(* The server and the other authors *)

Insert(content) ==
    /\ Len(version) < MaxVersions
    /\ version' = Append(version, content)

OthersSave ==
    /\ Insert(OtherVersion)
    /\ UNCHANGED <<published, cache, open, ed, saves, changes>>

\* publish_skill publishes the newest version, whichever the page showed.
OthersPublish ==
    /\ published < Len(version)
    /\ published' = Len(version)
    /\ UNCHANGED <<version, cache, open, ed, saves, changes>>

----------------------------------------------------------------------------
(* Queries *)

Keep(c) ==
    /\ open
    /\ CacheStep(c)
    /\ UNCHANGED <<server, open, saves, changes>>

\* useSkill: refetched every four seconds while the embedding is pending, and when it is
\* invalidated.  One step, as only this query reads which version is published, and
\* what invalidates it drops the fetch under way.
RefetchSkill == Keep([cache EXCEPT !.current = published])

\* useVersions: a fetch is answered.  It may fail instead; and it may be asked for at any
\* time, so that one that was not answered need not be told from none.  An answer that
\* would make no difference is left out.
VersionsRead ==
    /\ cache.list.fetch = None
    /\ cache.list.data # Len(version)
    /\ Keep([cache EXCEPT !.list.fetch = Len(version)])

VersionsArrive ==
    /\ cache.list.fetch # None
    /\ Keep([cache EXCEPT !.list = [data |-> @.fetch, stale |-> FALSE, fetch |-> None]])

VersionsFail ==
    /\ cache.list.fetch # None
    /\ Keep([cache EXCEPT !.list.fetch = None])

\* invalidateQueries: the answer on its way is dropped, unless it is that of the first
\* fetch.
InvalidateVersions ==
    cache' = IF open
             THEN [cache EXCEPT !.list.stale = cache.list.data # Len(version),
                                !.list.fetch = IF cache.list.data = None THEN @ ELSE None]
             ELSE cache

\* useVersion of the newest version
LoadLatest ==
    /\ NeedsLatestDraft(cache) /\ ~LatestLoaded(cache)
    /\ Keep([cache EXCEPT !.loaded = Latest(cache)])

----------------------------------------------------------------------------
(* Editing *)

HandleEnterEdit ==
    /\ ~ed.editing
    /\ EditorStep(PutFetched([ed EXCEPT !.editing = TRUE]))
    /\ UNCHANGED changes

\* Escape keeps what was typed, although it asks "Discard unsaved changes?".
PressEscape ==
    /\ ed.editing
    /\ EditorStep([ed EXCEPT !.editing = FALSE])
    /\ UNCHANGED changes

\* The text and the files of the version on display are restored.
HandleCancelEdit ==
    /\ ed.editing
    /\ LET n == InitialVersion(cache)
           d == DisplayVersion(cache)
           text == IF n = 0 THEN Scaffold ELSE Parsed[version[n].text]
       IN  EditorStep([ResetFiles(ed, IF d = 0 THEN NoFiles ELSE version[d].files)
                          EXCEPT !.text = text, !.editing = FALSE])
    /\ UNCHANGED changes

EditText ==
    /\ ed.text # None
    /\ ChangeStep([ed EXCEPT !.text = NewText])

\* useVersionFile fetches it: one that the server does not have cannot be edited.
SelectFile(p) ==
    /\ p \in ed.paths \ {ed.selected}
    /\ EditorStep(PutFetched([ed EXCEPT !.selected = p]))
    /\ UNCHANGED changes

\* A file that is on screen: a stored one, or one that was added.
EditFile ==
    /\ ed.selected \in ed.local \/ OnServer(ed)
    /\ ChangeStep([ed EXCEPT !.edits[ed.selected] = NewBlob, !.modified = TRUE])

\* An added file is empty, not on the server and selected; nothing checks its name.
OnFileAdd ==
    ChangeStep([ed EXCEPT !.paths = @ \cup {AddedPath}, !.local = @ \cup {AddedPath},
                          !.edits[AddedPath] = NewBlob, !.selected = AddedPath,
                          !.modified = TRUE])

\* Variant: the file stays marked as added.
OnFileDeleteKeepsMark(p) ==
    /\ p \in ed.paths
    /\ ChangeStep([ed EXCEPT !.paths = @ \ {p}, !.edits[p] = None,
                             !.selected = IF @ = p THEN None ELSE @, !.modified = TRUE])

OnFileDelete(p) ==
    /\ p \in ed.paths
    /\ ChangeStep([ed EXCEPT !.paths = @ \ {p}, !.local = @ \ {p}, !.edits[p] = None,
                             !.selected = IF @ = p THEN None ELSE @, !.modified = TRUE])

\* useSkillImport: the files are replaced if the archive has some.  They count as
\* files of the server, so that selecting one may fetch it.
HandleImport ==
    /\ LET e == [ed EXCEPT !.text = Imported.text]
       IN  ChangeStep(IF Imported.files = NoFiles THEN e
                      ELSE [e EXCEPT !.paths = PathsOf(Imported.files), !.local = {},
                                     !.edits = Imported.files, !.modified = TRUE])

----------------------------------------------------------------------------
(* Saving *)

Posting == {"posting", "answered", "refetching"}

\* A save goes on.  The buttons follow the latest call of each mutation.
Becomes(k, s) ==
    /\ save' = [save EXCEPT ![k] = s]
    /\ pending' = [rename |-> IF s.pc = "renaming" THEN k
                              ELSE IF pending.rename = k THEN 0 ELSE pending.rename,
                   post |-> IF s.pc = "posting" THEN k
                            ELSE IF pending.post = k /\ s.pc \notin Posting THEN 0
                            ELSE pending.post]

\* The files are read one after the other, then the request is sent.
Read(s) == [s EXCEPT !.pc = IF s.todo = {} THEN "posting" ELSE "loading"]

\* Which record a save takes does not matter.
Free(k) == \A j \in Saves : j < k => save[j].pc # "idle"

\* Ctrl+S, or "Save & exit" while no mutation is pending ("Save" is like Ctrl+S then).
\* Files without contents in the editor are to be read from the version on display.
\* Title and description are saved first if the frontmatter has others.
HandleSave(k, renames, exits) ==
    /\ open /\ ed.editing /\ HasUnsavedChanges /\ save[k].pc = "idle" /\ Free(k)
    /\ exits => pending.rename = 0 /\ pending.post = 0
    /\ LET view == DisplayVersion(cache)
           here == [p \in Paths |-> IF p \in ed.paths THEN ed.edits[p] ELSE None]
           todo == IF view = 0 \/ ~ed.modified THEN {} ELSE ed.paths \ PathsOf(here)
           s == [NoSave EXCEPT
                   !.pc = "renaming", !.text = ed.text, !.modified = ed.modified,
                   !.view = view, !.tree = here, !.todo = todo, !.exit = exits,
                   !.meant = [p \in Paths |-> IF p \in todo THEN version[view].files[p]
                                              ELSE here[p]]]
       IN  Becomes(k, IF renames THEN s ELSE Read(s))
    /\ UNCHANGED <<server, cache, open, ed, changes>>

\* useUpdateSkill invalidates all queries of skills.  What it waits for then may have
\* failed or be paused, so that the save may go on at any time.
Renamed(k) ==
    /\ save[k].pc = "renaming"
    /\ Becomes(k, Read(save[k]))
    /\ InvalidateVersions
    /\ UNCHANGED <<server, open, ed, changes>>

\* Variant: the file is read from the version that is on display by then.
LoadFileOfDisplay(k, p) ==
    /\ save[k].pc = "loading" /\ p \in save[k].todo
    /\ Becomes(k, Read([save[k] EXCEPT
                          !.todo = @ \ {p},
                          !.tree[p] = IF DisplayVersion(cache) = 0 THEN None
                                      ELSE version[DisplayVersion(cache)].files[p]]))
    /\ UNCHANGED <<server, cache, open, ed, changes>>

LoadFile(k, p) ==
    /\ save[k].pc = "loading" /\ p \in save[k].todo
    /\ Becomes(k, Read([save[k] EXCEPT !.todo = @ \ {p},
                                       !.tree[p] = version[save[k].view].files[p]]))
    /\ UNCHANGED <<server, cache, open, ed, changes>>

\* create_version: what it is sent must differ from the newest version; without files,
\* the version keeps those of the newest one.
CreateVersion(k) ==
    LET s == save[k]
        newest == IF version = << >> THEN [text |-> None, files |-> NoFiles]
                  ELSE version[Len(version)]
    IN  /\ s.pc = "posting"
        /\ s.text # newest.text \/ (s.modified /\ s.tree # NoFiles)
        /\ Insert([text |-> Sanitized[s.text],
                   files |-> IF s.modified THEN s.tree ELSE newest.files])
        /\ Becomes(k, [s EXCEPT !.pc = "answered", !.number = Len(version'),
                                !.tree = NoFiles, !.view = 0])
        /\ UNCHANGED <<published, cache, open, ed, changes>>

\* Nothing was saved but, perhaps, the title; or the answer is lost.
SaveFails(k) ==
    /\ save[k].pc \in {"renaming", "loading", "posting", "answered"}
    /\ Becomes(k, NoSave)
    /\ ed' = IF open /\ save[k].exit THEN [ed EXCEPT !.editing = FALSE] ELSE ed
    /\ UNCHANGED <<server, cache, open, changes>>

\* Variant: useCreateVersion does not invalidate the list of the versions.
SaveAnsweredKeepsList(k) ==
    /\ save[k].pc = "answered"
    /\ Becomes(k, [save[k] EXCEPT !.pc = "refetching"])
    /\ UNCHANGED <<server, cache, open, ed, changes>>

\* useCreateVersion invalidates the list.
SaveAnswered(k) ==
    /\ save[k].pc = "answered"
    /\ Becomes(k, [save[k] EXCEPT !.pc = "refetching",
                                  !.joined = cache.list.data = None
                                             /\ cache.list.fetch # None])
    /\ InvalidateVersions
    /\ UNCHANGED <<server, open, ed, changes>>

\* Variant: the snapshot is what the editor has by then.
SaveReturnsSnapshotsEditor(k) ==
    /\ save[k].pc = "refetching"
    /\ Becomes(k, NoSave)
    /\ ed' = IF open
             THEN Settled(cache, [ed EXCEPT !.snapshot = ed.text,
                                            !.initialized = save[k].number,
                                            !.modified = FALSE,
                                            !.editing = @ /\ ~save[k].exit])
             ELSE ed
    /\ UNCHANGED <<server, cache, open, changes>>

\* What was saved counts as stored, and every file as unchanged.  The refetches it waited
\* for may have failed or be paused: it may return at any time.
SaveReturns(k) ==
    /\ save[k].pc = "refetching"
    /\ Becomes(k, NoSave)
    /\ ed' = IF open
             THEN Settled(cache, [ed EXCEPT !.snapshot = save[k].text,
                                            !.initialized = save[k].number,
                                            !.modified = FALSE,
                                            !.editing = @ /\ ~save[k].exit])
             ELSE ed
    /\ UNCHANGED <<server, cache, open, changes>>

----------------------------------------------------------------------------
(* The other operations of the page *)

\* Publishing is offered in read mode while the newest version is not published.
\* The request names no version: that its answer takes time makes no difference.
\* A required summary is saved before it.
HandlePublish ==
    /\ open /\ ~ed.editing /\ version # << >>
    /\ NeedsLatestDraft(cache) \/ cache.current = 0
    /\ published' = Len(version)
    /\ InvalidateVersions
    /\ UNCHANGED <<version, open, ed, saves, changes>>

\* A link or handleDelete; unsaved changes are not asked about.  The cache is not looked
\* at from then on.
Leave ==
    /\ open
    /\ open' = FALSE
    /\ ed' = BlankEditor
    /\ cache' = NoCache
    /\ changes' = 0
    /\ UNCHANGED <<server, saves>>

Next ==
    \/ OthersSave \/ OthersPublish
    \/ RefetchSkill \/ VersionsRead \/ VersionsArrive \/ VersionsFail \/ LoadLatest
    \/ HandleEnterEdit \/ PressEscape \/ HandleCancelEdit \/ EditText \/ EditFile
    \/ OnFileAdd \/ HandleImport \/ HandlePublish \/ Leave
    \/ \E p \in Paths : SelectFile(p) \/ OnFileDelete(p)
    \/ \E k \in Saves :
          \/ \E renames, exits \in BOOLEAN : HandleSave(k, renames, exits)
          \/ \E p \in Paths : LoadFile(k, p)
          \/ Renamed(k) \/ CreateVersion(k) \/ SaveFails(k) \/ SaveAnswered(k)
          \/ SaveReturns(k)

Spec == Init /\ [][Next]_vars

----------------------------------------------------------------------------
(* Properties *)

\* The page offers nothing to save only if the text in the editor is what it makes of the
\* stored text of the version whose number it remembers, or was itself stored as that
\* version, sanitized; across refetches, overlapping saves, cancelling and what was typed
\* meanwhile.
CleanMeansStored ==
    ed.snapshot # None /\ ed.text = ed.snapshot =>
        IF ed.initialized = 0 THEN ed.text = Scaffold
        ELSE LET stored == version[ed.initialized].text
             IN  ed.text = Parsed[stored] \/ Sanitized[ed.text] = stored

\* What a save posts, and what is stored for it, is what the editor showed when it was
\* pressed: its text, sanitized, and, if files were changed, for every file the contents
\* in the editor or in the version on display then, whatever was typed, refetched,
\* published or saved once more meanwhile.
SavedAsSubmitted ==
    \A k \in Saves :
        LET s == save[k]
        IN  /\ s.pc = "posting" => s.tree = s.meant
            /\ s.number # 0 =>
                 LET stored == version[s.number]
                 IN  /\ stored.text = Sanitized[s.text]
                     /\ s.modified => stored.files = s.meant

\* When the page reports "Saved as v<n>", its list of versions has version n, or a newer
\* one: the next save, the number on its button and the version to publish follow from
\* that list.  Unless it counts as out of date, because it could not be fetched again; or
\* the answer of its very first fetch was on its way when the save was answered.
SavedVersionIsListed ==
    [][\A k \in Saves :
          save[k].pc = "refetching" /\ save'[k].pc = "idle" /\ open =>
              \/ Latest(cache) >= save[k].number
              \/ cache.list.stale
              \/ save[k].joined]_vars

================================================================================
