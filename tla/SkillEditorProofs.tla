--------------------------- MODULE SkillEditorProofs ---------------------------
(***************************************************************************)
(* Proofs about SkillEditor, for any files and texts, any conversions      *)
(* between the editor and the stored text, and any number of versions, of  *)
(* saves at a time and of changes.                                         *)
(***************************************************************************)
EXTENDS SkillEditor, SequenceTheorems, TLAPS

USE DEF vars, server, saves

\* What may be stored, and that None is none of it.
ContentsOK ==
    /\ MaxVersions \in Nat \ {0} /\ MaxSaves \in Nat /\ MaxChanges \in Nat
    /\ None \notin Texts /\ None \notin Paths /\ None \notin Nat
    /\ FirstVersions \subseteq Contents /\ OtherVersion \in Contents
    /\ Imported \in Contents
    /\ Scaffold \in Texts /\ NewText \in Texts /\ NewBlob \in Blobs
    /\ Sanitized \in [Texts -> Texts] /\ Parsed \in [Texts -> Texts]
    /\ AddedPath \in Paths

\* The cache knows of versions that are stored, and a fetch under way of no older ones
\* than those it has.
CacheOK(c, v) ==
    /\ c \in Cache /\ {c.current, c.loaded} \subseteq 0 .. Len(v)
    /\ c.list.data # None => c.list.data \in 0 .. Len(v)
    /\ c.list.fetch # None => c.list.fetch \in 0 .. Len(v)
    /\ c.list.data # None /\ c.list.fetch # None => c.list.data <= c.list.fetch

\* Text t may count as that of version n; 0 is the skill without versions.
Stands(t, n, v) ==
    IF n = 0 THEN t = Scaffold
    ELSE t = Parsed[v[n].text] \/ Sanitized[t] = v[n].text

\* The snapshot stands for the version whose number the editor remembers.
EditorOK(e, v) ==
    /\ e \in Editor /\ e.local \subseteq e.paths /\ e.display \in 0 .. Len(v)
    /\ e.snapshot # None =>
          /\ e.text \in Texts /\ e.initialized \in 0 .. Len(v)
          /\ Stands(e.snapshot, e.initialized, v)

\* A save in progress has a text to store; what it has read is what was meant, and what it
\* has not read yet is in the version on display when it was pressed; once stored, it is
\* there to stay.
SaveOK(s, v) ==
    /\ s.pc # "idle" => s.text \in Texts
    /\ s.pc \in {"renaming", "loading", "posting"} =>
          /\ s.todo # {} => s.view \in 1 .. Len(v)
          /\ \A p \in Paths : s.meant[p] = IF p \in s.todo THEN v[s.view].files[p]
                                           ELSE s.tree[p]
    /\ s.pc = "posting" => s.todo = {}
    /\ s.pc \in {"answered", "refetching"} =>
          /\ s.number \in 1 .. Len(v)
          /\ v[s.number].text = Sanitized[s.text]
          /\ s.modified => v[s.number].files = s.meant
    /\ s.number # 0 => s.pc \in {"answered", "refetching"}

\* Once a save is answered, the list of the versions has its version or counts as out of
\* date; and so does whatever a fetch under way brings, unless the save joined it.
Listed(s, list) ==
    s.pc = "refetching" /\ ~s.joined =>
        /\ list.stale \/ (list.data # None /\ s.number <= list.data)
        /\ list.fetch # None => s.number <= list.fetch

\* A save in progress has an editor with a snapshot.
Shown(s, e) == s.pc # "idle" => e.snapshot # None

EditorInv ==
    /\ TypeOK /\ CacheOK(cache, version) /\ EditorOK(ed, version)
    /\ \A k \in Saves : SaveOK(save[k], version)
    /\ open => \A k \in Saves : Shown(save[k], ed) /\ Listed(save[k], cache.list)

\* Versions are only added.
Grows ==
    /\ version' \in Seq(Contents) /\ Len(version) <= Len(version')
    /\ Len(version') <= MaxVersions
    /\ \A n \in 1 .. Len(version) : version'[n] = version[n]

Pending == [rename : {0} \cup Saves, post : {0} \cup Saves]

----------------------------------------------------------------------------
(* Types *)

LEMMA FileTypes ==
  /\ NoFiles \in Files
  /\ \A files \in Files : PathsOf(files) \subseteq Paths
  /\ \A files \in Files, p \in Paths : files[p] \in Blobs \cup {None}
  /\ \A files \in Files, p \in Paths, b \in Blobs \cup {None} :
        [files EXCEPT ![p] = b] \in Files
BY DEF Files, NoFiles, PathsOf

LEMMA VersionTypes ==
  ASSUME TypeOK, NEW n \in 1 .. Len(version)
  PROVE  version[n].text \in Texts /\ version[n].files \in Files /\ version[n] \in Contents
<1>1. version[n] \in Contents
  BY DEF TypeOK
<1>. QED BY <1>1 DEF Contents

LEMMA NumbersStored ==
  ASSUME TypeOK, ContentsOK
  PROVE  /\ 0 .. Len(version) \subseteq Numbers /\ Len(version) \in Nat /\ 0 \in Numbers
         /\ Len(version) <= MaxVersions
BY DEF TypeOK, ContentsOK, Numbers

LEMMA BlankTypes ==
  ASSUME ContentsOK
  PROVE  /\ BlankEditor \in Editor /\ BlankEditor.snapshot = None
         /\ BlankEditor.local = {} /\ BlankEditor.paths = {} /\ BlankEditor.display = 0
         /\ NoSave \in Save /\ NoSave.pc = "idle" /\ NoSave.number = 0
         /\ NoCache \in Cache /\ NoCache.current = 0 /\ NoCache.loaded = 0
         /\ NoCache.list.data = None /\ NoCache.list.fetch = None
<1>1. 0 \in Numbers
  BY DEF ContentsOK, Numbers
<1>2. BlankEditor \in Editor
  BY <1>1, FileTypes DEF BlankEditor, Editor
<1>3. NoSave \in Save
  BY <1>1, FileTypes DEF NoSave, Save
<1>4. NoCache \in Cache
  BY <1>1 DEF NoCache, Cache, List
<1>. QED BY <1>2, <1>3, <1>4 DEF BlankEditor, NoSave, NoCache

\* Nothing is added.
LEMMA SameVersions ==
  ASSUME TypeOK, UNCHANGED version
  PROVE  Grows
BY DEF TypeOK, Grows

\* A version is added, and those before it stay.
LEMMA InsertGrows ==
  ASSUME ContentsOK, TypeOK, NEW content \in Contents, Insert(content)
  PROVE  /\ Grows
         /\ Len(version) \in Nat /\ Len(version') = Len(version) + 1
         /\ version'[Len(version')] = content
<1>1. version \in Seq(Contents) /\ version' = Append(version, content)
      /\ Len(version) < MaxVersions /\ Len(version) \in Nat
  BY DEF TypeOK, Insert
<1>2. Len(version') = Len(version) + 1 /\ version' \in Seq(Contents)
  BY <1>1
<1>3. version'[Len(version')] = content /\ \A n \in 1 .. Len(version) : version'[n] = version[n]
  BY <1>1, <1>2
<1>4. Len(version') <= MaxVersions
  BY <1>1, <1>2 DEF ContentsOK
<1>. QED BY <1>1, <1>2, <1>3, <1>4 DEF Grows

\* What refers to the stored versions stays true.
LEMMA GrowsKeeps ==
  ASSUME TypeOK, Grows
  PROVE  /\ \A c : CacheOK(c, version) => CacheOK(c, version')
         /\ \A e : EditorOK(e, version) => EditorOK(e, version')
         /\ \A s \in Save : SaveOK(s, version) => SaveOK(s, version')
<1>1. /\ Len(version) \in Nat /\ Len(version') \in Nat /\ Len(version) <= Len(version')
      /\ \A n \in 1 .. Len(version) : version'[n] = version[n]
  BY DEF TypeOK, Grows
<1>2. \A c : CacheOK(c, version) => CacheOK(c, version')
  BY <1>1 DEF CacheOK
<1>3. \A e : EditorOK(e, version) => EditorOK(e, version')
  <2>. SUFFICES ASSUME NEW e, EditorOK(e, version)
                PROVE  EditorOK(e, version')
    OBVIOUS
  <2>1. ASSUME NEW n \in 0 .. Len(version), NEW t, Stands(t, n, version)
        PROVE  Stands(t, n, version')
    BY <1>1, <2>1 DEF Stands
  <2>. QED BY <1>1, <2>1 DEF EditorOK
<1>4. ASSUME NEW s \in Save, SaveOK(s, version)
      PROVE  SaveOK(s, version')
  <2>1. s.todo \subseteq Paths
    BY DEF Save
  <2>. QED BY <1>1, <1>4, <2>1 DEF SaveOK
<1>. QED BY <1>2, <1>3, <1>4

----------------------------------------------------------------------------
(* What the page shows *)

LEMMA ShownVersions ==
  ASSUME NEW c, CacheOK(c, version), version \in Seq(Contents)
  PROVE  InitialVersion(c) \in 0 .. Len(version) /\ DisplayVersion(c) \in 0 .. Len(version)
<1>1. Latest(c) \in 0 .. Len(version)
  BY DEF CacheOK, Latest
<1>. QED BY <1>1 DEF CacheOK, InitialVersion, DisplayVersion

LEMMA InitializeKeeps ==
  ASSUME ContentsOK, TypeOK, NEW c, CacheOK(c, version), NEW e, EditorOK(e, version)
  PROVE  /\ EditorOK(Initialize(c, e), version)
         /\ e.snapshot # None => Initialize(c, e).snapshot # None
<1>. DEFINE n == InitialVersion(c)
            put(text, number) == [e EXCEPT !.text = text, !.snapshot = text,
                                           !.initialized = number]
            text(number) == IF number = 0 THEN Scaffold ELSE Parsed[version[number].text]
<1>1. n \in 0 .. Len(version)
  BY ShownVersions DEF TypeOK
<1>2. ASSUME NEW k \in 0 .. Len(version)
      PROVE  /\ EditorOK(put(text(k), k), version)
             /\ put(text(k), k).snapshot # None
  <2>1. text(k) \in Texts
    BY <1>2, VersionTypes DEF ContentsOK
  <2>2. k \in Numbers
    BY NumbersStored
  <2>3. Stands(text(k), k, version)
    BY DEF Stands
  <2>. HIDE DEF text
  <2>4. put(text(k), k) \in Editor
    BY <2>1, <2>2 DEF EditorOK, Editor
  <2>. QED
    BY <2>1, <2>3, <2>4 DEF EditorOK, ContentsOK, Editor
<1>3. \/ n # 0 /\ Initialize(c, e) = put(text(n), n)
      \/ Initialize(c, e) = put(text(0), 0)
      \/ Initialize(c, e) = e
  BY DEF Initialize
<1>4. 0 \in 0 .. Len(version)
  BY DEF TypeOK
<1>. QED
  <2>. HIDE DEF put, n, text
  <2>. QED BY <1>1, <1>2, <1>3, <1>4

LEMMA ResetKeeps ==
  ASSUME NEW e, EditorOK(e, version), NEW files \in Files
  PROVE  /\ EditorOK(ResetFiles(e, files), version)
         /\ ResetFiles(e, files).snapshot = e.snapshot
         /\ ResetFiles(e, files).initialized = e.initialized
<1>1. ResetFiles(e, files) \in Editor
  BY FileTypes DEF EditorOK, Editor, ResetFiles
<1>. QED
  BY <1>1 DEF EditorOK, Editor, ResetFiles

LEMMA ShowFilesKeeps ==
  ASSUME ContentsOK, TypeOK, NEW c, CacheOK(c, version), NEW e, EditorOK(e, version)
  PROVE  EditorOK(ShowFiles(c, e), version) /\ ShowFiles(c, e).snapshot = e.snapshot
<1>. DEFINE n == DisplayVersion(c)
            moved == [e EXCEPT !.display = n]
<1>1. n \in 0 .. Len(version) /\ n \in Numbers
  BY ShownVersions, NumbersStored DEF TypeOK
<1>2. moved \in Editor
  BY <1>1 DEF EditorOK, Editor
<1>3. EditorOK(moved, version) /\ moved.snapshot = e.snapshot
  BY <1>1, <1>2 DEF EditorOK, Editor
<1>4. n # 0 => version[n].files \in Files
  BY <1>1, VersionTypes
<1>5. \/ ShowFiles(c, e) = e
      \/ ShowFiles(c, e) = moved
      \/ n # 0 /\ ShowFiles(c, e) = ResetFiles(moved, version[n].files)
  BY DEF ShowFiles
<1>. QED
  <2>. HIDE DEF moved, n
  <2>. QED BY <1>3, <1>4, <1>5, ResetKeeps

LEMMA SettledKeeps ==
  ASSUME ContentsOK, TypeOK, NEW c, CacheOK(c, version), NEW e, EditorOK(e, version)
  PROVE  /\ EditorOK(Settled(c, e), version)
         /\ e.snapshot # None => Settled(c, e).snapshot # None
BY InitializeKeeps, ShowFilesKeeps DEF Settled

LEMMA PutFetchedKeeps ==
  ASSUME TypeOK, NEW e, EditorOK(e, version)
  PROVE  EditorOK(PutFetched(e), version) /\ PutFetched(e).snapshot = e.snapshot
<1>1. CASE e.editing /\ OnServer(e)
  <2>1. e.selected \in Paths /\ e.display \in 1 .. Len(version)
    BY <1>1 DEF OnServer, EditorOK, Editor, TypeOK
  <2>2. version[e.display].files[e.selected] \in Blobs \cup {None}
    BY <2>1, VersionTypes, FileTypes
  <2>3. [e.edits EXCEPT ![e.selected] = version[e.display].files[e.selected]] \in Files
    BY <2>1, <2>2, FileTypes DEF EditorOK, Editor
  <2>4. PutFetched(e) \in Editor
    BY <1>1, <2>3 DEF PutFetched, EditorOK, Editor
  <2>. QED
    BY <1>1, <2>4 DEF PutFetched, EditorOK, Editor
<1>2. CASE ~(e.editing /\ OnServer(e))
  BY <1>2 DEF PutFetched
<1>. QED BY <1>1, <1>2

----------------------------------------------------------------------------
(* What a step must keep *)

\* A step of the page, or of the server.
LEMMA PageStep ==
  ASSUME ContentsOK, EditorInv, Grows, UNCHANGED saves,
         published' \in 0 .. Len(version'), open' \in BOOLEAN, changes' \in 0 .. MaxChanges,
         CacheOK(cache', version'), EditorOK(ed', version'),
         open' => /\ open /\ (ed.snapshot # None => ed'.snapshot # None)
                  /\ \A k \in Saves : Listed(save[k], cache'.list)
  PROVE  EditorInv'
<1>1. TypeOK'
  BY DEF EditorInv, TypeOK, Grows, CacheOK, EditorOK
<1>2. \A k \in Saves : SaveOK(save'[k], version')
  BY GrowsKeeps DEF EditorInv, TypeOK
<1>3. open' => \A k \in Saves : Shown(save'[k], ed') /\ Listed(save'[k], cache'.list)
  BY DEF EditorInv, Shown
<1>. QED BY <1>1, <1>2, <1>3 DEF EditorInv

\* A step of one save.
LEMMA SaveStep ==
  ASSUME ContentsOK, EditorInv, NEW k \in Saves, NEW s \in Save, Becomes(k, s),
         Grows, SaveOK(s, version'), UNCHANGED <<published, open, changes>>,
         CacheOK(cache', version'), EditorOK(ed', version'),
         open => /\ Shown(s, ed) /\ (ed.snapshot # None => ed'.snapshot # None)
                 /\ Listed(s, cache'.list)
                 /\ \A j \in Saves : Listed(save[j], cache'.list)
  PROVE  EditorInv'
<1>1. /\ save' \in [Saves -> Save] /\ save'[k] = s
      /\ \A j \in Saves \ {k} : save'[j] = save[j]
  BY DEF Becomes, EditorInv, TypeOK
<1>2. pending' \in Pending
  <2>1. pending.rename \in {0} \cup Saves /\ pending.post \in {0} \cup Saves
    BY DEF EditorInv, TypeOK
  <2>. QED BY <2>1 DEF Becomes, Pending
<1>3. published' \in 0 .. Len(version')
  BY DEF EditorInv, TypeOK, Grows
<1>4. TypeOK'
  BY <1>1, <1>2, <1>3 DEF EditorInv, TypeOK, Grows, CacheOK, EditorOK, Pending
<1>5. ASSUME NEW j \in Saves PROVE SaveOK(save'[j], version')
  BY <1>1, GrowsKeeps DEF EditorInv, TypeOK
<1>6. ASSUME open', NEW j \in Saves
      PROVE  Shown(save'[j], ed') /\ Listed(save'[j], cache'.list)
  BY <1>1, <1>6 DEF EditorInv, Shown
<1>. QED BY <1>4, <1>5, <1>6 DEF EditorInv

\* What does not change stays right.
LEMMA CacheKept ==
  ASSUME EditorInv, Grows, UNCHANGED cache
  PROVE  /\ CacheOK(cache', version')
         /\ open => \A k \in Saves : Listed(save[k], cache'.list)
BY GrowsKeeps DEF EditorInv

LEMMA EditorKept ==
  ASSUME EditorInv, Grows, UNCHANGED ed
  PROVE  EditorOK(ed', version') /\ (ed.snapshot # None => ed'.snapshot # None)
BY GrowsKeeps DEF EditorInv

\* The fetch that is kept is the first one; without it, the list counts as out of date or
\* is complete.
LEMMA InvalidateKeeps ==
  ASSUME ContentsOK, EditorInv, InvalidateVersions, UNCHANGED version
  PROVE  /\ CacheOK(cache', version')
         /\ open => /\ \A k \in Saves : Listed(save[k], cache'.list)
                    /\ \A s \in Save :
                          /\ s.number \in 0 .. Len(version)
                          /\ cache.list.data = None /\ cache.list.fetch # None => s.joined
                          => Listed(s, cache'.list)
<1>1. CASE ~open
  BY <1>1 DEF InvalidateVersions, EditorInv
<1>2. CASE open
  <2>. DEFINE list == cache'.list
  <2>1. /\ cache.list \in List /\ cache \in Cache /\ cache' \in Cache
        /\ cache'.current = cache.current /\ cache'.loaded = cache.loaded
        /\ list.data = cache.list.data
        /\ list.stale = (cache.list.data # Len(version))
        /\ list.fetch = IF cache.list.data = None THEN cache.list.fetch ELSE None
    <3>1. cache.list \in List /\ cache \in Cache
      BY DEF EditorInv, TypeOK, Cache
    <3>2. None \in Numbers \cup {None} /\ (cache.list.data # Len(version)) \in BOOLEAN
      OBVIOUS
    <3>3. cache' = [cache EXCEPT !.list = [cache.list EXCEPT
                       !.stale = cache.list.data # Len(version),
                       !.fetch = IF cache.list.data = None THEN @ ELSE None]]
      BY <1>2, <3>1 DEF InvalidateVersions, Cache, List
    <3>. QED BY <3>1, <3>2, <3>3 DEF Cache, List
  <2>2. CacheOK(cache', version')
    BY <2>1 DEF EditorInv, CacheOK
  <2>3. Len(version) \in Nat /\ None # Len(version)
    BY DEF EditorInv, TypeOK, ContentsOK
  <2>6. /\ list.stale \/ (list.data # None /\ list.data = Len(version))
        /\ list.fetch # None => /\ cache.list.data = None /\ cache.list.fetch # None
                                /\ list.fetch = cache.list.fetch
    BY <2>1, <2>3
  <2>4. ASSUME NEW k \in Saves
        PROVE  Listed(save[k], list)
    <3>1. save[k].pc = "refetching" => save[k].number \in 1 .. Len(version)
      BY DEF EditorInv, SaveOK
    <3>2. Listed(save[k], cache.list)
      BY <1>2 DEF EditorInv
    <3>. HIDE DEF list
    <3>. QED BY <2>6, <2>3, <3>1, <3>2 DEF Listed
  <2>5. ASSUME NEW s \in Save, s.number \in 0 .. Len(version),
               cache.list.data = None /\ cache.list.fetch # None => s.joined
        PROVE  Listed(s, list)
    <3>. HIDE DEF list
    <3>. QED BY <2>6, <2>3, <2>5 DEF Listed
  <2>. QED BY <2>2, <2>4, <2>5
<1>. QED BY <1>1, <1>2

----------------------------------------------------------------------------
(* Steps that leave the versions and the saves alone *)

LEMMA EditorStepKeeps ==
  ASSUME ContentsOK, EditorInv, NEW e, EditorOK(e, version),
         ed.snapshot # None => e.snapshot # None,
         EditorStep(e), changes' \in 0 .. MaxChanges
  PROVE  EditorInv'
<1>1. open /\ ed' = Settled(cache, e) /\ UNCHANGED <<version, published, cache, open, saves>>
  BY DEF EditorStep
<1>2. /\ EditorOK(Settled(cache, e), version)
      /\ e.snapshot # None => Settled(cache, e).snapshot # None
  BY SettledKeeps DEF EditorInv
<1>3. Grows /\ published' \in 0 .. Len(version') /\ open' \in BOOLEAN
  BY <1>1, SameVersions DEF EditorInv, TypeOK
<1>4. CacheOK(cache', version') /\ \A k \in Saves : Listed(save[k], cache'.list)
  BY <1>1, <1>3, CacheKept
<1>5. EditorOK(ed', version') /\ (ed.snapshot # None => ed'.snapshot # None)
  BY <1>1, <1>2
<1>. QED BY <1>1, <1>3, <1>4, <1>5, PageStep

\* After a fetch the page may put another version into the editor.
LEMMA KeepKeeps ==
  ASSUME ContentsOK, EditorInv, NEW c, CacheOK(c, version), Keep(c),
         \A k \in Saves : Listed(save[k], c.list)
  PROVE  EditorInv'
<1>1. /\ open /\ cache' = c /\ ed' = Settled(c, ed)
      /\ UNCHANGED <<version, published, open, saves, changes>>
  BY DEF Keep, CacheStep
<1>2. EditorOK(Settled(c, ed), version) /\ (ed.snapshot # None => Settled(c, ed).snapshot # None)
  BY SettledKeeps DEF EditorInv
<1>3. /\ Grows /\ published' \in 0 .. Len(version') /\ open' \in BOOLEAN
      /\ changes' \in 0 .. MaxChanges
  BY <1>1, SameVersions DEF EditorInv, TypeOK
<1>4. CacheOK(cache', version') /\ EditorOK(ed', version')
  BY <1>1, <1>2
<1>. QED BY <1>1, <1>2, <1>3, <1>4, PageStep

LEMMA InitEditor == ASSUME ContentsOK, Init PROVE EditorInv
<1>1. /\ version \in Seq(Contents) /\ Len(version) \in 0 .. 1
      /\ Len(version) = 1 => version[1] \in Contents
  <2>1. CASE version = << >>
    BY <2>1
  <2>2. ASSUME NEW content \in FirstVersions, version = << content >>
        PROVE  version \in Seq(Contents) /\ Len(version) = 1 /\ version[1] \in Contents
    <3>1. content \in Contents
      BY DEF ContentsOK
    <3>. QED BY <2>2, <3>1
  <2>. QED BY <2>1, <2>2 DEF Init
<1>2. published \in 0 .. Len(version) /\ published \in Numbers /\ 0 \in Numbers
      /\ published \in {0, 1}
  <2>1. published \in 0 .. Len(version)
    BY DEF Init
  <2>2. MaxVersions \in Nat /\ MaxVersions >= 1
    BY DEF ContentsOK
  <2>. QED BY <1>1, <2>1, <2>2 DEF Numbers
<1>3. CacheOK(cache, version)
  <2>1. cache = [NoCache EXCEPT !.current = published]
    BY DEF Init
  <2>2. /\ cache \in Cache /\ cache.current = published /\ cache.loaded = 0
        /\ cache.list.data = None /\ cache.list.fetch = None
    BY <1>2, <2>1, BlankTypes DEF Cache
  <2>. QED BY <1>1, <1>2, <2>2 DEF CacheOK
<1>5. EditorOK(ed, version)
  <2>1. CASE published = 0
    BY <1>1, <2>1, BlankTypes DEF Init, EditorOK
  <2>2. CASE published = 1
    <3>. DEFINE shown == version[1]
    <3>1. /\ Len(version) = 1 /\ shown.text \in Texts /\ shown.files \in Files
          /\ Parsed[shown.text] \in Texts
      BY <1>1, <1>2, <2>2 DEF Contents, ContentsOK
    <3>2. ed = [BlankEditor EXCEPT
                  !.text = Parsed[shown.text], !.snapshot = Parsed[shown.text],
                  !.initialized = 1, !.display = 1, !.paths = PathsOf(shown.files)]
      BY <2>2 DEF Init
    <3>3. 1 \in Numbers /\ PathsOf(shown.files) \subseteq Paths
      BY <1>2, <2>2, <3>1, FileTypes
    <3>4. ed \in Editor
      <4>. HIDE DEF shown
      <4>. QED BY BlankTypes, <3>1, <3>2, <3>3 DEF Editor
    <3>5. /\ ed.text = Parsed[shown.text] /\ ed.snapshot = Parsed[shown.text]
          /\ ed.initialized = 1 /\ ed.display = 1 /\ ed.local = {}
      BY <3>2 DEF BlankEditor
    <3>. QED BY <3>1, <3>4, <3>5 DEF EditorOK, Stands
  <2>. QED BY <1>2, <2>1, <2>2
<1>6. save \in [Saves -> Save] /\ \A k \in Saves : save[k] = NoSave
  BY BlankTypes DEF Init
<1>7. \A k \in Saves : SaveOK(save[k], version) /\ Shown(save[k], ed) /\ Listed(save[k], cache.list)
  BY <1>6, BlankTypes DEF SaveOK, Shown, Listed
<1>8. TypeOK
  <2>1. Len(version) <= MaxVersions
    <3>1. MaxVersions \in Nat /\ MaxVersions >= 1
      BY DEF ContentsOK
    <3>. QED BY <1>1, <3>1
  <2>2. open \in BOOLEAN /\ changes \in 0 .. MaxChanges
    BY DEF Init
  <2>3. pending \in [rename : {0} \cup Saves, post : {0} \cup Saves]
    BY DEF Init
  <2>. QED
    BY <1>1, <1>2, <1>3, <1>5, <1>6, <2>1, <2>2, <2>3 DEF TypeOK, CacheOK, EditorOK
<1>. QED BY <1>3, <1>5, <1>7, <1>8 DEF EditorInv

LEMMA QueriesKeep ==
  ASSUME ContentsOK, EditorInv,
         RefetchSkill \/ VersionsRead \/ VersionsArrive \/ VersionsFail \/ LoadLatest
  PROVE  EditorInv'
<1>1. /\ cache \in Cache /\ cache.list \in List /\ CacheOK(cache, version)
      /\ 0 .. Len(version) \subseteq Numbers /\ Len(version) \in Nat
      /\ published \in 0 .. Len(version) /\ None \notin Nat
  BY NumbersStored DEF EditorInv, TypeOK, Cache, ContentsOK
<1>2. open
  BY DEF RefetchSkill, VersionsRead, VersionsArrive, VersionsFail, LoadLatest, Keep
<1>3. \A k \in Saves :
         /\ Listed(save[k], cache.list)
         /\ save[k].pc = "refetching" => save[k].number \in 1 .. Len(version)
  BY <1>2 DEF EditorInv, SaveOK
<1>4. CASE RefetchSkill
  <2>. DEFINE c == [cache EXCEPT !.current = published]
  <2>1. c \in Cache /\ c.current = published /\ c.list = cache.list /\ c.loaded = cache.loaded
    BY <1>1 DEF Cache
  <2>2. Keep(c)
    BY <1>4 DEF RefetchSkill
  <2>. HIDE DEF c
  <2>3. CacheOK(c, version)
    BY <1>1, <2>1 DEF CacheOK
  <2>. QED BY <1>3, <2>1, <2>2, <2>3, KeepKeeps
<1>5. CASE VersionsRead
  <2>. DEFINE c == [cache EXCEPT !.list.fetch = Len(version)]
  <2>1. /\ c \in Cache /\ c.current = cache.current /\ c.loaded = cache.loaded
        /\ c.list = [cache.list EXCEPT !.fetch = Len(version)]
    BY <1>1 DEF Cache, List
  <2>2. /\ c.list.data = cache.list.data /\ c.list.stale = cache.list.stale
        /\ c.list.fetch = Len(version)
    BY <1>1, <2>1 DEF List
  <2>3. Keep(c)
    BY <1>5 DEF VersionsRead
  <2>. HIDE DEF c
  <2>4. CacheOK(c, version)
    BY <1>1, <2>1, <2>2 DEF CacheOK
  <2>5. \A k \in Saves : Listed(save[k], c.list)
    BY <1>1, <1>3, <2>2 DEF Listed
  <2>. QED BY <2>3, <2>4, <2>5, KeepKeeps
<1>6. CASE VersionsArrive
  <2>. DEFINE list == [data |-> cache.list.fetch, stale |-> FALSE, fetch |-> None]
              c == [cache EXCEPT !.list = list]
  <2>0. cache.list.fetch # None
    BY <1>6 DEF VersionsArrive
  <2>1. list \in List
    BY <1>1, <2>0 DEF List
  <2>2. c \in Cache /\ c.current = cache.current /\ c.loaded = cache.loaded /\ c.list = list
    BY <1>1, <2>1 DEF Cache
  <2>3. Keep(c)
    BY <1>6 DEF VersionsArrive
  <2>. HIDE DEF c
  <2>4. CacheOK(c, version)
    BY <1>1, <2>0, <2>2 DEF CacheOK
  <2>5. \A k \in Saves : Listed(save[k], c.list)
    BY <1>1, <1>3, <2>0, <2>2 DEF Listed
  <2>. QED BY <2>3, <2>4, <2>5, KeepKeeps
<1>7. CASE VersionsFail
  <2>. DEFINE c == [cache EXCEPT !.list.fetch = None]
  <2>1. /\ c \in Cache /\ c.current = cache.current /\ c.loaded = cache.loaded
        /\ c.list = [cache.list EXCEPT !.fetch = None]
    BY <1>1 DEF Cache, List
  <2>2. /\ c.list.data = cache.list.data /\ c.list.stale = cache.list.stale
        /\ c.list.fetch = None
    BY <1>1, <2>1 DEF List
  <2>3. Keep(c)
    BY <1>7 DEF VersionsFail
  <2>. HIDE DEF c
  <2>4. CacheOK(c, version)
    BY <1>1, <2>1, <2>2 DEF CacheOK
  <2>5. \A k \in Saves : Listed(save[k], c.list)
    BY <1>3, <2>2 DEF Listed
  <2>. QED BY <2>3, <2>4, <2>5, KeepKeeps
<1>8. CASE LoadLatest
  <2>. DEFINE c == [cache EXCEPT !.loaded = Latest(cache)]
  <2>1. Latest(cache) \in 0 .. Len(version)
    BY <1>1 DEF CacheOK, Latest
  <2>2. /\ c \in Cache /\ c.current = cache.current /\ c.list = cache.list
        /\ c.loaded = Latest(cache)
    BY <1>1, <2>1 DEF Cache
  <2>3. Keep(c)
    BY <1>8 DEF LoadLatest
  <2>. HIDE DEF c
  <2>4. CacheOK(c, version)
    BY <1>1, <2>1, <2>2 DEF CacheOK
  <2>. QED BY <1>3, <2>2, <2>3, <2>4, KeepKeeps
<1>. QED BY <1>4, <1>5, <1>6, <1>7, <1>8

\* The handlers of the editor, seen as one: what they put into it is allowed.
LEMMA EditingKeeps ==
  ASSUME ContentsOK, EditorInv,
         \/ HandleEnterEdit \/ PressEscape \/ HandleCancelEdit \/ EditText \/ EditFile
         \/ OnFileAdd \/ HandleImport
         \/ \E p \in Paths : SelectFile(p) \/ OnFileDelete(p)
  PROVE  EditorInv'
<1>1. TypeOK /\ CacheOK(cache, version) /\ EditorOK(ed, version) /\ ed \in Editor
  BY DEF EditorInv, EditorOK
<1>2. changes' \in 0 .. MaxChanges
  <2>1. changes \in 0 .. MaxChanges /\ MaxChanges \in Nat
    BY <1>1 DEF ContentsOK, TypeOK
  <2>2. changes' = changes \/ (changes < MaxChanges /\ changes' = changes + 1)
    BY DEF HandleEnterEdit, PressEscape, HandleCancelEdit, EditText, EditFile, OnFileAdd,
           HandleImport, SelectFile, OnFileDelete, ChangeStep
  <2>. QED BY <2>1, <2>2
<1>3. ASSUME NEW e, EditorStep(e), EditorOK(e, version), ed.snapshot # None => e.snapshot # None
      PROVE  EditorInv'
  BY <1>2, <1>3, EditorStepKeeps
\* Most leave snapshot, text and the version on display as they are.
<1>4. ASSUME NEW e \in Editor, EditorStep(e), e.local \subseteq e.paths,
             e.display = ed.display, e.snapshot = ed.snapshot,
             e.initialized = ed.initialized, e.text \in Texts \/ e.text = ed.text
      PROVE  EditorInv'
  <2>1. EditorOK(e, version)
    BY <1>1, <1>4 DEF EditorOK
  <2>. QED BY <1>3, <1>4, <2>1
<1>5. CASE HandleEnterEdit
  <2>. DEFINE e == [ed EXCEPT !.editing = TRUE]
  <2>1. e \in Editor /\ EditorOK(e, version) /\ e.snapshot = ed.snapshot
    BY <1>1 DEF EditorOK, Editor
  <2>2. EditorOK(PutFetched(e), version) /\ PutFetched(e).snapshot = ed.snapshot
    BY <1>1, <2>1, PutFetchedKeeps
  <2>. QED BY <1>3, <1>5, <2>2 DEF HandleEnterEdit
<1>6. CASE PressEscape
  <2>. DEFINE e == [ed EXCEPT !.editing = FALSE]
  <2>1. /\ e \in Editor /\ e.local \subseteq e.paths /\ e.display = ed.display
        /\ e.snapshot = ed.snapshot /\ e.initialized = ed.initialized /\ e.text = ed.text
    BY <1>1 DEF EditorOK, Editor
  <2>2. EditorStep(e)
    BY <1>6 DEF PressEscape
  <2>. QED BY <1>4, <2>1, <2>2
<1>7. CASE HandleCancelEdit
  <2>. DEFINE n == InitialVersion(cache)
              d == DisplayVersion(cache)
              text == IF n = 0 THEN Scaffold ELSE Parsed[version[n].text]
              reset == ResetFiles(ed, IF d = 0 THEN NoFiles ELSE version[d].files)
              e == [reset EXCEPT !.text = text, !.editing = FALSE]
  <2>1. EditorStep(e)
    BY <1>7 DEF HandleCancelEdit
  <2>2. text \in Texts /\ (IF d = 0 THEN NoFiles ELSE version[d].files) \in Files
    BY <1>1, ShownVersions, VersionTypes, FileTypes DEF ContentsOK, TypeOK
  <2>3. EditorOK(reset, version) /\ reset.snapshot = ed.snapshot
    BY <1>1, <2>2, ResetKeeps
  <2>. HIDE DEF text, reset
  <2>4. e \in Editor
    BY <2>2, <2>3 DEF EditorOK, Editor
  <2>5. EditorOK(e, version) /\ e.snapshot = ed.snapshot
    BY <2>2, <2>3, <2>4 DEF EditorOK, Editor
  <2>. HIDE DEF e
  <2>. QED BY <1>3, <2>1, <2>5
<1>8. CASE EditText
  <2>. DEFINE e == [ed EXCEPT !.text = NewText]
  <2>1. /\ e \in Editor /\ e.local \subseteq e.paths /\ e.display = ed.display
        /\ e.snapshot = ed.snapshot /\ e.initialized = ed.initialized /\ e.text \in Texts
    BY <1>1 DEF EditorOK, Editor, ContentsOK
  <2>2. EditorStep(e)
    BY <1>8 DEF EditText, ChangeStep
  <2>. QED BY <1>4, <2>1, <2>2
<1>9. CASE EditFile
  <2>. DEFINE e == [ed EXCEPT !.edits[ed.selected] = NewBlob, !.modified = TRUE]
  <2>1. ed.selected \in Paths
    BY <1>1, <1>9 DEF EditFile, OnServer, EditorOK, Editor
  <2>2. [ed.edits EXCEPT ![ed.selected] = NewBlob] \in Files
    BY <1>1, <2>1, FileTypes DEF Editor, ContentsOK
  <2>3. /\ e \in Editor /\ e.local \subseteq e.paths /\ e.display = ed.display
        /\ e.snapshot = ed.snapshot /\ e.initialized = ed.initialized /\ e.text = ed.text
    BY <1>1, <2>2 DEF EditorOK, Editor
  <2>4. EditorStep(e)
    BY <1>9 DEF EditFile, ChangeStep
  <2>. QED BY <1>4, <2>3, <2>4
<1>10. CASE OnFileAdd
  <2>. DEFINE e == [ed EXCEPT !.paths = @ \cup {AddedPath}, !.local = @ \cup {AddedPath},
                              !.edits[AddedPath] = NewBlob, !.selected = AddedPath,
                              !.modified = TRUE]
  <2>1. [ed.edits EXCEPT ![AddedPath] = NewBlob] \in Files /\ AddedPath \in Paths
    BY <1>1, FileTypes DEF Editor, ContentsOK
  <2>2. /\ e \in Editor /\ e.local \subseteq e.paths /\ e.display = ed.display
        /\ e.snapshot = ed.snapshot /\ e.initialized = ed.initialized /\ e.text = ed.text
    BY <1>1, <2>1 DEF EditorOK, Editor
  <2>3. EditorStep(e)
    BY <1>10 DEF OnFileAdd, ChangeStep
  <2>. QED BY <1>4, <2>2, <2>3
<1>11. CASE HandleImport
  <2>. DEFINE e == [ed EXCEPT !.text = Imported.text]
              f == [e EXCEPT !.paths = PathsOf(Imported.files), !.local = {},
                             !.edits = Imported.files, !.modified = TRUE]
  <2>1. Imported.text \in Texts /\ Imported.files \in Files
        /\ PathsOf(Imported.files) \subseteq Paths
    BY FileTypes DEF ContentsOK, Contents
  <2>2. /\ e \in Editor /\ e.local \subseteq e.paths /\ e.display = ed.display
        /\ e.snapshot = ed.snapshot /\ e.initialized = ed.initialized /\ e.text \in Texts
    BY <1>1, <2>1 DEF EditorOK, Editor
  <2>3. /\ f \in Editor /\ f.local \subseteq f.paths /\ f.display = ed.display
        /\ f.snapshot = ed.snapshot /\ f.initialized = ed.initialized /\ f.text \in Texts
    BY <2>1, <2>2 DEF Editor
  <2>4. EditorStep(e) \/ EditorStep(f)
    BY <1>11 DEF HandleImport, ChangeStep
  <2>. HIDE DEF e, f
  <2>. QED BY <1>4, <2>2, <2>3, <2>4
<1>12. ASSUME NEW p \in Paths, SelectFile(p)
       PROVE  EditorInv'
  <2>. DEFINE e == [ed EXCEPT !.selected = p]
  <2>1. e \in Editor /\ EditorOK(e, version) /\ e.snapshot = ed.snapshot
    BY <1>1 DEF EditorOK, Editor
  <2>2. EditorOK(PutFetched(e), version) /\ PutFetched(e).snapshot = ed.snapshot
    BY <1>1, <2>1, PutFetchedKeeps
  <2>. QED BY <1>3, <1>12, <2>2 DEF SelectFile
<1>13. ASSUME NEW p \in Paths, OnFileDelete(p)
       PROVE  EditorInv'
  <2>. DEFINE e == [ed EXCEPT !.paths = @ \ {p}, !.local = @ \ {p}, !.edits[p] = None,
                              !.selected = IF @ = p THEN None ELSE @, !.modified = TRUE]
  <2>1. [ed.edits EXCEPT ![p] = None] \in Files
    BY <1>1, FileTypes DEF Editor
  <2>2. /\ e \in Editor /\ e.local \subseteq e.paths /\ e.display = ed.display
        /\ e.snapshot = ed.snapshot /\ e.initialized = ed.initialized /\ e.text = ed.text
    BY <1>1, <2>1 DEF EditorOK, Editor
  <2>3. EditorStep(e)
    BY <1>13 DEF OnFileDelete, ChangeStep
  <2>. QED BY <1>4, <2>2, <2>3
<1>. QED
  BY <1>5, <1>6, <1>7, <1>8, <1>9, <1>10, <1>11, <1>12, <1>13

----------------------------------------------------------------------------
(* Saving *)

\* What is captured at the press: nothing is read yet, and what will be read is there.
LEMMA HandleSaveKeeps ==
  ASSUME ContentsOK, EditorInv, NEW k \in Saves,
         NEW renames \in BOOLEAN, NEW exits \in BOOLEAN, HandleSave(k, renames, exits)
  PROVE  EditorInv'
<1>. DEFINE view == DisplayVersion(cache)
            here == [p \in Paths |-> IF p \in ed.paths THEN ed.edits[p] ELSE None]
            todo == IF view = 0 \/ ~ed.modified THEN {} ELSE ed.paths \ PathsOf(here)
            meant == [p \in Paths |-> IF p \in todo THEN version[view].files[p] ELSE here[p]]
            pc == IF renames THEN "renaming" ELSE IF todo = {} THEN "posting" ELSE "loading"
            s == [pc |-> pc, text |-> ed.text, modified |-> ed.modified, view |-> view,
                  meant |-> meant, tree |-> here, todo |-> todo, exit |-> exits,
                  number |-> 0, joined |-> FALSE]
<1>1. /\ UNCHANGED <<version, published, cache, open, ed, changes>>
      /\ open /\ ed.snapshot # None /\ Becomes(k, s)
  BY DEF HandleSave, HasUnsavedChanges, NoSave, Read
<1>2. /\ TypeOK /\ CacheOK(cache, version) /\ EditorOK(ed, version) /\ ed \in Editor
      /\ 0 .. Len(version) \subseteq Numbers /\ Len(version) \in Nat /\ Grows
  BY <1>1, NumbersStored, SameVersions DEF EditorInv, EditorOK
<1>3. view \in 0 .. Len(version)
  BY <1>2, ShownVersions DEF TypeOK
<1>4. here \in Files /\ todo \subseteq Paths /\ (todo # {} => view \in 1 .. Len(version))
  <2>1. ed.paths \subseteq Paths /\ \A p \in Paths : ed.edits[p] \in Blobs \cup {None}
    BY <1>2, FileTypes DEF Editor
  <2>2. here \in Files
    BY <2>1 DEF Files
  <2>3. todo \subseteq Paths
    BY <2>1
  <2>4. todo # {} => view # 0
    OBVIOUS
  <2>. QED BY <1>2, <1>3, <2>2, <2>3, <2>4
<1>5. meant \in Files
  <2>1. \A p \in todo : version[view].files[p] \in Blobs \cup {None}
    BY <1>4, VersionTypes, FileTypes, <1>2
  <2>2. \A p \in Paths : here[p] \in Blobs \cup {None}
    BY <1>4 DEF Files
  <2>. HIDE DEF todo, here
  <2>. QED BY <2>1, <2>2 DEF Files
<1>6. ed.text \in Texts /\ ed.modified \in BOOLEAN /\ view \in Numbers /\ 0 \in Numbers
  BY <1>1, <1>2, <1>3 DEF EditorOK, Editor
<1>7. /\ s \in Save /\ pc \in {"renaming", "loading", "posting"}
      /\ pc = "posting" => todo = {}
  <2>. HIDE DEF view, here, todo, meant
  <2>1. pc \in {"renaming", "loading", "posting"} /\ (pc = "posting" => todo = {})
    OBVIOUS
  <2>. HIDE DEF pc
  <2>. QED BY <1>4, <1>5, <1>6, <2>1 DEF Save
<1>8. SaveOK(s, version')
  <2>. HIDE DEF view, here, todo, pc
  <2>. QED BY <1>1, <1>4, <1>6, <1>7 DEF SaveOK
<1>9. Shown(s, ed) /\ Listed(s, cache'.list)
  <2>1. s.pc # "refetching"
    BY <1>7
  <2>. QED BY <1>1, <2>1 DEF Shown, Listed
<1>. HIDE DEF s
<1>. QED BY <1>1, <1>2, <1>7, <1>8, <1>9, CacheKept, EditorKept, SaveStep

LEMMA RenamedKeeps ==
  ASSUME ContentsOK, EditorInv, NEW k \in Saves, Renamed(k)
  PROVE  EditorInv'
<1>. DEFINE s == Read(save[k])
<1>1. /\ save[k].pc = "renaming" /\ Becomes(k, s) /\ InvalidateVersions
      /\ UNCHANGED <<version, published, open, ed, changes>>
  BY DEF Renamed
<1>2. /\ TypeOK /\ save[k] \in Save /\ SaveOK(save[k], version) /\ Grows
      /\ open => Shown(save[k], ed)
  BY <1>1, SameVersions DEF EditorInv, TypeOK
<1>3. /\ s \in Save /\ s.pc \in {"loading", "posting"} /\ (s.pc = "posting" => s.todo = {})
      /\ s.text = save[k].text /\ s.view = save[k].view /\ s.meant = save[k].meant
      /\ s.tree = save[k].tree /\ s.todo = save[k].todo /\ s.number = save[k].number
  BY <1>2 DEF Read, Save
<1>. HIDE DEF s
<1>4. SaveOK(s, version')
  BY <1>1, <1>2, <1>3 DEF SaveOK
<1>5. Listed(s, cache'.list) /\ (open => Shown(s, ed))
  BY <1>1, <1>2, <1>3 DEF Listed, Shown
<1>. QED BY <1>1, <1>2, <1>3, <1>4, <1>5, InvalidateKeeps, EditorKept, SaveStep

LEMMA LoadFileKeeps ==
  ASSUME ContentsOK, EditorInv, NEW k \in Saves, NEW p \in Paths, LoadFile(k, p)
  PROVE  EditorInv'
<1>. DEFINE blob == version[save[k].view].files[p]
            loaded == [save[k] EXCEPT !.todo = @ \ {p}, !.tree[p] = blob]
            s == Read(loaded)
<1>1. /\ UNCHANGED <<version, published, cache, open, ed, changes>>
      /\ save[k].pc = "loading" /\ p \in save[k].todo /\ Becomes(k, s)
  BY DEF LoadFile
<1>2. /\ TypeOK /\ save[k] \in Save /\ SaveOK(save[k], version) /\ Grows
      /\ save[k].view \in 1 .. Len(version) /\ save[k].meant[p] = blob
      /\ open => Shown(save[k], ed)
  BY <1>1, SameVersions DEF EditorInv, TypeOK, SaveOK
<1>3. blob \in Blobs \cup {None}
  BY <1>2, VersionTypes, FileTypes
<1>4. [save[k].tree EXCEPT ![p] = blob] \in Files
  BY <1>2, <1>3, FileTypes DEF Save
<1>5. /\ loaded \in Save /\ loaded.pc = "loading" /\ loaded.text = save[k].text
      /\ loaded.view = save[k].view /\ loaded.meant = save[k].meant
      /\ loaded.number = save[k].number /\ loaded.todo = save[k].todo \ {p}
      /\ loaded.tree = [save[k].tree EXCEPT ![p] = blob]
  <2>. HIDE DEF blob
  <2>. QED BY <1>1, <1>2, <1>4 DEF Save
<1>6. /\ s \in Save /\ s.pc \in {"loading", "posting"} /\ (s.pc = "posting" => s.todo = {})
      /\ s.text = loaded.text /\ s.view = loaded.view /\ s.meant = loaded.meant
      /\ s.tree = loaded.tree /\ s.todo = loaded.todo /\ s.number = loaded.number
  <2>. HIDE DEF loaded
  <2>. QED BY <1>5 DEF Read, Save
<1>7. \A q \in Paths : s.tree[q] = IF q = p THEN blob ELSE save[k].tree[q]
  <2>. HIDE DEF blob, loaded, s
  <2>. QED BY <1>2, <1>5, <1>6 DEF Save, Files
<1>8. SaveOK(s, version')
  <2>. HIDE DEF loaded, s
  <2>. QED BY <1>1, <1>2, <1>5, <1>6, <1>7 DEF SaveOK
<1>9. Listed(s, cache'.list) /\ (open => Shown(s, ed))
  <2>. HIDE DEF loaded, s
  <2>. QED BY <1>1, <1>2, <1>6 DEF Listed, Shown
<1>. HIDE DEF s
<1>. QED BY <1>1, <1>2, <1>6, <1>8, <1>9, CacheKept, EditorKept, SaveStep

LEMMA SaveFailsKeeps ==
  ASSUME ContentsOK, EditorInv, NEW k \in Saves, SaveFails(k)
  PROVE  EditorInv'
<1>1. /\ UNCHANGED <<version, published, cache, open, changes>> /\ Becomes(k, NoSave)
      /\ ed' \in {ed, [ed EXCEPT !.editing = FALSE]}
  BY DEF SaveFails
<1>2. TypeOK /\ EditorOK(ed, version) /\ Grows
  BY <1>1, SameVersions DEF EditorInv
<1>3. EditorOK(ed', version') /\ ed'.snapshot = ed.snapshot
  BY <1>1, <1>2 DEF EditorOK, Editor
<1>4. SaveOK(NoSave, version') /\ Shown(NoSave, ed) /\ Listed(NoSave, cache'.list)
  BY BlankTypes DEF SaveOK, Shown, Listed
<1>. QED BY <1>1, <1>2, <1>3, <1>4, BlankTypes, CacheKept, SaveStep

\* The editor remembers what was saved, and by what number it is stored.
LEMMA SaveReturnsKeeps ==
  ASSUME ContentsOK, EditorInv, NEW k \in Saves, SaveReturns(k)
  PROVE  EditorInv'
<1>. DEFINE e == [ed EXCEPT !.snapshot = save[k].text, !.initialized = save[k].number,
                            !.modified = FALSE, !.editing = @ /\ ~save[k].exit]
<1>1. /\ UNCHANGED <<version, published, cache, open, changes>> /\ Becomes(k, NoSave)
      /\ save[k].pc = "refetching"
      /\ ed' = IF open THEN Settled(cache, e) ELSE ed
  BY DEF SaveReturns
<1>2. /\ TypeOK /\ EditorOK(ed, version) /\ ed \in Editor /\ CacheOK(cache, version) /\ Grows
      /\ 0 .. Len(version) \subseteq Numbers /\ Len(version) \in Nat
  BY <1>1, NumbersStored, SameVersions DEF EditorInv, EditorOK
<1>3. /\ save[k].text \in Texts /\ save[k].number \in 1 .. Len(version)
      /\ version[save[k].number].text = Sanitized[save[k].text]
      /\ open => ed.snapshot # None
  BY <1>1 DEF EditorInv, SaveOK, Shown
<1>4. open => EditorOK(e, version) /\ e.snapshot # None
  <2>1. save[k].exit \in BOOLEAN
    BY <1>2 DEF TypeOK, Save
  <2>2. (ed.editing /\ ~save[k].exit) \in BOOLEAN /\ save[k].number \in Numbers
    BY <1>2, <1>3, <2>1 DEF Editor
  <2>3. e \in Editor
    BY <1>2, <1>3, <2>2 DEF Editor
  <2>4. /\ e.snapshot = save[k].text /\ e.initialized = save[k].number /\ e.text = ed.text
        /\ e.local = ed.local /\ e.paths = ed.paths /\ e.display = ed.display
    BY <1>2 DEF Editor
  <2>. HIDE DEF e
  <2>5. Stands(e.snapshot, e.initialized, version)
    BY <1>3, <2>4 DEF Stands
  <2>. QED BY <1>2, <1>3, <2>3, <2>4, <2>5 DEF EditorOK, ContentsOK
<1>5. EditorOK(ed', version') /\ (open => ed'.snapshot # None)
  <2>. HIDE DEF e
  <2>. QED BY <1>1, <1>2, <1>4, SettledKeeps
<1>6. SaveOK(NoSave, version') /\ Shown(NoSave, ed) /\ Listed(NoSave, cache'.list)
  BY BlankTypes DEF SaveOK, Shown, Listed
<1>. QED BY <1>1, <1>2, <1>5, <1>6, BlankTypes, CacheKept, SaveStep

\* The list is invalidated, so that it counts as out of date unless it has the version.
LEMMA SaveAnsweredKeeps ==
  ASSUME ContentsOK, EditorInv, NEW k \in Saves, SaveAnswered(k)
  PROVE  EditorInv'
<1>. DEFINE s == [save[k] EXCEPT !.pc = "refetching",
                                 !.joined = cache.list.data = None /\ cache.list.fetch # None]
<1>1. /\ save[k].pc = "answered" /\ Becomes(k, s) /\ InvalidateVersions
      /\ UNCHANGED <<version, published, open, ed, changes>>
  BY DEF SaveAnswered
<1>2. /\ TypeOK /\ save[k] \in Save /\ SaveOK(save[k], version) /\ Grows
      /\ Len(version) \in Nat /\ (open => Shown(save[k], ed))
  BY <1>1, SameVersions DEF EditorInv, TypeOK
<1>3. /\ s \in Save /\ s.pc = "refetching" /\ s.text = save[k].text
      /\ s.number = save[k].number /\ s.modified = save[k].modified /\ s.meant = save[k].meant
      /\ cache.list.data = None /\ cache.list.fetch # None => s.joined
  BY <1>2 DEF Save
<1>. HIDE DEF s
<1>4. SaveOK(s, version')
  BY <1>1, <1>2, <1>3 DEF SaveOK
<1>5. open => Shown(s, ed)
  BY <1>1, <1>2, <1>3 DEF Shown
<1>6. s.number \in 0 .. Len(version)
  BY <1>1, <1>2, <1>3 DEF SaveOK
<1>. QED
  BY <1>1, <1>2, <1>3, <1>4, <1>5, <1>6, InvalidateKeeps, EditorKept, SaveStep

----------------------------------------------------------------------------
(* Versions are added, and published *)

LEMMA OthersSaveKeeps ==
  ASSUME ContentsOK, EditorInv, OthersSave
  PROVE  EditorInv'
<1>1. /\ Insert(OtherVersion) /\ OtherVersion \in Contents
      /\ UNCHANGED <<published, cache, open, ed, saves, changes>>
  BY DEF OthersSave, ContentsOK
<1>2. /\ Grows /\ Len(version) \in Nat /\ Len(version') = Len(version) + 1
  BY <1>1, InsertGrows DEF EditorInv
<1>3. published' \in 0 .. Len(version') /\ open' \in BOOLEAN /\ changes' \in 0 .. MaxChanges
  BY <1>1, <1>2 DEF EditorInv, TypeOK
<1>. QED BY <1>1, <1>2, <1>3, CacheKept, EditorKept, PageStep

\* What was meant is stored: all of it was read.
LEMMA CreateVersionKeeps ==
  ASSUME ContentsOK, EditorInv, NEW k \in Saves, CreateVersion(k)
  PROVE  EditorInv'
<1>. DEFINE newest == IF version = << >> THEN [text |-> None, files |-> NoFiles]
                      ELSE version[Len(version)]
            content == [text |-> Sanitized[save[k].text],
                        files |-> IF save[k].modified THEN save[k].tree ELSE newest.files]
            s == [save[k] EXCEPT !.pc = "answered", !.number = Len(version'),
                                 !.tree = NoFiles, !.view = 0]
<1>1. /\ UNCHANGED <<published, cache, open, ed, changes>>
      /\ save[k].pc = "posting" /\ Insert(content) /\ Becomes(k, s)
  BY DEF CreateVersion
<1>2. /\ TypeOK /\ SaveOK(save[k], version) /\ save[k] \in Save
      /\ save[k].tree \in Files /\ save[k].meant \in Files /\ save[k].text \in Texts
      /\ open => Shown(save[k], ed)
  BY <1>1 DEF EditorInv, TypeOK, SaveOK, Save
<1>3. newest.files \in Files
  <2>1. version # << >> => Len(version) \in 1 .. Len(version)
    BY <1>2, EmptySeq DEF TypeOK
  <2>. QED BY <1>2, <2>1, VersionTypes, FileTypes
<1>4. content \in Contents
  <2>1. Sanitized[save[k].text] \in Texts
    BY <1>2 DEF ContentsOK
  <2>. HIDE DEF newest
  <2>. QED BY <1>2, <1>3, <2>1 DEF Contents
<1>5. save[k].tree = save[k].meant
  <2>1. \A p \in Paths : save[k].tree[p] = save[k].meant[p]
    BY <1>1, <1>2 DEF SaveOK
  <2>. QED BY <1>2, <2>1 DEF Files
<1>6. /\ content.text = Sanitized[save[k].text]
      /\ save[k].modified => content.files = save[k].meant
  BY <1>5
<1>. HIDE DEF content
<1>7. /\ Grows /\ Len(version) \in Nat /\ Len(version') = Len(version) + 1
      /\ Len(version') <= MaxVersions /\ version'[Len(version')] = content
  BY <1>1, <1>2, <1>4, InsertGrows DEF Grows
<1>8. Len(version') \in Numbers /\ 0 \in Numbers
  <2>1. MaxVersions \in Nat
    BY DEF ContentsOK
  <2>. QED BY <1>7, <2>1 DEF Numbers
<1>9. /\ s \in Save /\ s.pc = "answered" /\ s.number = Len(version')
      /\ s.text = save[k].text /\ s.modified = save[k].modified
      /\ s.meant = save[k].meant
  BY <1>1, <1>2, <1>8, FileTypes DEF Save
<1>. HIDE DEF s
<1>10. SaveOK(s, version')
  BY <1>2, <1>6, <1>7, <1>9 DEF SaveOK
<1>11. Listed(s, cache'.list) /\ (open => Shown(s, ed))
  BY <1>1, <1>2, <1>9 DEF Listed, Shown
<1>. QED BY <1>1, <1>7, <1>9, <1>10, <1>11, CacheKept, EditorKept, SaveStep

LEMMA PublishKeeps ==
  ASSUME ContentsOK, EditorInv, OthersPublish \/ HandlePublish
  PROVE  EditorInv'
<1>1. /\ UNCHANGED <<version, open, ed, saves, changes>> /\ published' = Len(version)
      /\ UNCHANGED cache \/ InvalidateVersions
  BY DEF OthersPublish, HandlePublish
<1>2. Grows
  BY <1>1, SameVersions DEF EditorInv
<1>3. published' \in 0 .. Len(version') /\ open' \in BOOLEAN /\ changes' \in 0 .. MaxChanges
  BY <1>1 DEF EditorInv, TypeOK
<1>4. CacheOK(cache', version') /\ (open => \A k \in Saves : Listed(save[k], cache'.list))
  BY <1>1, <1>2, CacheKept, InvalidateKeeps
<1>. QED BY <1>1, <1>2, <1>3, <1>4, EditorKept, PageStep

LEMMA LeaveKeeps ==
  ASSUME ContentsOK, EditorInv, Leave
  PROVE  EditorInv'
<1>1. /\ UNCHANGED <<version, published, saves>> /\ open' = FALSE /\ ed' = BlankEditor
      /\ cache' = NoCache /\ changes' = 0
  BY DEF Leave
<1>2. Grows /\ Len(version) \in Nat /\ published' \in 0 .. Len(version')
  BY <1>1, SameVersions DEF EditorInv, TypeOK
<1>3. CacheOK(cache', version') /\ EditorOK(ed', version')
  BY <1>1, <1>2, BlankTypes DEF CacheOK, EditorOK
<1>4. 0 \in 0 .. MaxChanges
  BY DEF ContentsOK
<1>. QED BY <1>1, <1>2, <1>3, <1>4, PageStep

----------------------------------------------------------------------------

LEMMA NextEditor == ASSUME ContentsOK, EditorInv, [Next]_vars PROVE EditorInv'
<1>1. CASE UNCHANGED vars
  <2>1. Grows /\ published' \in 0 .. Len(version') /\ open' \in BOOLEAN
        /\ changes' \in 0 .. MaxChanges
    BY <1>1, SameVersions DEF EditorInv, TypeOK
  <2>. QED BY <1>1, <2>1, CacheKept, EditorKept, PageStep
<1>2. CASE OthersSave
  BY <1>2, OthersSaveKeeps
<1>3. CASE OthersPublish \/ HandlePublish
  BY <1>3, PublishKeeps
<1>4. CASE RefetchSkill \/ VersionsRead \/ VersionsArrive \/ VersionsFail \/ LoadLatest
  BY <1>4, QueriesKeep
<1>5. CASE \/ HandleEnterEdit \/ PressEscape \/ HandleCancelEdit \/ EditText \/ EditFile
           \/ OnFileAdd \/ HandleImport
           \/ \E p \in Paths : SelectFile(p) \/ OnFileDelete(p)
  BY <1>5, EditingKeeps
<1>6. CASE Leave
  BY <1>6, LeaveKeeps
<1>7. CASE \E k \in Saves :
              \/ \E renames, exits \in BOOLEAN : HandleSave(k, renames, exits)
              \/ \E p \in Paths : LoadFile(k, p)
              \/ Renamed(k) \/ CreateVersion(k) \/ SaveFails(k) \/ SaveAnswered(k)
              \/ SaveReturns(k)
  BY <1>7, HandleSaveKeeps, LoadFileKeeps, RenamedKeeps, CreateVersionKeeps, SaveFailsKeeps,
     SaveAnsweredKeeps, SaveReturnsKeeps
<1>. QED
  BY <1>1, <1>2, <1>3, <1>4, <1>5, <1>6, <1>7 DEF Next

\* In every reachable state what the editor compares with is what the page makes of the
\* stored text of the version it remembers, or what was stored as that version; and what a
\* save has read is what the editor showed when it was pressed (SkillViewPage.tsx).
THEOREM EditorInvariant == ContentsOK => (Spec => []EditorInv)
<1>. SUFFICES ASSUME ContentsOK
              PROVE  Spec => []EditorInv
  OBVIOUS
<1>1. Init => EditorInv
  BY InitEditor
<1>2. EditorInv /\ [Next]_vars => EditorInv'
  BY NextEditor
<1>. QED BY <1>1, <1>2, PTL DEF Spec

\* The variables of the page have their types.
THEOREM TypeCorrect == ContentsOK => (Spec => []TypeOK)
<1>1. EditorInv => TypeOK
  BY DEF EditorInv
<1>. QED BY <1>1, EditorInvariant, PTL

\* The page offers nothing to save only if its text is what it makes of a stored version or
\* what was stored as one, sanitized, whatever was refetched, saved, cancelled or typed
\* before, and however many saves are under way.
THEOREM CleanIsStored == ContentsOK => (Spec => []CleanMeansStored)
<1>1. EditorInv => CleanMeansStored
  BY DEF EditorInv, EditorOK, Stands, CleanMeansStored
<1>. QED BY <1>1, EditorInvariant, PTL

\* A save stores what the editor showed when it was pressed, its text sanitized, though
\* files are read one after the other, and others save, publish and type meanwhile, and
\* more saves are started (handleSave, create_version).
THEOREM SavesAreAsSubmitted == ContentsOK => (Spec => []SavedAsSubmitted)
<1>1. EditorInv => SavedAsSubmitted
  <2>. SUFFICES ASSUME EditorInv, NEW k \in Saves
                PROVE  LET s == save[k]
                       IN  /\ s.pc = "posting" => s.tree = s.meant
                           /\ s.number # 0 =>
                                LET stored == version[s.number]
                                IN  /\ stored.text = Sanitized[s.text]
                                    /\ s.modified => stored.files = s.meant
    BY DEF SavedAsSubmitted
  <2>1. SaveOK(save[k], version) /\ save[k].tree \in Files /\ save[k].meant \in Files
    BY DEF EditorInv, TypeOK, Save
  <2>2. ASSUME save[k].pc = "posting"
        PROVE  save[k].tree = save[k].meant
    <3>1. \A p \in Paths : save[k].tree[p] = save[k].meant[p]
      BY <2>1, <2>2 DEF SaveOK
    <3>. QED BY <2>1, <3>1 DEF Files
  <2>. QED BY <2>1, <2>2 DEF SaveOK
<1>. QED BY <1>1, EditorInvariant, PTL

\* When the page reports that a version was saved, its list of versions has it, or counts
\* as out of date, or is that of the first fetch the save found under way (useCreateVersion).
THEOREM ReportedSavesAreListed == ContentsOK => (Spec => SavedVersionIsListed)
<1>. SUFFICES ASSUME ContentsOK
              PROVE  Spec => SavedVersionIsListed
  OBVIOUS
<1>1. ASSUME EditorInv, open, NEW k \in Saves, save[k].pc = "refetching"
      PROVE  Latest(cache) >= save[k].number \/ cache.list.stale \/ save[k].joined
  <2>1. /\ SaveOK(save[k], version) /\ Listed(save[k], cache.list)
        /\ CacheOK(cache, version) /\ Len(version) \in Nat
    BY <1>1 DEF EditorInv, TypeOK
  <2>2. save[k].number \in 1 .. Len(version)
    BY <1>1, <2>1 DEF SaveOK
  <2>. QED BY <1>1, <2>1, <2>2 DEF Listed, CacheOK, Latest
<1>2. EditorInv /\ [Next]_vars
        => [\A k \in Saves :
               save[k].pc = "refetching" /\ save'[k].pc = "idle" /\ open =>
                   \/ Latest(cache) >= save[k].number
                   \/ cache.list.stale
                   \/ save[k].joined]_vars
  BY <1>1
<1>. QED BY <1>2, EditorInvariant, PTL DEF Spec, SavedVersionIsListed

================================================================================
