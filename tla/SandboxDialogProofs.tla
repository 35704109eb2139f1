-------------------------- MODULE SandboxDialogProofs --------------------------
(***************************************************************************)
(* Proofs about the sandbox dialog: about SkillMiniIde, for any files, any *)
(* number of versions and any edits; about InputsForm, for any schema; and *)
(* about ExecutionDebugger, for any number of requests.                    *)
(***************************************************************************)
EXTENDS SandboxDialog, SequenceTheorems, FiniteSetTheorems, WellFoundedInduction, TLAPS

USE DEF vars, server

----------------------------------------------------------------------------
(* The Mini IDE *)

\* What the authors write are files with contents.
ContentsOK ==
    /\ MaxVersions \in Nat \ {0}
    /\ None \notin Paths
    /\ FirstTree \in Trees /\ OtherTrees \subseteq Trees
    /\ Written \subseteq Blobs

\* The numbers that the server and the dialog refer to are those of versions.
NumbersOK == spec <= Len(version) /\ seen.spec <= Len(version)

\* The edit of the press, or else the file of the version that was in the IDE then.
Merged(p) ==
    LET base == version[save.base]
    IN  IF base[p] # None /\ save.edits[p] # None THEN save.edits[p] ELSE base[p]

\* The files that were read are those of the version in the IDE when Save was pressed,
\* and those to be read are among its files; or no list was loaded, and there is none.
SaveOK ==
    save.pc # "idle" =>
        /\ save.base \in 1 .. Len(version)
        /\ save.pc # "loading" => save.todo = {}
        /\ \/ save.todo = {} /\ save.tree = NoFiles
           \/ \A p \in Paths : IF p \in save.todo THEN version[save.base][p] # None
                               ELSE save.tree[p] = Merged(p)

IdeInv == TypeOK /\ NumbersOK /\ SaveOK

----------------------------------------------------------------------------

LEMMA TreeTypes ==
  /\ NoFiles \in Trees
  /\ \A tree \in Trees, p \in Paths : tree[p] \in Blobs \cup {None}
  /\ \A tree \in Trees, p \in Paths, b \in Blobs \cup {None} :
        [tree EXCEPT ![p] = b] \in Trees
BY DEF Trees, NoFiles

LEMMA FreshTypes ==
  ASSUME ContentsOK
  PROVE  /\ FreshIde \in [path : Paths \cup {None}, edits : Trees]
         /\ FreshAi \in [streaming : BOOLEAN, path : Paths \cup {None},
                         draft : Blobs \cup {None}]
         /\ NoSave \in Save /\ NoSave.pc = "idle"
         /\ NoRerun \in Rerun
BY TreeTypes DEF ContentsOK, FreshIde, FreshAi, NoSave, Save, NoRerun, Rerun, Numbers

LEMMA InitIde == ASSUME ContentsOK, Init PROVE IdeInv
<1>1. version = << FirstTree >> /\ Len(version) = 1 /\ version \in Seq(Trees)
  BY DEF ContentsOK, Init
<1>2. TypeOK
  <2>1. 1 \in 1 .. MaxVersions /\ 0 \in Numbers /\ 1 \in Numbers
    BY DEF ContentsOK, Numbers
  <2>2. seen \in [spec : Numbers, files : Numbers]
    BY <2>1 DEF Init
  <2>3. published \in 1 .. Len(version) /\ spec \in Numbers
    BY <1>1, <2>1 DEF Init
  <2>4. open \in BOOLEAN
    BY DEF Init
  <2>. QED BY <1>1, <2>1, <2>2, <2>3, <2>4, FreshTypes DEF Init, TypeOK
<1>3. NumbersOK
  BY <1>1 DEF Init, NumbersOK
<1>. QED BY <1>2, <1>3, FreshTypes DEF Init, IdeInv, SaveOK

\* A version that is added leaves the others as they are.
LEMMA InsertKeeps ==
  ASSUME ContentsOK, IdeInv, NEW tree \in Trees, Insert(tree)
  PROVE  /\ version' \in Seq(Trees) /\ Len(version') \in 1 .. MaxVersions
         /\ Len(version') = Len(version) + 1
         /\ \A n \in 1 .. Len(version) : version'[n] = version[n]
BY DEF ContentsOK, IdeInv, TypeOK, Insert

\* What a save says of its version stays true while versions are only added.
LEMMA SaveKept ==
  ASSUME SaveOK, Len(version) \in Nat, Len(version') \in Nat, Len(version') >= Len(version),
         \A n \in 1 .. Len(version) : version'[n] = version[n],
         \/ save'.pc = "idle"
         \/ /\ save.pc # "idle" /\ save'.base = save.base /\ save'.edits = save.edits
            /\ save'.todo = save.todo /\ save'.tree = save.tree
            /\ save'.pc = "loading" \/ save.todo = {}
  PROVE  SaveOK'
<1>. SUFFICES ASSUME save'.pc # "idle" PROVE SaveOK'
  BY DEF SaveOK
<1>1. version'[save'.base] = version[save.base] /\ save'.base \in 1 .. Len(version')
  BY DEF SaveOK
<1>2. \A p : Merged(p)' = Merged(p)
  BY <1>1 DEF Merged
<1>. QED BY <1>1, <1>2 DEF SaveOK

\* A step that leaves the versions and the save alone.
LEMMA Elsewhere ==
  ASSUME ContentsOK, IdeInv, version' = version, save' = save \/ save'.pc = "idle",
         TypeOK', NumbersOK'
  PROVE  IdeInv'
<1>1. SaveOK'
  BY SaveKept DEF IdeInv, TypeOK, SaveOK
<1>. QED BY <1>1 DEF IdeInv

----------------------------------------------------------------------------
(* The steps of the server and the queries *)

LEMMA OthersSaveKeeps ==
  ASSUME ContentsOK, IdeInv, NEW tree \in OtherTrees, OthersSave(tree)
  PROVE  IdeInv'
<1>1. UNCHANGED <<published, spec, seen, open, ide, save, rerun, ai>>
      /\ tree \in Trees /\ Insert(tree)
  BY DEF ContentsOK, OthersSave
<1>2. /\ version' \in Seq(Trees) /\ Len(version') \in 1 .. MaxVersions
      /\ Len(version') = Len(version) + 1 /\ Len(version) \in Nat
      /\ \A n \in 1 .. Len(version) : version'[n] = version[n]
  BY <1>1, InsertKeeps DEF IdeInv, TypeOK
<1>3. published \in 1 .. Len(version')
  BY <1>2 DEF IdeInv, TypeOK
<1>4. TypeOK'
  BY <1>1, <1>2, <1>3 DEF IdeInv, TypeOK
<1>5. NumbersOK'
  BY <1>1, <1>2 DEF IdeInv, NumbersOK, TypeOK, Numbers
<1>6. SaveOK'
  BY <1>1, <1>2, SaveKept DEF IdeInv, SaveOK
<1>. QED BY <1>4, <1>5, <1>6 DEF IdeInv

\* The spec's version is a published one.
LEMMA SpecKeeps ==
  ASSUME ContentsOK, IdeInv, PublishVersion \/ RefreshSpec \/ HandleToggleExecution
  PROVE  IdeInv'
<1>1. UNCHANGED <<version, open, ide, save, rerun, ai>>
  BY DEF PublishVersion, RefreshSpec, HandleToggleExecution
<1>2. Len(version) \in 1 .. MaxVersions /\ MaxVersions \in Nat /\ 1 .. Len(version) \subseteq Numbers
  BY DEF ContentsOK, IdeInv, TypeOK, Numbers
<1>3. published' \in 1 .. Len(version) /\ spec' \in Numbers /\ spec' <= Len(version)
  BY <1>2 DEF PublishVersion, RefreshSpec, HandleToggleExecution, IdeInv, TypeOK, NumbersOK, Numbers
<1>4. seen' \in [spec : Numbers, files : Numbers] /\ seen'.spec <= Len(version)
  BY <1>2, <1>3
  DEF PublishVersion, RefreshSpec, HandleToggleExecution, IdeInv, TypeOK, NumbersOK
<1>5. TypeOK' /\ NumbersOK'
  BY <1>1, <1>3, <1>4 DEF IdeInv, TypeOK, NumbersOK
<1>. QED BY <1>1, <1>5, Elsewhere

\* Loading the list, opening and closing move the selection and the edits only.
LEMMA DialogKeeps ==
  ASSUME ContentsOK, IdeInv, LoadFiles \/ Open \/ Close
  PROVE  IdeInv'
<1>1. UNCHANGED <<version, published, spec, rerun>> /\ open' \in BOOLEAN
  BY DEF LoadFiles, Open, Close, IdeInv, TypeOK
<1>2. /\ seen' \in [spec : Numbers, files : Numbers] /\ seen'.spec = seen.spec
      /\ ai' \in [streaming : BOOLEAN, path : Paths \cup {None}, draft : Blobs \cup {None}]
  BY FreshTypes DEF LoadFiles, Open, Close, IdeInv, TypeOK, IdeBase
<1>3. \A p \in Paths :
         [ide EXCEPT !.path = p] \in [path : Paths \cup {None}, edits : Trees]
  BY DEF IdeInv, TypeOK
<1>4. IdeFiles \subseteq Paths /\ \A n : FilesOf(version[n]) \subseteq Paths
  BY DEF IdeFiles, FilesOf
<1>5. ide' \in [path : Paths \cup {None}, edits : Trees]
  BY <1>3, <1>4, FreshTypes DEF LoadFiles, Open, Close, IdeInv, TypeOK
<1>6. save' \in Save /\ save'.pc = save.pc /\ save'.base = save.base
      /\ save'.edits = save.edits /\ save'.todo = save.todo /\ save'.tree = save.tree
  BY DEF LoadFiles, Open, Close, IdeInv, TypeOK, Save
<1>7. TypeOK' /\ NumbersOK'
  BY <1>1, <1>2, <1>5, <1>6 DEF IdeInv, TypeOK, NumbersOK
<1>8. SaveOK'
  BY <1>1, <1>6, SaveKept DEF IdeInv, TypeOK, SaveOK
<1>. QED BY <1>7, <1>8 DEF IdeInv

----------------------------------------------------------------------------
(* Editing and the AI assist *)

LEMMA EditingKeeps ==
  ASSUME ContentsOK, IdeInv,
         \/ \E p \in Paths : SelectFile(p)
         \/ \E b \in Written : HandleEdit(b) \/ StreamEnds(b)
         \/ \E b \in Written \cup {None} : StreamStops(b)
         \/ HandleResetFile \/ StartStream \/ HandleAccept \/ HandleReject
  PROVE  IdeInv'
<1>1. UNCHANGED <<version, published, spec, seen, open, save, rerun>>
  BY DEF SelectFile, HandleEdit, StreamEnds, StreamStops, HandleResetFile, StartStream,
         HandleAccept, HandleReject
<1>2. /\ ide.path \in Paths \cup {None} /\ ide.edits \in Trees
      /\ ai.path \in Paths \cup {None} /\ ai.draft \in Blobs \cup {None}
      /\ Written \subseteq Blobs
  BY DEF ContentsOK, IdeInv, TypeOK
<1>3. \A p \in Paths, b \in Blobs \cup {None} :
         /\ [ide EXCEPT !.edits[p] = b] \in [path : Paths \cup {None}, edits : Trees]
         /\ [ide EXCEPT !.path = p] \in [path : Paths \cup {None}, edits : Trees]
  BY DEF IdeInv, TypeOK, Trees
<1>4. ide' \in [path : Paths \cup {None}, edits : Trees]
  <2>1. CASE \E p \in Paths : SelectFile(p)
    BY <1>3, <2>1 DEF SelectFile
  <2>2. CASE (\E b \in Written : HandleEdit(b)) \/ HandleResetFile
    <3>1. IdeFiles \subseteq Paths
      BY DEF IdeFiles, FilesOf
    <3>2. PICK p \in Paths, b \in Blobs \cup {None} : ide' = [ide EXCEPT !.edits[p] = b]
      <4>1. ASSUME HandleResetFile
            PROVE  ide' = [ide EXCEPT !.edits[ide.path] = None] /\ ide.path \in Paths
        BY <1>2, <4>1 DEF HandleResetFile
      <4>2. ASSUME NEW b \in Written, HandleEdit(b)
            PROVE  ide' = [ide EXCEPT !.edits[ide.path] = b] /\ ide.path \in Paths
        BY <3>1, <4>2 DEF HandleEdit
      <4>. QED BY <1>2, <2>2, <4>1, <4>2
    <3>. QED BY <1>3, <3>2
  <2>3. CASE \E b \in Written : StreamEnds(b)
    <3>1. PICK b \in Written : ide' = [ide EXCEPT !.edits[ai.path] = b]
      BY <2>3 DEF StreamEnds
    <3>2. [ide EXCEPT !.edits[None] = b] = ide
      BY DEF ContentsOK, IdeInv, TypeOK, Trees
    <3>. QED BY <1>2, <1>3, <3>1, <3>2 DEF IdeInv, TypeOK
  <2>4. CASE \/ \E b \in Written \cup {None} : StreamStops(b)
             \/ StartStream \/ HandleReject
    BY <2>4 DEF StreamStops, StartStream, HandleReject, IdeInv, TypeOK
  <2>5. CASE HandleAccept
    BY <1>2, <1>3, <2>5 DEF HandleAccept
  <2>. QED BY <2>1, <2>2, <2>3, <2>4, <2>5
<1>6. ai' \in [streaming : BOOLEAN, path : Paths \cup {None}, draft : Blobs \cup {None}]
  <2>1. CASE \E b \in Written \cup {None} : StreamStops(b)
    BY <1>2, <2>1 DEF StreamStops, FreshAi
  <2>2. CASE \E b \in Written : StreamEnds(b)
    BY <1>2, <2>2 DEF StreamEnds, FreshAi
  <2>3. CASE StartStream
    BY <1>2, <2>3 DEF StartStream
  <2>4. CASE HandleAccept \/ HandleReject
    BY <2>4, FreshTypes DEF HandleAccept, HandleReject
  <2>5. CASE ai' = ai
    BY <2>5 DEF IdeInv, TypeOK
  <2>. QED BY <2>1, <2>2, <2>3, <2>4, <2>5 DEF SelectFile, HandleEdit, HandleResetFile
<1>7. TypeOK' /\ NumbersOK'
  BY <1>1, <1>4, <1>6 DEF IdeInv, TypeOK, NumbersOK
<1>. QED BY <1>1, <1>7, Elsewhere

----------------------------------------------------------------------------
(* Saving *)

LEMMA PerformSaveKeeps ==
  ASSUME ContentsOK, IdeInv, NEW thenRerun \in BOOLEAN, PerformSave(thenRerun)
  PROVE  IdeInv'
<1>1. UNCHANGED <<version, published, spec, seen, open, ide, rerun, ai>>
      /\ save' = [pc |-> "loading", base |-> IdeBase, edits |-> ide.edits,
                  todo |-> IdeFiles, tree |-> NoFiles, rerun |-> thenRerun,
                  mounted |-> TRUE, number |-> 0]
      /\ IdeBase # 0
  BY DEF PerformSave
<1>2. IdeBase \in Numbers /\ IdeBase \in 1 .. Len(version)
  BY <1>1 DEF IdeBase, IdeInv, TypeOK, NumbersOK, Numbers
<1>3. IdeFiles \subseteq Paths /\ ide.edits \in Trees
  BY DEF IdeFiles, FilesOf, IdeInv, TypeOK
<1>4. save' \in Save
  BY <1>1, <1>2, <1>3, TreeTypes, FreshTypes DEF Save, NoSave
<1>5. TypeOK' /\ NumbersOK'
  BY <1>1, <1>4 DEF IdeInv, TypeOK, NumbersOK
<1>6. CASE Listed
  <2>1. \A p \in Paths : p \in save'.todo <=> version'[save'.base][p] # None
    BY <1>1, <1>6 DEF IdeFiles, FilesOf
  <2>2. \A p \in Paths : version'[save'.base][p] = None => save'.tree[p] = Merged(p)'
    BY <1>1 DEF NoFiles, Merged
  <2>. QED BY <1>1, <1>2, <1>5, <2>1, <2>2 DEF IdeInv, SaveOK
<1>7. CASE ~Listed
  BY <1>1, <1>2, <1>5, <1>7 DEF IdeFiles, IdeInv, SaveOK
<1>. QED BY <1>6, <1>7

LEMMA LoadFileKeeps ==
  ASSUME ContentsOK, IdeInv, NEW p \in Paths, LoadFile(p)
  PROVE  IdeInv'
<1>1. UNCHANGED <<version, published, spec, seen, open, ide, rerun, ai>>
      /\ save.pc = "loading" /\ p \in save.todo
  BY DEF LoadFile
<1>2. PICK text : text = IF save.edits[p] # None THEN save.edits[p]
                         ELSE version[save.base][p]
  OBVIOUS
<1>3. save' = [save EXCEPT !.todo = @ \ {p}, !.tree[p] = text]
  BY <1>2 DEF LoadFile
<1>4. /\ save \in Save /\ save.base \in 1 .. Len(version)
      /\ \A q \in Paths : IF q \in save.todo THEN version[save.base][q] # None
                          ELSE save.tree[q] = Merged(q)
  BY <1>1 DEF IdeInv, SaveOK, TypeOK
<1>5. save.tree \in Trees /\ save.edits \in Trees /\ version[save.base] \in Trees
  BY <1>4 DEF IdeInv, TypeOK, Save
<1>6. text \in Blobs \cup {None} /\ text = Merged(p)
  BY <1>1, <1>2, <1>4, <1>5, TreeTypes DEF Merged
<1>7. /\ save'.pc = save.pc /\ save'.base = save.base /\ save'.edits = save.edits
      /\ save'.todo = save.todo \ {p}
      /\ save'.tree = [save.tree EXCEPT ![p] = text]
      /\ save'.rerun = save.rerun /\ save'.mounted = save.mounted
      /\ save'.number = save.number
  BY <1>3, <1>4 DEF Save
<1>8. save' \in Save
  <2>1. [save.tree EXCEPT ![p] = text] \in Trees
    BY <1>5, <1>6, TreeTypes
  <2>. QED BY <1>3, <1>4, <2>1 DEF Save
<1>9. TypeOK' /\ NumbersOK'
  BY <1>1, <1>8 DEF IdeInv, TypeOK, NumbersOK
<1>10. \A q \in Paths : Merged(q)' = Merged(q)
  BY <1>1, <1>7 DEF Merged
<1>11. \A q \in Paths : IF q \in save'.todo THEN version[save.base][q] # None
                        ELSE save'.tree[q] = Merged(q)
  BY <1>4, <1>5, <1>6, <1>7 DEF Trees
<1>12. SaveOK'
  BY <1>1, <1>4, <1>7, <1>10, <1>11 DEF SaveOK
<1>. QED BY <1>9, <1>12 DEF IdeInv

\* What was read is what is posted.
LEMMA PostKeeps ==
  ASSUME ContentsOK, IdeInv, PostVersion
  PROVE  IdeInv'
<1>1. UNCHANGED <<version, published, spec, seen, open, ide, rerun, ai>>
      /\ save' = [save EXCEPT !.pc = "posting"] /\ save.pc = "loading" /\ save.todo = {}
  BY DEF PostVersion
<1>2. /\ save' \in Save /\ save'.base = save.base /\ save'.edits = save.edits
      /\ save'.todo = save.todo /\ save'.tree = save.tree
  BY <1>1 DEF IdeInv, TypeOK, Save
<1>3. TypeOK' /\ NumbersOK'
  BY <1>1, <1>2 DEF IdeInv, TypeOK, NumbersOK
<1>4. SaveOK'
  BY <1>1, <1>2, SaveKept DEF IdeInv, TypeOK
<1>. QED BY <1>3, <1>4 DEF IdeInv

LEMMA ServerSavesKeeps ==
  ASSUME ContentsOK, IdeInv, ServerSaves
  PROVE  IdeInv'
<1>1. UNCHANGED <<published, spec, seen, open, ide, rerun, ai>>
      /\ save' = [save EXCEPT !.pc = "saved", !.number = Len(version')]
      /\ save.pc = "posting" /\ Insert(save.tree)
  BY DEF ServerSaves
<1>0. save.tree \in Trees
  BY DEF IdeInv, TypeOK, Save
<1>3. /\ version' \in Seq(Trees) /\ Len(version') \in 1 .. MaxVersions
      /\ Len(version') = Len(version) + 1 /\ Len(version) \in Nat
      /\ \A n \in 1 .. Len(version) : version'[n] = version[n]
  BY <1>0, <1>1, InsertKeeps DEF IdeInv, TypeOK
<1>2. /\ save' \in Save /\ save'.base = save.base /\ save'.edits = save.edits
      /\ save'.todo = save.todo /\ save'.tree = save.tree
  <2>1. Len(version') \in Numbers
    BY <1>3 DEF ContentsOK, Numbers
  <2>. QED BY <1>1, <2>1 DEF IdeInv, TypeOK, Save
<1>4. TypeOK' /\ NumbersOK'
  BY <1>1, <1>2, <1>3 DEF IdeInv, TypeOK, NumbersOK, Numbers
<1>5. SaveOK'
  BY <1>1, <1>2, <1>3, SaveKept DEF IdeInv, SaveOK
<1>. QED BY <1>4, <1>5 DEF IdeInv

LEMMA SaveEndsKeeps ==
  ASSUME ContentsOK, IdeInv, SaveFails \/ SaveReturns \/ RunsAgain
  PROVE  IdeInv'
<1>1. UNCHANGED <<version, published, spec, seen, open, ai>> /\ save' \in {save, NoSave}
  BY DEF SaveFails, SaveReturns, RunsAgain
<1>2. ide' \in [path : Paths \cup {None}, edits : Trees]
  BY TreeTypes DEF SaveFails, SaveReturns, RunsAgain, IdeInv, TypeOK
<1>3. Len(version) \in Numbers /\ published \in Numbers
  BY DEF ContentsOK, IdeInv, TypeOK, Numbers
<1>4. rerun' \in Rerun
  <2>1. 0 \in Numbers /\ rerun \in Rerun
    BY DEF ContentsOK, IdeInv, TypeOK, Numbers
  <2>2. [fix |-> save.number, ran |-> 0] \in Rerun
    BY <2>1 DEF Rerun, IdeInv, TypeOK, Save
  <2>3. [rerun EXCEPT !.ran = published] \in Rerun
    BY <1>3, <2>1 DEF Rerun
  <2>. QED BY <2>1, <2>2, <2>3, FreshTypes DEF SaveFails, SaveReturns, RunsAgain
<1>5. TypeOK' /\ NumbersOK'
  BY <1>1, <1>2, <1>4, FreshTypes DEF IdeInv, TypeOK, NumbersOK
<1>. QED BY <1>1, <1>5, Elsewhere, FreshTypes

----------------------------------------------------------------------------

LEMMA NextIde == ASSUME ContentsOK, IdeInv, [Next]_vars PROVE IdeInv'
<1>1. CASE UNCHANGED vars
  <2>1. TypeOK' /\ NumbersOK'
    BY <1>1 DEF IdeInv, TypeOK, NumbersOK
  <2>. QED BY <1>1, <2>1, Elsewhere
<1>2. CASE \E tree \in OtherTrees : OthersSave(tree)
  BY <1>2, OthersSaveKeeps
<1>3. CASE PublishVersion \/ RefreshSpec \/ HandleToggleExecution
  BY <1>3, SpecKeeps
<1>4. CASE LoadFiles \/ Open \/ Close
  BY <1>4, DialogKeeps
<1>5. CASE \/ \E p \in Paths : SelectFile(p)
           \/ \E b \in Written : HandleEdit(b) \/ StreamEnds(b)
           \/ \E b \in Written \cup {None} : StreamStops(b)
           \/ HandleResetFile \/ StartStream \/ HandleAccept \/ HandleReject
  BY <1>5, EditingKeeps
<1>6. CASE \E thenRerun \in BOOLEAN : PerformSave(thenRerun)
  BY <1>6, PerformSaveKeeps
<1>7. CASE \E p \in Paths : LoadFile(p)
  BY <1>7, LoadFileKeeps
<1>8. CASE PostVersion
  BY <1>8, PostKeeps
<1>9. CASE ServerSaves
  BY <1>9, ServerSavesKeeps
<1>10. CASE SaveFails \/ SaveReturns \/ RunsAgain
  BY <1>10, SaveEndsKeeps
<1>. QED
  BY <1>1, <1>2, <1>3, <1>4, <1>5, <1>6, <1>7, <1>8, <1>9, <1>10 DEF Next

\* In every reachable state the files that a save of the IDE has read are those of the one
\* version that was in the IDE when it was pressed, whatever is saved, published,
\* typed or streamed meanwhile.
THEOREM IdeInvariant == ContentsOK => (Spec => []IdeInv)
<1>. SUFFICES ASSUME ContentsOK
              PROVE  Spec => []IdeInv
  OBVIOUS
<1>1. Init => IdeInv
  BY InitIde
<1>2. IdeInv /\ [Next]_vars => IdeInv'
  BY NextIde
<1>. QED BY <1>1, <1>2, PTL DEF Spec

\* The IDE never posts a tree that mixes two versions.
THEOREM TreesAreNotMixed == ContentsOK => (Spec => []NoMixedTrees)
<1>. SUFFICES ASSUME ContentsOK
              PROVE  Spec => []NoMixedTrees
  OBVIOUS
<1>1. IdeInv => NoMixedTrees
  <2>. SUFFICES ASSUME IdeInv, save.pc \in {"posting", "saved"}, save.tree # NoFiles
                PROVE  NoMixedTrees
    BY DEF NoMixedTrees
  <2>1. save.todo = {} /\ \A p \in Paths : save.tree[p] = Merged(p)
    BY DEF IdeInv, SaveOK
  <2>2. save.tree \in Trees
    BY DEF IdeInv, TypeOK, Save
  <2>3. save.tree = [p \in Paths |-> Merged(p)]
    BY <2>1, <2>2 DEF Trees
  <2>. QED BY <2>3 DEF NoMixedTrees, Merged
<1>. QED BY <1>1, IdeInvariant, PTL

----------------------------------------------------------------------------
(* The inputs form *)

\* The schema, its defaults and its example have values for its fields only.
SchemaOK ==
    /\ Extra \notin Fields
    /\ Default \in [Fields -> {"absent", "good"}]
    /\ Example \in [Fields -> {"absent", "empty", "good"}]

\* Without fields there is no form.
FormNeedsFields == mode = "form" => described

FormInv == Form!TypeOK /\ FormNeedsFields /\ Form!ViewsAgree /\ Form!FormPayloadValid

LEMMA ObjectTypes ==
  ASSUME SchemaOK
  PROVE  /\ Form!EmptyObject \in Form!Objects
         /\ Form!Lift(Default) \in Form!Objects
         /\ Form!Lift(Example) \in Form!Objects
         /\ \A o \in Form!Objects, f \in Fields, v \in Form!FieldValues :
               [o EXCEPT ![f] = v] \in Form!Objects
BY DEF SchemaOK, Form!EmptyObject, Form!Lift, Form!Objects, Form!Keys, Form!FieldValues

\* serialize keeps what was validated: it removes empty values of optional fields only.
LEMMA CleanedIsValid ==
  ASSUME SchemaOK, Form!TypeOK, described, Form!ValidateAgainstSchema(value) = {}
  PROVE  /\ Form!Cleaned \in Form!Objects
         /\ \A f \in Fields : /\ Form!Cleaned[f] # "bad"
                              /\ f \in Required => Form!Cleaned[f] = "good"
<1>1. \A f \in Fields : IF Form!Present(value[f]) THEN value[f] # "bad" ELSE f \notin Required
  BY DEF Form!ValidateAgainstSchema
<1>2. \A f \in Fields : value[f] \in Form!FieldValues /\ f # Extra
  BY DEF SchemaOK, Form!TypeOK, Form!Objects, Form!Keys
<1>3. Form!Cleaned \in Form!Objects
  BY DEF SchemaOK, Form!TypeOK, Form!Objects, Form!Keys, Form!Cleaned, Form!FieldValues
<1>4. ASSUME NEW f \in Fields
      PROVE  Form!Cleaned[f] # "bad" /\ (f \in Required => Form!Cleaned[f] = "good")
  <2>1. Form!Cleaned[f] = IF f \notin Required /\ value[f] = "empty"
                          THEN "absent" ELSE value[f]
    BY <1>2 DEF Form!Cleaned, Form!Keys
  <2>. QED
    BY <1>1, <1>2, <2>1 DEF Form!Present, Form!FieldValues
<1>. QED BY <1>3, <1>4

LEMMA InitForm == ASSUME SchemaOK, Form!Init PROVE FormInv
BY ObjectTypes
DEF FormInv, FormNeedsFields, Form!Init, Form!TypeOK, Form!Texts, Form!ViewsAgree,
    Form!FormPayloadValid

\* Every handler keeps the invariant.
LEMMA FormStep ==
  ASSUME SchemaOK, FormInv, [Form!Next]_form
  PROVE  FormInv'
<1>. USE DEF Form!Texts
<1>1. CASE Form!SerializeForm
  <2>. USE <1>1 DEF Form!SerializeForm
  <2>1. sent' = <<"form", Form!Cleaned>> /\ described
    BY DEF FormInv, FormNeedsFields
  <2>2. Form!Cleaned \in Form!Objects
    BY <2>1, CleanedIsValid DEF FormInv
  <2>3. Form!TypeOK'
    BY <2>1, <2>2 DEF FormInv, Form!TypeOK
  <2>4. Form!FormPayloadValid'
    BY <2>1, CleanedIsValid DEF FormInv, Form!FormPayloadValid
  <2>. QED
    BY <2>3, <2>4 DEF FormInv, FormNeedsFields, Form!ViewsAgree
<1>2. CASE Form!SerializeText
  <2>. USE <1>2 DEF Form!SerializeText
  <2>1. Form!TypeOK'
    BY DEF FormInv, Form!TypeOK
  <2>2. Form!FormPayloadValid'
    BY DEF Form!FormPayloadValid
  <2>. QED
    BY <2>1, <2>2 DEF FormInv, FormNeedsFields, Form!ViewsAgree
<1>3. ASSUME sent' = None, Form!TypeOK', FormNeedsFields', Form!ViewsAgree' PROVE FormInv'
  BY <1>3 DEF FormInv, Form!FormPayloadValid
<1>4. CASE Form!SchemaChanges
  BY <1>3, <1>4
  DEF FormInv, Form!SchemaChanges, Form!TypeOK, FormNeedsFields, Form!ViewsAgree
<1>5. CASE Form!SetMode
  BY <1>3, <1>5 DEF FormInv, Form!SetMode, Form!TypeOK, FormNeedsFields, Form!ViewsAgree
<1>6. CASE Form!HandleFormatJson
  BY <1>3, <1>6
  DEF FormInv, Form!HandleFormatJson, Form!TypeOK, FormNeedsFields, Form!ViewsAgree
<1>7. ASSUME NEW object \in Form!Objects, Form!Put(object), UNCHANGED <<described, mode>>,
             sent' = None
      PROVE  FormInv'
  BY <1>3, <1>7 DEF FormInv, Form!Put, Form!TypeOK, FormNeedsFields, Form!ViewsAgree
<1>8. CASE Form!HandleLoadExample
  BY <1>7, <1>8, ObjectTypes DEF Form!HandleLoadExample
<1>9. CASE Form!HandleClear
  BY <1>7, <1>9, ObjectTypes DEF Form!HandleClear
<1>10. ASSUME NEW object \in Form!Objects, Form!SetValue(object) PROVE FormInv'
  BY <1>7, <1>10 DEF Form!SetValue
<1>11. ASSUME NEW f \in Fields, NEW v \in Form!FieldValues, Form!UpdateField(f, v)
       PROVE  FormInv'
  <2>1. [value EXCEPT ![f] = v] \in Form!Objects
    BY ObjectTypes DEF FormInv, Form!TypeOK
  <2>. QED
    BY <1>3, <1>11, <2>1
    DEF FormInv, Form!UpdateField, Form!TypeOK, FormNeedsFields, Form!ViewsAgree
<1>12. ASSUME NEW text \in Form!Texts, Form!HandleJsonChange(text) PROVE FormInv'
  BY <1>3, <1>12
  DEF FormInv, Form!HandleJsonChange, Form!TypeOK, FormNeedsFields, Form!ViewsAgree
<1>13. CASE UNCHANGED form
  BY <1>13
  DEF FormInv, form, Form!TypeOK, FormNeedsFields, Form!ViewsAgree, Form!FormPayloadValid
<1>. QED
  BY <1>1, <1>2, <1>4, <1>5, <1>6, <1>8, <1>9, <1>10, <1>11, <1>12, <1>13 DEF Form!Next

\* The inductive invariant of the form: its types, the two properties below, and that
\* fields are shown only while the schema describes some (InputsForm.tsx).
THEOREM FormInvariant == SchemaOK => (Form!Spec => []FormInv)
<1>. SUFFICES ASSUME SchemaOK
              PROVE  Form!Spec => []FormInv
  OBVIOUS
<1>1. Form!Init => FormInv
  BY InitForm
<1>2. FormInv /\ [Form!Next]_Form!vars => FormInv'
  BY FormStep DEF Form!vars, form
<1>. QED BY <1>1, <1>2, PTL DEF Form!Spec

\* Whatever is entered in the form, as text or by an earlier run, and however the schema
\* changes: when the text is an object, it is the value of the form (InputsForm.tsx).
THEOREM FormAndTextAgree == SchemaOK => (Form!Spec => []ViewsAgree)
<1>1. FormInv => ViewsAgree
  BY DEF FormInv, ViewsAgree
<1>. QED BY <1>1, FormInvariant, PTL

\* What the form sends has every required field and none of the wrong kind, though
\* serialize removes values after it has validated them (InputsForm.tsx, serialize).
THEOREM SentFormIsValid == SchemaOK => (Form!Spec => []FormPayloadValid)
<1>1. FormInv => FormPayloadValid
  BY DEF FormInv, FormPayloadValid
<1>. QED BY <1>1, FormInvariant, PTL

----------------------------------------------------------------------------
(* The runs of the dialog *)

\* None is no status of a run.
DebuggerOK == MaxRequests \in Nat /\ None \notin Debugger!Statuses

Served == {k \in Debugger!Requests : exec[k].pc \in {"answered", "over"}}

\* Every run was started by a request of its own, and the list is one that the server had.
RunsCounted ==
    /\ Len(run) <= Cardinality(Served)
    /\ Len(known.list) <= MaxRequests

\* A fetch under way that was sent when its run had ended finds it so; and when the run is
\* shown as ended, and not out of date, the fetch was sent then.
FlightOK ==
    \A r \in Debugger!RunIds : flight[r] # None =>
        /\ r \in DOMAIN run
        /\ flight[r] \in Debugger!Ended => run[r] \in Debugger!Ended
        /\ known.run[r] \in Debugger!Ended /\ r \notin known.stale
              => flight[r] \in Debugger!Ended

\* A run is cancelled that there is, and one that was cancelled has ended.
CancelOK ==
    cancel.pc # "idle" =>
        /\ cancel.run \in DOMAIN run
        /\ cancel.pc # "sent" => run[cancel.run] \in Debugger!Ended

DebuggerInv == Debugger!TypeOK /\ RunsCounted /\ FlightOK /\ CancelOK

\* A set of numbers up to n has a largest one.
LEMMA LargestExists ==
  ASSUME NEW n \in Nat, NEW T \in SUBSET (1 .. n), T # {}
  PROVE  \E i \in T : \A j \in T : j <= i
<1>. DEFINE Above(i) == {j \in T : j > i}
            family == {Above(i) : i \in T}
<1>1. \A S \in SUBSET T : IsFiniteSet(S)
  <2>1. IsFiniteSet(1 .. n)
    BY FS_Interval
  <2>. QED BY <2>1, FS_Subset
<1>2. family \subseteq FiniteSubsetsOf(T) /\ family # {}
  BY <1>1 DEF FiniteSubsetsOf
<1>3. PICK F \in family : \A G \in family : <<G, F>> \notin StrictSubsetOrdering(T)
  <2>. HIDE DEF family
  <2>. QED BY <1>2, FS_StrictSubsetOrderingWellFounded, WFMin
<1>4. PICK i \in T : F = Above(i)
  OBVIOUS
<1>5. ASSUME NEW j \in T, j > i
      PROVE  FALSE
  <2>1. Above(j) \subseteq Above(i) /\ j \in Above(i) /\ j \notin Above(j)
    <3>1. i \in Nat /\ j \in Nat /\ \A k \in T : k \in Nat
      OBVIOUS
    <3>2. \A k \in T : k > j => k > i
      BY <1>5, <3>1
    <3>3. ~(j > j)
      BY <3>1
    <3>. QED BY <1>5, <3>2, <3>3
  <2>2. Above(j) \in family
    OBVIOUS
  <2>3. <<Above(j), F>> \notin StrictSubsetOrdering(T)
    BY <1>3, <2>2
  <2>. QED
    BY <1>4, <2>1, <2>3 DEF StrictSubsetOrdering
<1>. QED
  BY <1>5

\* The effects on the run list select nothing, or a run of the tab.
LEMMA FollowActiveType ==
  ASSUME DebuggerOK,
         NEW list \in Seq(Debugger!Statuses), Len(list) <= MaxRequests,
         NEW current \in {0} \cup Debugger!RunIds
  PROVE  Debugger!FollowActive(list, current) \in {0} \cup Debugger!RunIds
<1>. DEFINE active == {i \in DOMAIN list : list[i] \in Debugger!ActiveStatuses}
<1>1. DOMAIN list = 1 .. Len(list) /\ Len(list) \in Nat
  OBVIOUS
<1>2. active \in SUBSET (1 .. Len(list)) /\ active \subseteq Debugger!RunIds
  BY <1>1 DEF DebuggerOK, Debugger!RunIds
<1>3. active # {} => \E i \in active : \A j \in active : j <= i
  <2>. HIDE DEF active
  <2>. QED BY <1>1, <1>2, LargestExists
<1>4. Len(list) \in {0} \cup Debugger!RunIds
  BY <1>1 DEF DebuggerOK, Debugger!RunIds
<1>5. active # {} => (CHOOSE i \in active : \A j \in active : j <= i) \in active
  BY <1>3
<1>6. Debugger!FollowActive(list, current)
      = IF active # {} THEN CHOOSE i \in active : \A j \in active : j <= i
        ELSE IF current = 0 THEN Len(list) ELSE current
  BY DEF Debugger!FollowActive
<1>. QED
  <2>. HIDE DEF active
  <2>. QED BY <1>2, <1>4, <1>5, <1>6


LEMMA ServedFinite ==
  ASSUME DebuggerOK
  PROVE  IsFiniteSet(Served) /\ IsFiniteSet(Served')
         /\ Cardinality(Served) \in Nat /\ Cardinality(Served') \in Nat
         /\ Cardinality(Served) <= MaxRequests /\ Cardinality(Served') <= MaxRequests
<1>1. /\ IsFiniteSet(Debugger!Requests)
      /\ Cardinality(Debugger!Requests) = MaxRequests
  BY FS_Interval DEF DebuggerOK, Debugger!Requests
<1>2. ASSUME NEW S \in SUBSET Debugger!Requests
      PROVE  IsFiniteSet(S) /\ Cardinality(S) \in Nat /\ Cardinality(S) <= MaxRequests
  BY <1>1, <1>2, FS_Subset, FS_CardinalityType
<1>3. Served \in SUBSET Debugger!Requests /\ Served' \in SUBSET Debugger!Requests
  BY DEF Served
<1>. QED BY <1>2, <1>3

\* A step that starts no run, and forgets no answer, keeps the count.
LEMMA CountKept ==
  ASSUME DebuggerOK, DebuggerInv, Served \subseteq Served', Len(run') = Len(run),
         Len(known'.list) <= MaxRequests
  PROVE  RunsCounted'
<1>1. Cardinality(Served) <= Cardinality(Served')
  BY ServedFinite, FS_Subset
<1>2. Len(run) \in Nat
  BY DEF DebuggerInv, Debugger!TypeOK
<1>. QED
  BY <1>1, <1>2, ServedFinite DEF DebuggerInv, RunsCounted

LEMMA RunsBounded ==
  ASSUME DebuggerOK, DebuggerInv
  PROVE  Len(run) \in Nat /\ Len(run) <= MaxRequests
BY ServedFinite DEF DebuggerInv, RunsCounted, Debugger!TypeOK, DebuggerOK

\* The types of the cache.
Known == [list : Seq(Debugger!Statuses),
          run : [Debugger!RunIds -> Debugger!Statuses \cup {None}],
          stale : SUBSET Debugger!RunIds]

LEMMA InitDebugger == ASSUME DebuggerOK, Debugger!Init PROVE DebuggerInv
<1>1. Len(run) = 0 /\ Len(known.list) = 0 /\ run = << >> /\ known.list = << >>
  BY DEF Debugger!Init
<1>2. RunsCounted
  BY <1>1, ServedFinite DEF RunsCounted, DebuggerOK
<1>3. Debugger!TypeOK
  <2>1. Debugger!NoExec \in Debugger!Exec
    BY DEF Debugger!NoExec, Debugger!Exec
  <2>2. exec \in [Debugger!Requests -> Debugger!Exec]
    BY <2>1 DEF Debugger!Init
  <2>3. known \in Known
    BY DEF Debugger!Init, Known
  <2>4. selected \in {0} \cup Debugger!RunIds
    BY DEF Debugger!Init
  <2>5. run \in Seq(Debugger!Statuses) /\ Len(run) <= MaxRequests
    BY <1>1 DEF DebuggerOK
  <2>6. flight \in [Debugger!RunIds -> Debugger!Statuses \cup {None}] /\ quick \in BOOLEAN
        /\ cancel \in Debugger!Cancel
    BY DEF Debugger!Init, Debugger!NoCancel, Debugger!Cancel
  <2>. QED
    BY <2>2, <2>3, <2>4, <2>5, <2>6 DEF Debugger!TypeOK, Known
<1>4. FlightOK /\ CancelOK
  BY DEF Debugger!Init, Debugger!NoCancel, FlightOK, CancelOK
<1>. QED BY <1>2, <1>3, <1>4 DEF DebuggerInv

\* A run that is there stays, and one that ended has ended for good.
LEMMA RunsGrow ==
  ASSUME DebuggerInv, UNCHANGED <<known, flight>>, DOMAIN run \subseteq DOMAIN run',
         \A i \in DOMAIN run : run[i] \in Debugger!Ended => run'[i] \in Debugger!Ended,
         \/ UNCHANGED cancel
         \/ /\ cancel.pc # "idle" /\ cancel'.run = cancel.run
            /\ run'[cancel.run] \in Debugger!Ended
  PROVE  FlightOK' /\ CancelOK'
BY DEF DebuggerInv, FlightOK, CancelOK

\* The end of a run, by the executor or by a cancel.
LEMMA RunEnded ==
  ASSUME DebuggerOK, DebuggerInv, NEW r \in DOMAIN run, run' = [run EXCEPT ![r] = "ended"]
  PROVE  /\ run' \in Seq(Debugger!Statuses) /\ Len(run') = Len(run)
         /\ DOMAIN run' = DOMAIN run
         /\ run'[r] \in Debugger!Ended
         /\ \A i \in DOMAIN run : run[i] \in Debugger!Ended => run'[i] \in Debugger!Ended
<1>1. "ended" \in Debugger!Statuses /\ "ended" \in Debugger!Ended
  BY DEF Debugger!Statuses, Debugger!Ended
<1>2. run \in Seq(Debugger!Statuses)
  BY DEF DebuggerInv, Debugger!TypeOK
<1>. QED BY <1>1, <1>2, ExceptSeq

\* The server's side: runs start and end.
LEMMA ServerSteps ==
  ASSUME DebuggerOK, DebuggerInv,
         \/ \E r \in Debugger!RunIds : Debugger!RunEnds(r)
         \/ Debugger!ServerCancels
         \/ \E k \in Debugger!Requests : Debugger!ServerExecutes(k)
  PROVE  DebuggerInv' /\ UNCHANGED known
<1>1. ASSUME NEW r \in Debugger!RunIds, Debugger!RunEnds(r)
      PROVE  DebuggerInv' /\ UNCHANGED known
  <2>1. /\ UNCHANGED <<known, flight, selected, cancel, exec, quick>> /\ r \in DOMAIN run
        /\ run' = [run EXCEPT ![r] = "ended"]
    BY <1>1 DEF Debugger!RunEnds
  <2>2. run' \in Seq(Debugger!Statuses) /\ Len(run') = Len(run)
    BY <2>1, RunEnded
  <2>3. RunsCounted'
    BY <2>1, <2>2, CountKept DEF Served, DebuggerInv, RunsCounted
  <2>4. FlightOK' /\ CancelOK'
    BY <2>1, RunEnded, RunsGrow
  <2>. QED
    BY <2>1, <2>2, <2>3, <2>4 DEF DebuggerInv, Debugger!TypeOK
<1>3. CASE Debugger!ServerCancels
  <2>1. /\ UNCHANGED <<known, flight, selected, exec, quick>> /\ cancel.pc = "sent"
        /\ run' = [run EXCEPT ![cancel.run] = "ended"]
        /\ cancel' = [cancel EXCEPT !.pc = "answered"]
    BY <1>3 DEF Debugger!ServerCancels
  <2>2. cancel.run \in DOMAIN run /\ cancel \in Debugger!Cancel
    BY <2>1 DEF DebuggerInv, CancelOK, Debugger!TypeOK
  <2>3. /\ run' \in Seq(Debugger!Statuses) /\ Len(run') = Len(run)
        /\ DOMAIN run' = DOMAIN run /\ run'[cancel.run] \in Debugger!Ended
        /\ \A i \in DOMAIN run : run[i] \in Debugger!Ended => run'[i] \in Debugger!Ended
    BY <2>1, <2>2, RunEnded
  <2>4. cancel' \in Debugger!Cancel /\ cancel'.run = cancel.run
    BY <2>1, <2>2 DEF Debugger!Cancel
  <2>5. RunsCounted'
    BY <2>1, <2>3, CountKept DEF Served, DebuggerInv, RunsCounted
  <2>6. FlightOK' /\ CancelOK'
    BY <2>1, <2>3, <2>4, RunsGrow
  <2>. QED
    BY <2>1, <2>3, <2>4, <2>5, <2>6 DEF DebuggerInv, Debugger!TypeOK
<1>2. ASSUME NEW k \in Debugger!Requests, Debugger!ServerExecutes(k)
      PROVE  DebuggerInv' /\ UNCHANGED known
  <2>1. /\ UNCHANGED <<known, flight, selected, cancel, quick>>
        /\ exec[k].pc = "sent"
        /\ exec' = [exec EXCEPT ![k].pc = "answered", ![k].run = Len(run) + 1]
    BY <1>2 DEF Debugger!ServerExecutes
  <2>2. PICK s \in Debugger!Statuses : run' = Append(run, s)
    BY <1>2
    DEF Debugger!ServerExecutes, Debugger!Statuses, Debugger!ActiveStatuses, Debugger!Ended
  <2>3. run' \in Seq(Debugger!Statuses) /\ Len(run') = Len(run) + 1
    BY <2>2, AppendProperties DEF DebuggerInv, Debugger!TypeOK
  <2>4. exec \in [Debugger!Requests -> Debugger!Exec]
    BY DEF DebuggerInv, Debugger!TypeOK
  <2>5. k \notin Served /\ Served' = Served \cup {k}
    BY <2>1, <2>4 DEF Served, Debugger!Exec
  <2>6. Cardinality(Served') = Cardinality(Served) + 1
    BY <2>5, ServedFinite, FS_AddElement
  <2>7. Len(run') <= Cardinality(Served') /\ Len(run') \in Nat
    BY <2>3, <2>6, ServedFinite, RunsBounded DEF DebuggerInv, RunsCounted
  <2>8. RunsCounted'
    BY <2>1, <2>7 DEF DebuggerInv, RunsCounted
  <2>9. Len(run) + 1 \in Debugger!RunIds
    BY <2>3, <2>7, ServedFinite, RunsBounded DEF DebuggerOK, Debugger!RunIds
  <2>10. exec' \in [Debugger!Requests -> Debugger!Exec]
    BY <2>1, <2>4, <2>9 DEF Debugger!Exec
  <2>11. Len(run') <= MaxRequests
    BY <2>7, ServedFinite DEF DebuggerOK
  <2>12. FlightOK' /\ CancelOK'
    <3>1. /\ DOMAIN run \subseteq DOMAIN run'
          /\ \A i \in DOMAIN run : run'[i] = run[i]
      BY <2>2, AppendProperties DEF DebuggerInv, Debugger!TypeOK
    <3>. QED BY <2>1, <3>1, RunsGrow
  <2>. QED
    BY <2>1, <2>3, <2>8, <2>10, <2>11, <2>12 DEF DebuggerInv, Debugger!TypeOK
<1>. QED BY <1>1, <1>2, <1>3

\* The queries: what is shown as ended, and is not out of date, goes on being shown so.
ShownStays ==
    \A r \in Debugger!RunIds : known.run[r] \in Debugger!Ended =>
        known'.run[r] \in Debugger!Ended \/ (r \in known.stale /\ r \notin known'.stale)

LEMMA QuerySteps ==
  ASSUME DebuggerOK, DebuggerInv,
         \E r \in Debugger!RunIds :
            Debugger!FetchRun(r) \/ Debugger!RunArrives(r) \/ Debugger!FetchFails(r)
  PROVE  DebuggerInv' /\ ShownStays
<1>. USE DEF ShownStays
<1>0. PICK r \in Debugger!RunIds :
         Debugger!FetchRun(r) \/ Debugger!RunArrives(r) \/ Debugger!FetchFails(r)
  OBVIOUS
<1>1. /\ UNCHANGED <<run, selected, cancel, exec, quick>>
      /\ \E status : flight' = [flight EXCEPT ![r] = status]
      /\ flight \in [Debugger!RunIds -> Debugger!Statuses \cup {None}]
      /\ known \in Known
  BY <1>0
  DEF Debugger!FetchRun, Debugger!RunArrives, Debugger!FetchFails, DebuggerInv,
      Debugger!TypeOK, Known
<1>2. \A i \in DOMAIN run : run[i] \in Debugger!Statuses
  BY DEF DebuggerInv, Debugger!TypeOK
<1>3. CASE Debugger!FetchFails(r)
  <2>1. known' = known /\ flight' = [flight EXCEPT ![r] = None]
    BY <1>3 DEF Debugger!FetchFails
  <2>2. Debugger!TypeOK' /\ FlightOK' /\ CancelOK'
    BY <1>1, <2>1 DEF DebuggerInv, Debugger!TypeOK, FlightOK, CancelOK
  <2>3. RunsCounted'
    BY <1>1, <2>1 DEF DebuggerInv, RunsCounted, Served
  <2>. QED BY <2>1, <2>2, <2>3 DEF DebuggerInv
<1>4. CASE Debugger!FetchRun(r)
  <2>1. /\ known' = known /\ flight' = [flight EXCEPT ![r] = run[r]] /\ r \in DOMAIN run
        /\ known.run[r] \in Debugger!ActiveStatuses \cup {None} \/ r \in known.stale
    BY <1>4 DEF Debugger!FetchRun
  <2>2. known.run[r] \in Debugger!Ended => r \in known.stale
    BY <2>1 DEF DebuggerOK, Debugger!Statuses, Debugger!ActiveStatuses, Debugger!Ended
  <2>3. Debugger!TypeOK'
    BY <1>1, <1>2, <2>1 DEF DebuggerInv, Debugger!TypeOK
  <2>4. FlightOK' /\ CancelOK'
    BY <1>1, <2>1, <2>2 DEF DebuggerInv, FlightOK, CancelOK
  <2>5. RunsCounted'
    BY <1>1, <2>1 DEF DebuggerInv, RunsCounted, Served
  <2>. QED BY <2>1, <2>3, <2>4, <2>5 DEF DebuggerInv
<1>5. CASE Debugger!RunArrives(r)
  <2>1. PICK status \in {flight[r], run[r]} :
           known' = [known EXCEPT !.run[r] = status, !.stale = @ \ {r}]
    BY <1>5 DEF Debugger!RunArrives
  <2>2. flight[r] # None /\ flight' = [flight EXCEPT ![r] = None]
    BY <1>5 DEF Debugger!RunArrives
  <2>3. r \in DOMAIN run /\ status \in Debugger!Statuses
    BY <1>1, <1>2, <2>1, <2>2 DEF DebuggerInv, FlightOK
  <2>4. /\ known'.list = known.list
        /\ known'.run = [known.run EXCEPT ![r] = status]
        /\ known'.stale = known.stale \ {r}
    BY <1>1, <2>1 DEF Known
  <2>5. known' \in Known
    BY <1>1, <2>1, <2>3 DEF Known
  <2>6. known.run[r] \in Debugger!Ended /\ r \notin known.stale => status \in Debugger!Ended
    BY <2>1, <2>2 DEF DebuggerInv, FlightOK
  <2>7. ShownStays
    BY <1>1, <2>4, <2>6 DEF Known
  <2>8. Debugger!TypeOK'
    BY <1>1, <2>2, <2>5 DEF DebuggerInv, Debugger!TypeOK, Known
  <2>9. FlightOK' /\ CancelOK'
    <3>1. ASSUME NEW q \in Debugger!RunIds, flight'[q] # None
          PROVE  q # r /\ flight'[q] = flight[q] /\ known'.run[q] = known.run[q]
                 /\ (q \in known'.stale <=> q \in known.stale)
      BY <1>1, <2>2, <2>4, <3>1 DEF Known
    <3>. QED BY <1>1, <3>1 DEF DebuggerInv, FlightOK, CancelOK
  <2>10. RunsCounted'
    BY <1>1, <2>4 DEF DebuggerInv, RunsCounted, Served
  <2>. QED BY <2>7, <2>8, <2>9, <2>10 DEF DebuggerInv
<1>. QED BY <1>0, <1>3, <1>4, <1>5

\* The answer of a cancel: a fetch under way either is sent anew, of a run that has ended,
\* or the run counts as out of date.
LEMMA CancelSteps ==
  ASSUME DebuggerOK, DebuggerInv, Debugger!CancelAnswered
  PROVE  DebuggerInv' /\ ShownStays
<1>. DEFINE r == cancel.run
<1>1. /\ UNCHANGED <<run, selected, exec, quick>>
      /\ cancel.pc = "answered" /\ cancel' = [cancel EXCEPT !.pc = "settling"]
      /\ known' = [known EXCEPT !.run[r] = "ended",
                                !.stale = IF selected = r THEN @ \ {r} ELSE @ \cup {r}]
      /\ flight' = IF selected = r THEN [flight EXCEPT ![r] = run[r]] ELSE flight
  BY DEF Debugger!CancelAnswered
<1>2. /\ cancel \in Debugger!Cancel /\ known \in Known
      /\ flight \in [Debugger!RunIds -> Debugger!Statuses \cup {None}]
      /\ run \in Seq(Debugger!Statuses) /\ Len(run) <= MaxRequests
  BY DEF DebuggerInv, Debugger!TypeOK, Known
<1>3. /\ r \in DOMAIN run /\ run[r] \in Debugger!Ended /\ run[r] \in Debugger!Statuses
      /\ r \in Debugger!RunIds
  BY <1>1, <1>2 DEF DebuggerInv, CancelOK, DebuggerOK, Debugger!RunIds
<1>4. "ended" \in Debugger!Ended /\ "ended" \in Debugger!Statuses
  BY DEF Debugger!Ended, Debugger!Statuses
<1>5. /\ known'.list = known.list /\ known'.run = [known.run EXCEPT ![r] = "ended"]
      /\ known'.stale = IF selected = r THEN known.stale \ {r} ELSE known.stale \cup {r}
      /\ known' \in Known
  BY <1>1, <1>2, <1>3, <1>4 DEF Known
<1>6. cancel' \in Debugger!Cancel /\ cancel'.run = r /\ cancel'.pc = "settling"
  BY <1>1, <1>2 DEF Debugger!Cancel
<1>7. ShownStays
  BY <1>2, <1>4, <1>5 DEF ShownStays, Known
<1>8. Debugger!TypeOK'
  BY <1>1, <1>2, <1>3, <1>5, <1>6 DEF DebuggerInv, Debugger!TypeOK, Known
<1>9. FlightOK'
  <2>1. ASSUME NEW q \in Debugger!RunIds, q # r
        PROVE  flight'[q] = flight[q] /\ known'.run[q] = known.run[q]
               /\ (q \in known'.stale <=> q \in known.stale)
    BY <1>1, <1>2, <1>5, <2>1 DEF Known
  <2>2. selected = r => flight'[r] = run[r]
    BY <1>1, <1>2, <1>3
  <2>3. selected # r => flight'[r] = flight[r] /\ r \in known'.stale
    BY <1>1, <1>5
  <2>. QED BY <1>1, <1>3, <2>1, <2>2, <2>3 DEF DebuggerInv, FlightOK
<1>10. CancelOK'
  BY <1>1, <1>3, <1>6 DEF CancelOK
<1>11. RunsCounted'
  BY <1>1, <1>5 DEF DebuggerInv, RunsCounted, Served
<1>. QED BY <1>7, <1>8, <1>9, <1>10, <1>11 DEF DebuggerInv

\* The handlers that start requests, and the dialog.
LEMMA RequestSteps ==
  ASSUME DebuggerOK, DebuggerInv,
         \/ Debugger!QuickPollFails \/ Debugger!CancelFails
         \/ \E r \in Debugger!RunIds : Debugger!SelectRun(r) \/ Debugger!PressCancel(r)
         \/ \E k \in Debugger!Requests :
               \/ Debugger!ServerRefuses(k) \/ Debugger!PressRun(k) \/ Debugger!Rerun(k)
               \/ Debugger!TimerFires(k) \/ Debugger!QuickTest(k)
  PROVE  DebuggerInv' /\ UNCHANGED known
<1>. USE DEF Debugger!QuickPollFails, Debugger!CancelFails, Debugger!SelectRun,
             Debugger!PressCancel, Debugger!ServerRefuses, Debugger!PressRun, Debugger!Rerun,
             Debugger!TimerFires, Debugger!QuickTest
<1>1. UNCHANGED <<run, known, flight>>
  OBVIOUS
<1>2. quick' \in BOOLEAN
  BY DEF DebuggerInv, Debugger!TypeOK
<1>3. selected' \in {0} \cup Debugger!RunIds
  <2>1. selected \in {0} \cup Debugger!RunIds
    BY DEF DebuggerInv, Debugger!TypeOK
  <2>2. ASSUME NEW r \in Debugger!RunIds
        PROVE  Debugger!FollowActive(known.list, r) \in {0} \cup Debugger!RunIds
    BY FollowActiveType DEF DebuggerInv, Debugger!TypeOK, RunsCounted
  <2>. QED
    BY <2>1, <2>2
<1>6. cancel' \in Debugger!Cancel /\ CancelOK'
  <2>1. CASE UNCHANGED cancel
    BY <1>1, <2>1 DEF DebuggerInv, Debugger!TypeOK, CancelOK
  <2>2. CASE cancel' = Debugger!NoCancel
    BY <2>2 DEF Debugger!NoCancel, Debugger!Cancel, CancelOK
  <2>3. ASSUME NEW r \in Debugger!RunIds, Debugger!PressCancel(r)
        PROVE  cancel' \in Debugger!Cancel /\ CancelOK'
    <3>1. cancel' = [pc |-> "sent", run |-> r] /\ r \in DOMAIN run'
      BY <1>1, <2>3
    <3>. QED BY <3>1 DEF Debugger!Cancel, CancelOK
  <2>. QED BY <2>1, <2>2, <2>3
<1>4. /\ exec' \in [Debugger!Requests -> Debugger!Exec]
      /\ Served \subseteq Served'
  <2>1. exec \in [Debugger!Requests -> Debugger!Exec]
    BY DEF DebuggerInv, Debugger!TypeOK
  <2>2. CASE UNCHANGED exec
    BY <2>1, <2>2 DEF Served
  <2>3. ASSUME NEW k \in Debugger!Requests,
               exec[k].pc \in {"idle", "timer", "sent"},
               NEW e \in Debugger!Exec, exec' = [exec EXCEPT ![k] = e]
        PROVE  exec' \in [Debugger!Requests -> Debugger!Exec] /\ Served \subseteq Served'
    BY <2>1, <2>3 DEF Served
  <2>4. ASSUME NEW k \in Debugger!Requests,
               \/ Debugger!ServerRefuses(k)
               \/ Debugger!TimerFires(k)
        PROVE  exec' \in [Debugger!Requests -> Debugger!Exec] /\ Served \subseteq Served'
    <3>1. Debugger!Over \in Debugger!Exec
      BY DEF Debugger!Over, Debugger!NoExec, Debugger!Exec
    <3>2. [exec[k] EXCEPT !.pc = "sent"] \in Debugger!Exec
      BY <2>1 DEF Debugger!Exec
    <3>3. exec[k].pc \in {"timer", "sent"}
          /\ \E e \in Debugger!Exec : exec' = [exec EXCEPT ![k] = e]
      BY <2>4, <3>1, <3>2 DEF Debugger!ServerRefuses, Debugger!TimerFires
    <3>. QED BY <2>3, <3>3
  <2>5. ASSUME NEW k \in Debugger!Requests,
               Debugger!PressRun(k) \/ Debugger!Rerun(k) \/ Debugger!QuickTest(k)
        PROVE  exec' \in [Debugger!Requests -> Debugger!Exec] /\ Served \subseteq Served'
    <3>1. k >= k
      BY DEF Debugger!Requests
    <3>2. exec[k].pc = "idle"
      BY <2>5, <3>1
      DEF Debugger!PressRun, Debugger!Rerun, Debugger!QuickTest, Debugger!Free
    <3>4. \E e \in Debugger!Exec : exec' = [exec EXCEPT ![k] = e]
      BY <2>5
      DEF Debugger!PressRun, Debugger!Rerun, Debugger!QuickTest, Debugger!Call,
          Debugger!Exec
    <3>. QED BY <2>3, <3>2, <3>4
  <2>. QED
    BY <2>2, <2>4, <2>5
<1>5. RunsCounted'
  BY <1>1, <1>4, CountKept DEF DebuggerInv, RunsCounted
<1>. QED
  BY <1>1, <1>2, <1>3, <1>4, <1>5, <1>6 DEF DebuggerInv, Debugger!TypeOK, FlightOK

\* The list of runs is fetched, by its interval or for a handler, or that fails; the newest
\* active run is selected.
LEMMA ListKept ==
  ASSUME DebuggerOK, DebuggerInv, UNCHANGED <<run, flight>>,
         NEW list \in {known.list, run}, known' = [known EXCEPT !.list = list],
         NEW current \in {0} \cup Debugger!RunIds,
         selected' = Debugger!FollowActive(list, current),
         exec' \in [Debugger!Requests -> Debugger!Exec], Served \subseteq Served',
         cancel' \in Debugger!Cancel, CancelOK', quick' \in BOOLEAN
  PROVE  DebuggerInv' /\ ShownStays
<1>1. list \in Seq(Debugger!Statuses) /\ Len(list) <= MaxRequests
  BY RunsBounded DEF DebuggerInv, Debugger!TypeOK, RunsCounted
<1>2. selected' \in {0} \cup Debugger!RunIds
  BY <1>1, FollowActiveType
<1>3. known'.list = list /\ known'.run = known.run /\ known'.stale = known.stale
      /\ known' \in Known
  BY <1>1 DEF DebuggerInv, Debugger!TypeOK, Known
<1>4. RunsCounted'
  BY <1>1, <1>3, CountKept
<1>5. Debugger!TypeOK'
  BY <1>2, <1>3 DEF DebuggerInv, Debugger!TypeOK, Known
<1>. QED BY <1>3, <1>4, <1>5 DEF DebuggerInv, FlightOK, ShownStays

LEMMA AnswerSteps ==
  ASSUME DebuggerOK, DebuggerInv,
         \/ Debugger!PollRuns \/ Debugger!CancelSettles
         \/ \E k \in Debugger!Requests : Debugger!Answered(k) \/ Debugger!QuickAnswered(k)
  PROVE  DebuggerInv' /\ ShownStays
<1>1. /\ exec \in [Debugger!Requests -> Debugger!Exec]
      /\ cancel \in Debugger!Cancel /\ CancelOK /\ quick \in BOOLEAN
      /\ selected \in {0} \cup Debugger!RunIds
  BY DEF DebuggerInv, Debugger!TypeOK
<1>2. CASE Debugger!PollRuns
  <2>1. /\ UNCHANGED <<run, flight, cancel, exec, quick>>
        /\ known' = [known EXCEPT !.list = run]
        /\ selected' = Debugger!FollowActive(run, selected)
    BY <1>2 DEF Debugger!PollRuns
  <2>2. Served \subseteq Served' /\ CancelOK'
    BY <1>1, <2>1 DEF Served, CancelOK
  <2>. QED BY <1>1, <2>1, <2>2, ListKept
<1>3. CASE Debugger!CancelSettles
  <2>1. UNCHANGED <<run, flight, exec, quick>> /\ cancel' = Debugger!NoCancel
    BY <1>3 DEF Debugger!CancelSettles
  <2>2. PICK list \in {known.list, run} :
           /\ known' = [known EXCEPT !.list = list]
           /\ selected' = Debugger!FollowActive(list, selected)
    BY <1>3 DEF Debugger!CancelSettles
  <2>3. Served \subseteq Served' /\ CancelOK' /\ cancel' \in Debugger!Cancel
    BY <2>1 DEF Served, CancelOK, Debugger!NoCancel, Debugger!Cancel
  <2>. QED BY <1>1, <2>1, <2>2, <2>3, ListKept
<1>4. ASSUME NEW k \in Debugger!Requests, Debugger!Answered(k) \/ Debugger!QuickAnswered(k)
      PROVE  DebuggerInv' /\ ShownStays
  <2>1. UNCHANGED <<run, flight, cancel>> /\ exec' = [exec EXCEPT ![k] = Debugger!Over]
    BY <1>4 DEF Debugger!Answered, Debugger!QuickAnswered
  <2>2. PICK list \in {known.list, run}, current \in {exec[k].run, selected} :
           /\ known' = [known EXCEPT !.list = list]
           /\ selected' = Debugger!FollowActive(list, current)
    BY <1>4 DEF Debugger!Answered, Debugger!QuickAnswered
  <2>3. current \in {0} \cup Debugger!RunIds
    BY <1>1, <2>2 DEF Debugger!Exec
  <2>4. quick' \in BOOLEAN
    <3>1. CASE Debugger!Answered(k)
      BY <1>1, <3>1 DEF Debugger!Answered
    <3>2. CASE Debugger!QuickAnswered(k)
      BY <3>2 DEF Debugger!QuickAnswered
    <3>. QED BY <1>4, <3>1, <3>2
  <2>5. Debugger!Over \in Debugger!Exec /\ Debugger!Over.pc = "over"
    BY DEF Debugger!Over, Debugger!NoExec, Debugger!Exec
  <2>6. exec' \in [Debugger!Requests -> Debugger!Exec] /\ Served \subseteq Served'
    BY <1>1, <2>1, <2>5 DEF Served
  <2>7. CancelOK'
    BY <1>1, <2>1 DEF CancelOK
  <2>. QED BY <1>1, <2>1, <2>2, <2>3, <2>4, <2>6, <2>7, ListKept
<1>. QED BY <1>2, <1>3, <1>4

LEMMA DebuggerStep ==
  ASSUME DebuggerOK, DebuggerInv, [Debugger!Next]_debugger
  PROVE  DebuggerInv' /\ ShownStays
<1>1. CASE UNCHANGED debugger
  BY <1>1
  DEF debugger, DebuggerInv, Debugger!TypeOK, RunsCounted, Served, FlightOK, CancelOK,
      ShownStays
<1>. QED
  BY <1>1, ServerSteps, QuerySteps, CancelSteps, RequestSteps, AnswerSteps
  DEF Debugger!Next, ShownStays

\* The inductive invariant of the runs: their types, that every run was started by a
\* request of its own, that a run whose cancel was answered has ended, and that a fetch under
\* way of a run that the tab has shown as ended was sent after its end, unless the run counts
\* as out of date, as it does when the cancel was answered while another run was selected
\* (useSkillExecutionRun, useCancelSkillExecutionRun).
THEOREM DebuggerInvariant == DebuggerOK => (Debugger!Spec => []DebuggerInv)
<1>. SUFFICES ASSUME DebuggerOK
              PROVE  Debugger!Spec => []DebuggerInv
  OBVIOUS
<1>1. Debugger!Init => DebuggerInv
  BY InitDebugger
<1>2. DebuggerInv /\ [Debugger!Next]_Debugger!vars => DebuggerInv'
  BY DebuggerStep DEF Debugger!vars, debugger
<1>. QED BY <1>1, <1>2, PTL DEF Debugger!Spec

\* A run that the tab has shown as ended is shown as active again by no poll but one that was
\* under way when the cancel was answered while another run was selected, and by that one
\* once (useSkillExecutionRun, useCancelSkillExecutionRun).
THEOREM EndedRunsStayEnded == DebuggerOK => (Debugger!Spec => EndedStaysEnded)
<1>. SUFFICES ASSUME DebuggerOK
              PROVE  Debugger!Spec => EndedStaysEnded
  OBVIOUS
<1>1. DebuggerInv /\ [Debugger!Next]_Debugger!vars
        => [\A r \in Debugger!RunIds : known.run[r] \in Debugger!Ended =>
              known'.run[r] \in Debugger!Ended
              \/ (r \in known.stale /\ r \notin known'.stale)]_Debugger!vars
  BY DebuggerStep DEF Debugger!vars, debugger, ShownStays
<1>. QED
  BY <1>1, DebuggerInvariant, PTL DEF Debugger!Spec, EndedStaysEnded, Debugger!EndedStaysEnded


----------------------------------------------------------------------------
(* The dialog *)

\* Every variable of the dialog has its type, for any schema, any files, any number of
\* versions and of requests (the three modules' TypeOK).
THEOREM DialogTypeCorrect ==
    ContentsOK /\ SchemaOK /\ DebuggerOK => (DialogSpec => []DialogTypeOK)
<1>. SUFFICES ASSUME ContentsOK, SchemaOK, DebuggerOK
              PROVE  DialogSpec => []DialogTypeOK
  OBVIOUS
<1>1. DialogInit => Init /\ Form!Init /\ Debugger!Init
  BY DEF DialogInit
<1>2. [DialogNext]_<<part, vars, debugger, form>>
        => [Next]_vars /\ [Form!Next]_Form!vars /\ [Debugger!Next]_Debugger!vars
  BY DEF DialogNext, form, debugger, Form!vars, Debugger!vars
<1>3. DialogSpec => Spec /\ Form!Spec /\ Debugger!Spec
  BY <1>1, <1>2, PTL DEF DialogSpec, Spec, Form!Spec, Debugger!Spec
<1>4. IdeInv /\ FormInv /\ DebuggerInv => DialogTypeOK
  BY DEF IdeInv, FormInv, DebuggerInv, DialogTypeOK
<1>. QED
  BY <1>3, <1>4, IdeInvariant, FormInvariant, DebuggerInvariant, PTL

=============================================================================
