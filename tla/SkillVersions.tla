---------------------------- MODULE SkillVersions ----------------------------
(***************************************************************************)
(* The versions of one skill and their support files: create_version,      *)
(* import_skill and revert_version (src/backend/apps/skills/api.py) over   *)
(* resolve_files and compute_file_delta (files.py).                        *)
(*                                                                         *)
(* Each handler runs one transaction at PostgreSQL's default isolation     *)
(* level, READ COMMITTED, which matters twice.  SELECT ... FOR UPDATE      *)
(* picks the newest version its snapshot shows and then waits for that     *)
(* row's lock: when the lock comes, a newer version may be committed, and  *)
(* the statement still returns the row it picked.  And while a skill has   *)
(* no version there is no row to lock.  In both cases it is the constraint *)
(* uq_version_skill_number that keeps the numbers unique: an INSERT waits  *)
(* for the transaction that holds an equal number and fails if it commits. *)
(*                                                                         *)
(* A version row is identified with the request that inserts it.  content  *)
(* stands for content_md, frontmatter_yaml and koinoflow_metadata.  A      *)
(* version stores only the support files that differ from its predecessor. *)
(***************************************************************************)
EXTENDS Naturals, FiniteSets

CONSTANTS
    Requests,     \* the requests that write a version
    Contents,     \* contents a client submits
    Sanitized,    \* what sanitize_content_md and sanitize_frontmatter store
    Paths,        \* paths of support files
    Blobs,        \* the bytes of a support file
    NoFile,       \* no file at a path; stored, it is a tombstone (is_deleted)
    NoRow,        \* a version stores nothing for a path
    Unsubmitted,  \* payload.files is None, or an archive with no support file
    None          \* no version

ASSUME SanitizedAssumption == Sanitized \in [Contents -> Contents]

ASSUME MarkersAssumption ==
    /\ NoFile \notin Blobs
    /\ NoRow \notin Blobs \cup {NoFile}
    /\ None \notin Requests \cup Contents
    /\ Unsubmitted \notin [Paths -> Blobs \cup {NoFile}]

VARIABLES
    version,   \* the committed skill_version and version_file rows
    request    \* the requests and their open transactions

vars == <<version, request>>

----------------------------------------------------------------------------
(* Data *)

Trees == [Paths -> Blobs \cup {NoFile}]
EmptyTree == [p \in Paths |-> NoFile]
FileRows == [Paths -> Blobs \cup {NoFile, NoRow}]

\* number is 0 in a row that is not committed; from is the number of
\* reverted_from, 0 when it is null.
VersionRow == [number : Nat, content : Contents \cup {None}, files : FileRows,
               from : Nat]
Uncommitted ==
    [number |-> 0, content |-> None, files |-> [p \in Paths |-> NoRow], from |-> 0]

Committed == {v \in Requests : version[v].number > 0}

\* What ORDER BY version_number DESC puts first.
IsNewest(v, rows) ==
    v \in rows /\ \A u \in rows : version[u].number <= version[v].number

Number(v) == IF v = None THEN 0 ELSE version[v].number

Kinds == {"create", "import", "revert"}
Payload == [kind : Kinds, content : Contents \cup {None},
            files : Trees \cup {Unsubmitted}, target : Requests \cup {None}]
NoPayload == [kind |-> "create", content |-> None, files |-> Unsubmitted,
              target |-> None]

RequestPC == {"idle", "begun", "waiting", "locked", "inserted", "created",
              "unchanged", "refused", "failed", "dead"}
Open == {"begun", "waiting", "locked", "inserted"}

\* latest is the row SELECT ... FOR UPDATE returned, draft the uncommitted rows.
Request == [pc : RequestPC, payload : Payload, latest : Requests \cup {None},
            draft : VersionRow]

----------------------------------------------------------------------------
(* files.py *)

\* The rows for a path in the versions up to n.
FileHistory(p, n) ==
    {v \in Committed : version[v].number <= n /\ version[v].files[p] # NoRow}

ResolveFile(p, n) ==
    LET rows == FileHistory(p, n) IN
    IF rows = {} THEN NoFile
    ELSE version[CHOOSE v \in rows : IsNewest(v, rows)].files[p]

\* DISTINCT ON (path) ... ORDER BY path, version_number DESC, less the tombstones.
ResolveFiles(n) == [p \in Paths |-> ResolveFile(p, n)]

\* Variant: a file that is gone gets no tombstone.
ComputeFileDeltaKeepsFiles(n, submitted) ==
    [p \in Paths |-> IF submitted[p] \in {NoFile, ResolveFiles(n)[p]} THEN NoRow
                     ELSE submitted[p]]

\* Files to create where the bytes differ, tombstones where a file is gone.
ComputeFileDelta(n, submitted) ==
    [p \in Paths |-> IF ResolveFiles(n)[p] = submitted[p] THEN NoRow
                     ELSE submitted[p]]

----------------------------------------------------------------------------
(* Requests *)

Init ==
    /\ version = [v \in Requests |-> Uncommitted]
    /\ request = [w \in Requests |-> [pc |-> "idle", payload |-> NoPayload,
                                       latest |-> None, draft |-> Uncommitted]]

At(w, pc) == request[w].pc = pc
Asks(w, kind) == request[w].payload.kind = kind
Goto(w, pc) == request' = [request EXCEPT ![w].pc = pc]
Latest(w) == request[w].latest
Target(w) == request[w].payload.target

Receive(w, kind, content, files, target) ==
    /\ At(w, "idle")
    /\ request' = [request EXCEPT ![w].pc = "begun", ![w].payload =
         [kind |-> kind, content |-> content, files |-> files, target |-> target]]
    /\ UNCHANGED version

CreateVersion(w) ==
    \E content \in Contents, files \in Trees \cup {Unsubmitted} :
        Receive(w, "create", content, files, None)

\* An archive without support files leaves support_file_entries empty.
ImportSkill(w) ==
    \E content \in Contents, files \in (Trees \ {EmptyTree}) \cup {Unsubmitted} :
        Receive(w, "import", content, files, None)

\* The target is looked up before the transaction; without it the answer is 404.
RevertVersion(w) ==
    \E v \in Committed : Receive(w, "revert", None, Unsubmitted, v)

\* The snapshot of SELECT ... FOR UPDATE: the row it is going to lock.
SelectLatest(w) ==
    /\ At(w, "begun")
    /\ \E v \in Requests \cup {None} :
         /\ IF Committed = {} THEN v = None ELSE IsNewest(v, Committed)
         /\ request' = [request EXCEPT ![w].pc = "waiting", ![w].latest = v]
    /\ UNCHANGED version

HoldsLock(u, v) ==
    v # None /\ request[u].pc \in {"locked", "inserted"} /\ Latest(u) = v

LockLatest(w) ==
    /\ At(w, "waiting")
    /\ ~ \E u \in Requests : HoldsLock(u, Latest(w))
    /\ Goto(w, "locked")
    /\ UNCHANGED version

\* The submitted content is compared as it came with the content as it was stored;
\* an empty list of files counts as no list.
SubmissionUnchanged(w) ==
    /\ Asks(w, "create")
    /\ Latest(w) # None
    /\ version[Latest(w)].content = request[w].payload.content
    /\ request[w].payload.files \in {Unsubmitted, EmptyTree}

RevertUnchanged(w) ==
    /\ Asks(w, "revert")
    /\ version[Target(w)].content = version[Latest(w)].content
    /\ ResolveFiles(Number(Target(w))) = ResolveFiles(Number(Latest(w)))

RevertsToLatest(w) == Asks(w, "revert") /\ Target(w) = Latest(w)

RefuseLatest(w) ==
    /\ At(w, "locked") /\ RevertsToLatest(w)
    /\ Goto(w, "refused")
    /\ UNCHANGED version

RefuseUnchanged(w) ==
    /\ At(w, "locked") /\ ~RevertsToLatest(w)
    /\ SubmissionUnchanged(w) \/ RevertUnchanged(w)
    /\ Goto(w, "unchanged")
    /\ UNCHANGED version

\* The tree the version must have; without one its files are inherited.
Submitted(w) ==
    IF Asks(w, "revert") THEN ResolveFiles(Number(Target(w)))
    ELSE request[w].payload.files

\* Variant: a revert takes the content from its own payload.
DraftWithoutTarget(w) ==
    [number |-> Number(Latest(w)) + 1,
     content |-> IF Asks(w, "revert") THEN request[w].payload.content
                 ELSE Sanitized[request[w].payload.content],
     files |-> IF Submitted(w) = Unsubmitted THEN [p \in Paths |-> NoRow]
               ELSE ComputeFileDelta(Number(Latest(w)), Submitted(w)),
     from |-> Number(Target(w))]

\* Variant: a revert computes its files against the target, not the latest version.
DraftAgainstTarget(w) ==
    [number |-> Number(Latest(w)) + 1,
     content |-> IF Asks(w, "revert") THEN version[Target(w)].content
                 ELSE Sanitized[request[w].payload.content],
     files |-> IF Submitted(w) = Unsubmitted THEN [p \in Paths |-> NoRow]
               ELSE ComputeFileDelta(IF Asks(w, "revert") THEN Number(Target(w))
                                     ELSE Number(Latest(w)), Submitted(w)),
     from |-> Number(Target(w))]

Draft(w) ==
    [number |-> Number(Latest(w)) + 1,
     content |-> IF Asks(w, "revert") THEN version[Target(w)].content
                 ELSE Sanitized[request[w].payload.content],
     files |-> IF Submitted(w) = Unsubmitted THEN [p \in Paths |-> NoRow]
               ELSE ComputeFileDelta(Number(Latest(w)), Submitted(w)),
     from |-> Number(Target(w))]

Accepts(w) ==
    /\ At(w, "locked")
    /\ ~RevertsToLatest(w) /\ ~SubmissionUnchanged(w) /\ ~RevertUnchanged(w)

\* Variant: no unique constraint.
TakenNever(n) == n < 1

Taken(n) == \E v \in Committed : version[v].number = n
Reserved(n) == \E u \in Requests : At(u, "inserted") /\ request[u].draft.number = n

\* Variant: an INSERT does not wait for a transaction that holds its number.
InsertVersionAtOnce(w) ==
    /\ Accepts(w)
    /\ ~Taken(Draft(w).number)
    /\ request' = [request EXCEPT ![w].pc = "inserted", ![w].draft = Draft(w)]
    /\ UNCHANGED version

\* The version row and its file rows.  The files they are computed from are those
\* of committed versions, which never change, so one step stands for both inserts.
InsertVersion(w) ==
    /\ Accepts(w)
    /\ ~Taken(Draft(w).number) /\ ~Reserved(Draft(w).number)
    /\ request' = [request EXCEPT ![w].pc = "inserted", ![w].draft = Draft(w)]
    /\ UNCHANGED version

\* Variant: the IntegrityError is caught and the INSERT tried again from the lock on,
\* with the latest version that was read before.
InsertConflictsRetries(w) ==
    /\ Accepts(w)
    /\ Taken(Draft(w).number)
    /\ Goto(w, "waiting")
    /\ UNCHANGED version

\* IntegrityError: nothing catches it, the transaction is rolled back.
InsertConflicts(w) ==
    /\ Accepts(w)
    /\ Taken(Draft(w).number)
    /\ Goto(w, "failed")
    /\ UNCHANGED version

\* The deferred foreign key check of reverted_from shares the target's row lock.
CommitVersion(w) ==
    /\ At(w, "inserted")
    /\ ~ \E u \in Requests : HoldsLock(u, Target(w))
    /\ version' = [version EXCEPT ![w] = request[w].draft]
    /\ Goto(w, "created")

\* The worker dies or loses its connection: PostgreSQL rolls back.
WorkerDies(w) ==
    /\ request[w].pc \in Open
    /\ Goto(w, "dead")
    /\ UNCHANGED version

Proceed(w) ==
    \/ SelectLatest(w) \/ LockLatest(w)
    \/ RefuseLatest(w) \/ RefuseUnchanged(w)
    \/ InsertVersion(w) \/ InsertConflicts(w)
    \/ CommitVersion(w)

Next ==
    \E w \in Requests :
        \/ CreateVersion(w) \/ ImportSkill(w) \/ RevertVersion(w)
        \/ Proceed(w)
        \/ WorkerDies(w)

Spec == Init /\ [][Next]_vars
FairSpec == Spec /\ \A w \in Requests : WF_vars(Proceed(w))

----------------------------------------------------------------------------
(* Properties *)

\* Every row of the tables and every open transaction has its columns' types; a
\* version that is stored has content (content_md is NOT NULL).
TypeOK ==
    /\ version \in [Requests -> VersionRow]
    /\ request \in [Requests -> Request]
    /\ \A v \in Committed : version[v].content \in Contents

\* However the writers of a skill interleave or die, its versions are numbered
\* 1, 2, 3 ... without a gap and no number is given twice, also for the first
\* version, which has no row to lock, and for a writer that waited for the lock
\* while another version was committed.
NumbersContiguous ==
    /\ \A v, u \in Committed : version[v].number = version[u].number => v = u
    /\ \A v \in Committed : \/ version[v].number = 1
                           \/ \E u \in Committed :
                                version[u].number + 1 = version[v].number

\* What was asked of a version is what it shows, at any later time: the submitted
\* tree, or its predecessor's when no files came, or the tree and the content of
\* the version it reverts to, although only differences are stored.
VersionAsRequested ==
    \A v \in Committed :
        LET payload == request[v].payload
            tree == ResolveFiles(version[v].number) IN
        IF payload.kind = "revert"
        THEN /\ tree = ResolveFiles(version[payload.target].number)
             /\ version[v].content = version[payload.target].content
        ELSE /\ version[v].content = Sanitized[payload.content]
             /\ tree = IF payload.files = Unsubmitted
                       THEN ResolveFiles(version[v].number - 1) ELSE payload.files

\* The inductive invariant of the proofs.  Only a request that created its version
\* has a row.  If anything newer than the version a transaction picked has been
\* committed, its next number is taken, so that what it has inserted is newer than
\* every committed version and is still what it would compute now.
RequestOK(w) ==
    /\ At(w, "created") <=> w \in Committed
    /\ IF Asks(w, "revert") THEN Target(w) \in Committed
       ELSE /\ Target(w) = None
            /\ ~At(w, "idle") => request[w].payload.content \in Contents
    /\ request[w].pc \in {"waiting", "locked", "inserted"} =>
         /\ Latest(w) \in Committed \cup {None}
         /\ \/ \A v \in Committed : version[v].number <= Number(Latest(w))
            \/ Taken(Number(Latest(w)) + 1)
    /\ At(w, "inserted") =>
         /\ request[w].draft = Draft(w)
         /\ ~Taken(request[w].draft.number)
         /\ \A u \in Requests \ {w} : At(u, "inserted") =>
              request[u].draft.number # request[w].draft.number

FilesOK ==
    \A v \in Committed, p \in Paths :
        LET rows == FileHistory(p, version[v].number) IN
        rows # {} => \E u \in rows : IsNewest(u, rows)

VersionsInv ==
    /\ TypeOK
    /\ FilesOK
    /\ \A w \in Requests : RequestOK(w)
    /\ NumbersContiguous
    /\ VersionAsRequested

\* A skill's versions, read through resolve_files, are an append-only history:
\* no handler changes what an earlier version shows ("The full version history is
\* preserved", frontend/src/pages/skills/SkillHistoryPage.tsx).
Numbered(n) == CHOOSE v \in Committed : version[v].number = n
History == INSTANCE VersionHistory WITH history <-
    [n \in 1 .. Cardinality(Committed) |->
        [content |-> version[Numbered(n)].content, tree |-> ResolveFiles(n),
         from |-> version[Numbered(n)].from]]
ImplementsHistory == History!Spec

\* A request that began a transaction gets out of it: no writer waits forever for
\* the lock or the number of another, even of one that died.
EveryRequestEnds ==
    \A w \in Requests : (request[w].pc \in Open) ~> (request[w].pc \notin Open)

\* The message of the 409 answer, "No changes detected since the last version"
\* (api.py:2721): the files that were submitted are those of the latest version.
NoChangesMeansNoChanges ==
    \A w \in Requests : At(w, "unchanged") =>
        request[w].payload.files \in {Unsubmitted, ResolveFiles(Number(Latest(w)))}

=============================================================================
