---------------------------- MODULE SkillPublishing ----------------------------
(***************************************************************************)
(* Publishing a skill and its discovery index: publish_skill, update_skill,*)
(* import_skill and update_skill_execution_spec (src/backend/apps/skills/  *)
(* api.py), the index jobs they queue and the reindex command              *)
(* (discovery.py, tasks.py).                                               *)
(*                                                                         *)
(* No handler holds a transaction here and none locks a row: each reads    *)
(* the skill, and saves columns of it or of the execution spec in later    *)
(* statements.  The query that starts an index job returns the version and *)
(* its skill together; what the job stores, seconds later, is what that    *)
(* query returned.                                                         *)
(*                                                                         *)
(* Versions are their numbers 1 .. newest, contiguous as SkillVersions     *)
(* shows.  title stands for whatever else of the skill goes into the       *)
(* indexed text.                                                           *)
(***************************************************************************)
EXTENDS Naturals

CONSTANTS
    Handlers,    \* the requests
    Operator,    \* the reindex command that an operator runs
    Forced,      \* whether the operator passes --force: a set of Booleans
    Titles,      \* titles of the skill
    None,        \* no title, no execution spec
    MaxVersions  \* bound on the versions of the skill

VARIABLES
    newest,   \* the number of the newest version, 0 when there is none
    skill,    \* current_version (0 while the skill is a draft) and title
    spec,     \* the version of the execution spec: 0 when null, None without a spec
    handler,  \* the requests: where they are and the values they hold
    job,      \* the index job that each handler queues; the command's
    index,    \* the title in the embedding of each version
    shown     \* history: what was ever published, as version and title

vars == <<newest, skill, spec, handler, job, index, shown>>

Numbers == 0 .. MaxVersions
Versions == 1 .. MaxVersions
Jobs == Handlers \cup {Operator}

Handler == [pc : {"idle", "publishing", "published", "syncing", "updating", "updated",
                  "importing", "imported", "saving", "created", "gone"},
            version : Numbers, title : Titles \cup {None}]
Idle == [pc |-> "idle", version |-> 0, title |-> None]
Job == [pc : {"none", "queued", "read", "unindexing", "embedding"},
        version : Numbers, title : Titles \cup {None}, force : BOOLEAN]
Unqueued == [pc |-> "none", version |-> 0, title |-> None, force |-> FALSE]

TypeOK ==
    /\ newest \in Numbers
    /\ skill \in [published : Numbers, title : Titles]
    /\ spec \in Numbers \cup {None}
    /\ handler \in [Handlers -> Handler]
    /\ job \in [Jobs -> Job]
    /\ index \in [Versions -> Titles \cup {None}]
    /\ shown \subseteq Versions \X Titles

\* A draft without versions, or a published version that is not indexed yet.
Init ==
    /\ newest \in {0, 1}
    /\ \E t \in Titles : skill = [published |-> newest, title |-> t]
    /\ spec \in {None, 0, newest}
    /\ handler = [h \in Handlers |-> Idle]
    /\ job = [j \in Jobs |-> Unqueued]
    /\ index = [v \in Versions |-> None]
    /\ shown = {skill.published} \X {skill.title} \cap Versions \X Titles

At(h, pc) == handler[h].pc = pc
To(h, pc) == handler' = [handler EXCEPT ![h].pc = pc]
Ends(h) == handler' = [handler EXCEPT ![h] = [Idle EXCEPT !.pc = "gone"]]

\* The skill has a new title or current version: if it is published, it shows both.
Shows == shown' = IF skill'.published = 0 THEN shown
                  ELSE shown \cup {<<skill'.published, skill'.title>>}

\* queue_skill_discovery_embedding: an enqueue that fails is logged and forgotten.
Queue(h, v, force) ==
    \/ UNCHANGED job
    \/ job' = [job EXCEPT ![h] = [Unqueued EXCEPT !.pc = "queued", !.version = v,
                                                  !.force = force]]

----------------------------------------------------------------------------
(* publish_skill *)

\* The newest version is read, after the skill.
PublishReads(h) ==
    /\ At(h, "idle") /\ newest # 0
    /\ handler' = [handler EXCEPT ![h].pc = "publishing", ![h].version = newest]
    /\ UNCHANGED <<newest, skill, spec, job, index, shown>>

PublishSaves(h) ==
    /\ At(h, "publishing")
    /\ skill' = [skill EXCEPT !.published = handler[h].version]
    /\ Shows
    /\ To(h, "published")
    /\ UNCHANGED <<newest, spec, job, index>>

\* on_commit runs its callback at once, as there is no transaction; then the
\* execution spec is read.
PublishQueues(h) ==
    /\ At(h, "published")
    /\ Queue(h, handler[h].version, TRUE)
    /\ IF spec \in {None, handler[h].version} THEN Ends(h) ELSE To(h, "syncing")
    /\ UNCHANGED <<newest, skill, spec, index, shown>>

PublishSavesSpec(h) ==
    /\ At(h, "syncing")
    /\ spec' = handler[h].version
    /\ Ends(h)
    /\ UNCHANGED <<newest, skill, job, index, shown>>

----------------------------------------------------------------------------
(* update_skill and import_skill *)

\* The handler keeps the current version of its read.
UpdateReads(h) ==
    /\ At(h, "idle")
    /\ handler' = [handler EXCEPT ![h].pc = "updating", ![h].version = skill.published]
    /\ UNCHANGED <<newest, skill, spec, job, index, shown>>

UpdateSaves(h, t) ==
    /\ At(h, "updating")
    /\ skill' = [skill EXCEPT !.title = t]
    /\ Shows
    /\ To(h, "updated")
    /\ UNCHANGED <<newest, spec, job, index>>

\* The job is for the version of the read, whatever was published since.
UpdateQueues(h) ==
    /\ At(h, "updated")
    /\ IF handler[h].version = 0 THEN UNCHANGED job ELSE Queue(h, handler[h].version, FALSE)
    /\ Ends(h)
    /\ UNCHANGED <<newest, skill, spec, index, shown>>

ImportReads(h) ==
    /\ At(h, "idle")
    /\ handler' = [handler EXCEPT ![h].pc = "importing", ![h].title = skill.title]
    /\ UNCHANGED <<newest, skill, spec, job, index, shown>>

\* The transaction of the import, see SkillVersions.
ImportInserts(h) ==
    /\ At(h, "importing") /\ newest < MaxVersions
    /\ newest' = newest + 1
    /\ To(h, "imported")
    /\ UNCHANGED <<skill, spec, job, index, shown>>

\* The title is saved last, from the archive or from the copy; no job is queued.
ImportSaves(h, t) ==
    /\ At(h, "imported")
    /\ skill' = [skill EXCEPT !.title = IF t = None THEN handler[h].title ELSE t]
    /\ Shows
    /\ Ends(h)
    /\ UNCHANGED <<newest, spec, job, index>>

----------------------------------------------------------------------------
(* update_skill_execution_spec, and what may happen to any request *)

SpecReads(h) ==
    /\ At(h, "idle")
    /\ handler' = [handler EXCEPT ![h].pc = "saving", ![h].version = skill.published]
    /\ UNCHANGED <<newest, skill, spec, job, index, shown>>

\* get_or_create commits a spec without a version.
SpecCreates(h) ==
    /\ At(h, "saving")
    /\ spec' = IF spec = None THEN 0 ELSE spec
    /\ To(h, "created")
    /\ UNCHANGED <<newest, skill, job, index, shown>>

\* Variant: the version that is saved is the newest one.
SpecSavesNewest(h) ==
    /\ At(h, "created")
    /\ spec' = newest
    /\ Ends(h)
    /\ UNCHANGED <<newest, skill, job, index, shown>>

SpecSaves(h) ==
    /\ At(h, "created")
    /\ spec' = handler[h].version
    /\ Ends(h)
    /\ UNCHANGED <<newest, skill, job, index, shown>>

\* create_version and revert_version, see SkillVersions.
CreateVersion ==
    /\ newest < MaxVersions
    /\ newest' = newest + 1
    /\ UNCHANGED <<skill, spec, handler, job, index, shown>>

\* An error, or the end of the worker process.
RequestDies(h) ==
    /\ handler[h].pc \notin {"idle", "gone"}
    /\ Ends(h)
    /\ UNCHANGED <<newest, skill, spec, job, index, shown>>

----------------------------------------------------------------------------
(* index_skill_version *)

Becomes(j, pc) == job' = [job EXCEPT ![j].pc = pc]
JobEnds(j) == job' = [job EXCEPT ![j] = Unqueued]

\* The command indexes the version that it found published.
ReindexCommand(force) ==
    /\ job[Operator].pc = "none" /\ skill.published # 0
    /\ job' = [job EXCEPT ![Operator] = [Unqueued EXCEPT !.pc = "queued",
                  !.version = skill.published, !.force = force]]
    /\ UNCHANGED <<newest, skill, spec, handler, index, shown>>

\* Variant: without the check that the version is published.
JobReadsAnyVersion(j) ==
    /\ job[j].pc = "queued"
    /\ job' = [job EXCEPT ![j].pc = "read", ![j].title = skill.title]
    /\ UNCHANGED <<newest, skill, spec, handler, index, shown>>

\* One query returns the version, its skill and the skill's current version.
JobReads(j) ==
    /\ job[j].pc = "queued"
    /\ job' = [job EXCEPT ![j].pc = IF skill.published = job[j].version
                                    THEN "read" ELSE "unindexing",
                          ![j].title = skill.title]
    /\ UNCHANGED <<newest, skill, spec, handler, index, shown>>

JobDeletes(j) ==
    /\ job[j].pc = "unindexing"
    /\ index' = [index EXCEPT ![job[j].version] = None]
    /\ JobEnds(j)
    /\ UNCHANGED <<newest, skill, spec, handler, shown>>

\* Variant: any embedding will do.
JobComparesPresence(j) ==
    /\ job[j].pc = "read"
    /\ IF ~job[j].force /\ index[job[j].version] # None
       THEN JobEnds(j) ELSE Becomes(j, "embedding")
    /\ UNCHANGED <<newest, skill, spec, handler, index, shown>>

\* An embedding of the same text is kept.
JobCompares(j) ==
    /\ job[j].pc = "read"
    /\ IF ~job[j].force /\ index[job[j].version] = job[j].title
       THEN JobEnds(j) ELSE Becomes(j, "embedding")
    /\ UNCHANGED <<newest, skill, spec, handler, index, shown>>

\* The service answered, and the row is updated or created.
JobStores(j) ==
    /\ job[j].pc = "embedding"
    /\ index' = [index EXCEPT ![job[j].version] = job[j].title]
    /\ JobEnds(j)
    /\ UNCHANGED <<newest, skill, spec, handler, shown>>

\* The service fails or the worker dies.  Celery forgets the job, Cloud Tasks
\* delivers it again, and the command stops (before its call of the service it
\* has changed nothing yet).
JobFails(j) ==
    /\ job[j].pc # "none"
    /\ \/ (j = Operator => job[j].pc = "embedding") /\ JobEnds(j)
       \/ j # Operator /\ Becomes(j, "queued")
    /\ UNCHANGED <<newest, skill, spec, handler, index, shown>>

----------------------------------------------------------------------------

Next ==
    \/ \E h \in Handlers :
          \/ PublishReads(h) \/ PublishSaves(h) \/ PublishQueues(h) \/ PublishSavesSpec(h)
          \/ UpdateReads(h) \/ (\E t \in Titles : UpdateSaves(h, t)) \/ UpdateQueues(h)
          \/ ImportReads(h) \/ ImportInserts(h)
          \/ \E t \in Titles \cup {None} : ImportSaves(h, t)
          \/ SpecReads(h) \/ SpecCreates(h) \/ SpecSaves(h)
          \/ RequestDies(h)
    \/ CreateVersion
    \/ \E force \in Forced : ReindexCommand(force)
    \/ \E j \in Jobs : JobReads(j) \/ JobDeletes(j) \/ JobCompares(j) \/ JobStores(j)
                       \/ JobFails(j)

Spec == Init /\ [][Next]_vars

\* An operator runs the command again and again and lets it run, and the embedding
\* service answers it from time to time.
CommandStep ==
    \/ \E force \in Forced : ReindexCommand(force)
    \/ JobReads(Operator) \/ JobDeletes(Operator) \/ JobCompares(Operator)

Fairness == WF_vars(CommandStep) /\ SF_vars(JobStores(Operator))

FairSpec == Spec /\ Fairness

----------------------------------------------------------------------------
(* Properties *)

\* What the index says of a version is a text that the skill has really shown with that
\* version published: no draft and no pair of an old version with a new title
\* gets into it, however late a job stores what it has read.
IndexedWasPublished ==
    \A v \in Versions : index[v] # None => <<v, index[v]>> \in shown

\* The execution spec, whose version the sandbox edits and saves from, never names a
\* version that was not published, however publishing and saving the spec overlap.
SpecWasPublished ==
    spec \in {None, 0} \/ \E t \in Titles : <<spec, t>> \in shown

\* The index catches up: once titles and versions no longer change, the published version
\* is and stays indexed with the present title, in spite of lost jobs, jobs for
\* the wrong version and late ones, if somebody runs the command.
IndexCatchesUp ==
    <>[](skill.published # 0 => index[skill.published] = skill.title)

=============================================================================
