----------------------------- MODULE BackendProofs -----------------------------
(***************************************************************************)
(* Proofs about SkillPublishing, for any number of requests, versions and  *)
(* titles; and about Backend, where those of SkillVersionsProofs are put   *)
(* to use.                                                                 *)
(***************************************************************************)
EXTENDS Backend, TLAPS

USE DEF vars

ConstantsOK == MaxVersions \in Nat \ {0} /\ None \notin Titles /\ Forced \subseteq BOOLEAN

Published(v) == \E t \in Titles : <<v, t>> \in shown

\* What the skill shows is remembered.
SkillOK == skill.published # 0 => <<skill.published, skill.title>> \in shown

\* The version that a request publishes exists; the one that it is about to write into
\* the execution spec was published; an import has a title.
HandlerOK(h) ==
    /\ At(h, "publishing") => handler[h].version # 0
    /\ handler[h].pc \in {"published", "syncing"} => Published(handler[h].version)
    /\ handler[h].pc \in {"saving", "created"} =>
          handler[h].version = 0 \/ Published(handler[h].version)
    /\ handler[h].pc \in {"importing", "imported"} => handler[h].title \in Titles

\* A job is for a version, and what it has read was shown when it was read.
JobOK(j) ==
    /\ job[j].pc # "none" => job[j].version \in Versions
    /\ job[j].pc \in {"read", "embedding"} => <<job[j].version, job[j].title>> \in shown

PublishingInv ==
    /\ TypeOK
    /\ SkillOK
    /\ \A h \in Handlers : HandlerOK(h)
    /\ \A j \in Jobs : JobOK(j)
    /\ IndexedWasPublished
    /\ SpecWasPublished

----------------------------------------------------------------------------

LEMMA InitPublishing == ASSUME ConstantsOK, Init PROVE PublishingInv
<1>1. 0 \in Numbers /\ newest \in Numbers /\ (newest # 0 => newest \in Versions)
  <2>1. MaxVersions \in Nat /\ newest \in {0, 1}
    BY DEF ConstantsOK, Init
  <2>2. newest <= MaxVersions
    BY <2>1 DEF ConstantsOK
  <2>. QED BY <2>1, <2>2 DEF Numbers, Versions
<1>2. PICK t \in Titles : skill = [published |-> newest, title |-> t]
  BY DEF Init
<1>3. shown = IF newest = 0 THEN {} ELSE {<<newest, t>>}
  BY <1>1, <1>2 DEF Init, Versions
<1>4. TypeOK
  BY <1>1, <1>2, <1>3
  DEF Init, TypeOK, Handler, Idle, Job, Unqueued
<1>5. SkillOK /\ SpecWasPublished
  BY <1>2, <1>3 DEF Init, SkillOK, SpecWasPublished
<1>6. (\A h \in Handlers : HandlerOK(h)) /\ (\A j \in Jobs : JobOK(j))
  BY DEF Init, HandlerOK, JobOK, At, Idle, Unqueued
<1>7. IndexedWasPublished
  BY DEF Init, IndexedWasPublished
<1>. QED BY <1>4, <1>5, <1>6, <1>7 DEF PublishingInv

\* What was published stays so, hence what a step leaves alone stays right.
LEMMA Kept ==
  ASSUME PublishingInv, TypeOK', SkillOK', shown \subseteq shown',
         \A h \in Handlers : handler'[h] = handler[h] \/ HandlerOK(h)',
         \A j \in Jobs : job'[j] = job[j] \/ JobOK(j)',
         index' = index \/ IndexedWasPublished', spec' = spec \/ SpecWasPublished'
  PROVE  PublishingInv'
<1>1. \A v : Published(v) => Published(v)'
  BY DEF Published
<1>2. \A h \in Handlers : HandlerOK(h)'
  BY <1>1 DEF PublishingInv, HandlerOK, At
<1>3. \A j \in Jobs : JobOK(j)'
  BY DEF PublishingInv, JobOK
<1>4. IndexedWasPublished'
  BY DEF PublishingInv, IndexedWasPublished
<1>5. SpecWasPublished'
  BY DEF PublishingInv, SpecWasPublished
<1>. QED BY <1>2, <1>3, <1>4, <1>5 DEF PublishingInv

\* A job that was just queued has read nothing.
LEMMA QueueKeeps ==
  ASSUME ConstantsOK, TypeOK, NEW h \in Handlers, NEW v \in Versions, NEW force \in BOOLEAN,
         Queue(h, v, force)
  PROVE  /\ job' \in [Jobs -> Job]
         /\ \A j \in Jobs : job'[j] = job[j] \/ JobOK(j)'
<1>1. Unqueued \in Job /\ [Unqueued EXCEPT !.pc = "queued", !.version = v, !.force = force] \in Job
  <2>1. 0 \in Numbers /\ v \in Numbers
    BY DEF ConstantsOK, Numbers, Versions
  <2>. QED BY <2>1 DEF Unqueued, Job
<1>2. job \in [Jobs -> Job] /\ h \in Jobs
  BY DEF TypeOK, Jobs
<1>. QED BY <1>1, <1>2 DEF Queue, JobOK, Unqueued

LEMMA EndsKeeps ==
  ASSUME TypeOK, NEW h \in Handlers, Ends(h), ConstantsOK
  PROVE  /\ handler' \in [Handlers -> Handler]
         /\ \A g \in Handlers : handler'[g] = handler[g] \/ HandlerOK(g)'
<1>1. [Idle EXCEPT !.pc = "gone"] \in Handler
  BY DEF Idle, Handler, Numbers, ConstantsOK
<1>. QED BY <1>1 DEF Ends, TypeOK, HandlerOK, At, Idle

LEMMA ToTypes ==
  ASSUME TypeOK, NEW h \in Handlers,
         NEW pc \in {"idle", "publishing", "published", "syncing", "updating", "updated",
                     "importing", "imported", "saving", "created", "gone"},
         To(h, pc)
  PROVE  /\ handler' \in [Handlers -> Handler]
         /\ \A g \in Handlers \ {h} : handler'[g] = handler[g]
         /\ handler'[h].pc = pc /\ handler'[h].version = handler[h].version
BY DEF TypeOK, To, Handler

----------------------------------------------------------------------------
(* publish_skill *)

LEMMA PublishReadsKeeps ==
  ASSUME ConstantsOK, PublishingInv, NEW h \in Handlers, PublishReads(h)
  PROVE  PublishingInv'
<1>1. UNCHANGED <<newest, skill, spec, job, index, shown>> /\ newest # 0
      /\ handler' = [handler EXCEPT ![h].pc = "publishing", ![h].version = newest]
  BY DEF PublishReads
<1>2. TypeOK'
  <2>1. handler \in [Handlers -> Handler] /\ newest \in Numbers
    BY DEF PublishingInv, TypeOK
  <2>2. [handler[h] EXCEPT !.pc = "publishing", !.version = newest] \in Handler
    BY <2>1 DEF Handler
  <2>3. handler' = [handler EXCEPT
                       ![h] = [handler[h] EXCEPT !.pc = "publishing", !.version = newest]]
    BY <1>1, <2>1
  <2>4. handler' \in [Handlers -> Handler]
    BY <2>1, <2>2, <2>3
  <2>. QED BY <1>1, <2>4 DEF PublishingInv, TypeOK
<1>3. \A g \in Handlers : handler'[g] = handler[g] \/ HandlerOK(g)'
  BY <1>1 DEF HandlerOK, At, PublishingInv, TypeOK, Handler
<1>4. SkillOK'
  BY <1>1 DEF PublishingInv, SkillOK
<1>. QED BY <1>1, <1>2, <1>3, <1>4, Kept

LEMMA PublishSavesKeeps ==
  ASSUME ConstantsOK, PublishingInv, NEW h \in Handlers, PublishSaves(h)
  PROVE  PublishingInv'
<1>1. UNCHANGED <<newest, spec, job, index>> /\ At(h, "publishing") /\ To(h, "published")
      /\ skill' = [skill EXCEPT !.published = handler[h].version] /\ Shows
  BY DEF PublishSaves
<1>2. handler[h].version \in Versions
  BY <1>1 DEF PublishingInv, TypeOK, Handler, HandlerOK, Numbers, Versions, ConstantsOK
<1>3. /\ skill'.published = handler[h].version /\ skill'.title = skill.title
      /\ skill.title \in Titles /\ skill' \in [published : Numbers, title : Titles]
  BY <1>1, <1>2 DEF PublishingInv, TypeOK, Handler
<1>4. shown' = shown \cup {<<handler[h].version, skill.title>>}
  BY <1>1, <1>2, <1>3 DEF Shows, Versions
<1>5. TypeOK'
  BY <1>1, <1>2, <1>3, <1>4, ToTypes DEF PublishingInv, TypeOK
<1>6. HandlerOK(h)' /\ \A g \in Handlers \ {h} : handler'[g] = handler[g]
  BY <1>1, <1>3, <1>4, ToTypes DEF HandlerOK, At, Published, PublishingInv
<1>7. SkillOK'
  BY <1>3, <1>4 DEF SkillOK
<1>. QED BY <1>1, <1>4, <1>5, <1>6, <1>7, Kept

LEMMA PublishQueuesKeeps ==
  ASSUME ConstantsOK, PublishingInv, NEW h \in Handlers, PublishQueues(h)
  PROVE  PublishingInv'
<1>1. UNCHANGED <<newest, skill, spec, index, shown>> /\ At(h, "published")
      /\ Queue(h, handler[h].version, TRUE) /\ (Ends(h) \/ To(h, "syncing"))
  BY DEF PublishQueues
<1>2. TypeOK /\ handler[h].version \in Versions
  BY <1>1 DEF PublishingInv, TypeOK, Handler, HandlerOK, At, Published
<1>3. job' \in [Jobs -> Job] /\ \A j \in Jobs : job'[j] = job[j] \/ JobOK(j)'
  BY <1>1, <1>2, QueueKeeps
<1>4. /\ handler' \in [Handlers -> Handler]
      /\ \A g \in Handlers : handler'[g] = handler[g] \/ HandlerOK(g)'
  <2>1. CASE Ends(h)
    BY <1>2, <2>1, EndsKeeps
  <2>2. CASE To(h, "syncing")
    <3>1. HandlerOK(h)'
      BY <1>1, <1>2, <2>2, ToTypes DEF HandlerOK, At, Published, PublishingInv
    <3>. QED BY <1>2, <2>2, <3>1, ToTypes
  <2>. QED BY <1>1, <2>1, <2>2
<1>5. TypeOK' /\ SkillOK'
  BY <1>1, <1>3, <1>4 DEF PublishingInv, TypeOK, SkillOK
<1>. QED BY <1>1, <1>3, <1>4, <1>5, Kept

\* Both handlers that write the execution spec.
LEMMA SpecSavedKeeps ==
  ASSUME ConstantsOK, PublishingInv, NEW h \in Handlers, PublishSavesSpec(h) \/ SpecSaves(h)
  PROVE  PublishingInv'
<1>1. UNCHANGED <<newest, skill, job, index, shown>> /\ Ends(h)
      /\ spec' = handler[h].version /\ handler[h].pc \in {"syncing", "created"}
  BY DEF PublishSavesSpec, SpecSaves, At
<1>2. handler[h].version = 0 \/ Published(handler[h].version)
  BY <1>1 DEF PublishingInv, HandlerOK
<1>3. SpecWasPublished'
  BY <1>1, <1>2 DEF SpecWasPublished, Published
<1>4. TypeOK' /\ SkillOK'
  BY <1>1, EndsKeeps DEF PublishingInv, TypeOK, SkillOK, Handler
<1>5. \A g \in Handlers : handler'[g] = handler[g] \/ HandlerOK(g)'
  BY <1>1, EndsKeeps DEF PublishingInv
<1>. QED BY <1>1, <1>3, <1>4, <1>5, Kept

----------------------------------------------------------------------------
(* update_skill, import_skill and update_skill_execution_spec *)

\* The steps that read, and the last ones of an import without its title.
LEMMA ReadsKeep ==
  ASSUME ConstantsOK, PublishingInv, NEW h \in Handlers,
         UpdateReads(h) \/ ImportReads(h) \/ ImportInserts(h) \/ SpecReads(h)
  PROVE  PublishingInv'
<1>1. UNCHANGED <<skill, spec, job, index, shown>> /\ newest' \in Numbers
  BY DEF UpdateReads, ImportReads, ImportInserts, SpecReads, PublishingInv, TypeOK,
         ConstantsOK, Numbers
<1>2. TypeOK /\ skill.published \in Numbers /\ skill.title \in Titles
  BY DEF PublishingInv, TypeOK
<1>3. skill.published = 0 \/ Published(skill.published)
  BY <1>2 DEF PublishingInv, SkillOK, Published
<1>4. handler' \in [Handlers -> Handler]
  BY <1>2 DEF UpdateReads, ImportReads, ImportInserts, SpecReads, To, TypeOK, Handler
<1>5. \A g \in Handlers : handler'[g] = handler[g] \/ HandlerOK(g)'
  <2>1. \A g \in Handlers \ {h} : handler'[g] = handler[g]
    BY <1>2 DEF UpdateReads, ImportReads, ImportInserts, SpecReads, To, TypeOK
  <2>2. \/ handler'[h].pc \in {"updating", "importing", "imported"}
        \/ handler'[h].pc = "saving" /\ handler'[h].version = skill.published
    BY <1>2 DEF UpdateReads, ImportReads, ImportInserts, SpecReads, To, TypeOK, Handler
  <2>3. handler'[h].pc \in {"importing", "imported"} => handler'[h].title \in Titles
    BY <1>2 DEF UpdateReads, ImportReads, ImportInserts, SpecReads, To, TypeOK, Handler,
                PublishingInv, HandlerOK, At
  <2>4. HandlerOK(h)'
    BY <1>1, <1>3, <2>2, <2>3 DEF HandlerOK, At, Published
  <2>. QED BY <2>1, <2>4
<1>6. TypeOK' /\ SkillOK'
  BY <1>1, <1>4 DEF PublishingInv, TypeOK, SkillOK
<1>. QED BY <1>1, <1>5, <1>6, Kept

\* The steps that save a title.
LEMMA TitleKeeps ==
  ASSUME ConstantsOK, PublishingInv, NEW h \in Handlers,
         \/ \E t \in Titles : UpdateSaves(h, t)
         \/ \E t \in Titles \cup {None} : ImportSaves(h, t)
  PROVE  PublishingInv'
<1>1. PICK t \in Titles : skill' = [skill EXCEPT !.title = t]
  BY DEF UpdateSaves, ImportSaves, PublishingInv, HandlerOK, At
<1>2. UNCHANGED <<newest, spec, job, index>> /\ Shows
      /\ (Ends(h) \/ (To(h, "updated") /\ At(h, "updating")))
  BY DEF UpdateSaves, ImportSaves
<1>3. TypeOK /\ skill'.published = skill.published /\ skill'.title = t
      /\ skill' \in [published : Numbers, title : Titles]
  BY <1>1 DEF PublishingInv, TypeOK
<1>4. skill.published # 0 => skill.published \in Versions
  BY <1>3 DEF TypeOK, Numbers, Versions, ConstantsOK
<1>5. shown \subseteq shown' /\ shown' \subseteq Versions \X Titles /\ SkillOK'
  BY <1>2, <1>3, <1>4 DEF Shows, SkillOK, TypeOK
<1>6. /\ handler' \in [Handlers -> Handler]
      /\ \A g \in Handlers : handler'[g] = handler[g] \/ HandlerOK(g)'
  <2>1. CASE Ends(h)
    BY <1>3, <2>1, EndsKeeps
  <2>2. CASE To(h, "updated") /\ At(h, "updating")
    BY <1>3, <2>2, ToTypes DEF HandlerOK, At
  <2>. QED BY <1>2, <2>1, <2>2
<1>7. TypeOK'
  BY <1>2, <1>3, <1>5, <1>6 DEF TypeOK
<1>. QED BY <1>2, <1>5, <1>6, <1>7, Kept

LEMMA SpecCreatesKeeps ==
  ASSUME ConstantsOK, PublishingInv, NEW h \in Handlers, SpecCreates(h)
  PROVE  PublishingInv'
<1>1. UNCHANGED <<newest, skill, job, index, shown>> /\ spec' \in {spec, 0}
      /\ At(h, "saving") /\ To(h, "created") /\ TypeOK
  BY DEF SpecCreates, PublishingInv
<1>2. SpecWasPublished'
  BY <1>1 DEF PublishingInv, SpecWasPublished
<1>3. HandlerOK(h)' /\ \A g \in Handlers \ {h} : handler'[g] = handler[g]
  BY <1>1, ToTypes DEF HandlerOK, At, Published, PublishingInv
<1>4. TypeOK' /\ SkillOK'
  BY <1>1, ToTypes DEF PublishingInv, TypeOK, SkillOK, Numbers, ConstantsOK
<1>. QED BY <1>1, <1>2, <1>3, <1>4, Kept

\* The end of a request that leaves the skill alone, and a new version.
LEMMA OthersKeep ==
  ASSUME ConstantsOK, PublishingInv,
         \/ CreateVersion
         \/ \E h \in Handlers : RequestDies(h) \/ UpdateQueues(h)
  PROVE  PublishingInv'
<1>1. UNCHANGED <<skill, spec, index, shown>> /\ newest' \in Numbers /\ TypeOK
  <2>1. newest \in Numbers /\ (newest < MaxVersions => newest + 1 \in Numbers)
    BY DEF PublishingInv, TypeOK, ConstantsOK, Numbers
  <2>. QED BY <2>1 DEF CreateVersion, RequestDies, UpdateQueues, PublishingInv
<1>2. /\ handler' \in [Handlers -> Handler]
      /\ \A g \in Handlers : handler'[g] = handler[g] \/ HandlerOK(g)'
  BY <1>1, EndsKeeps DEF CreateVersion, RequestDies, UpdateQueues, TypeOK
<1>3. job' \in [Jobs -> Job] /\ \A j \in Jobs : job'[j] = job[j] \/ JobOK(j)'
  <2>1. CASE job' = job
    BY <1>1, <2>1 DEF TypeOK
  <2>2. ASSUME NEW h \in Handlers, handler[h].version # 0,
               Queue(h, handler[h].version, FALSE)
        PROVE  job' \in [Jobs -> Job] /\ \A j \in Jobs : job'[j] = job[j] \/ JobOK(j)'
    <3>1. handler[h].version \in Versions
      BY <1>1, <2>2 DEF TypeOK, Handler, Numbers, Versions, ConstantsOK
    <3>. QED BY <1>1, <2>2, <3>1, QueueKeeps
  <2>. QED BY <2>1, <2>2 DEF CreateVersion, RequestDies, UpdateQueues
<1>4. TypeOK' /\ SkillOK'
  BY <1>1, <1>2, <1>3 DEF PublishingInv, TypeOK, SkillOK
<1>. QED BY <1>1, <1>2, <1>3, <1>4, Kept

----------------------------------------------------------------------------
(* index_skill_version *)

\* What a step of one job has to show.
LEMMA JobKeeps ==
  ASSUME ConstantsOK, PublishingInv, UNCHANGED <<newest, skill, spec, handler, shown>>,
         NEW j \in Jobs, NEW to \in Job, job' = [job EXCEPT ![j] = to],
         to.pc # "none" => to.version \in Versions,
         to.pc \in {"read", "embedding"} => <<to.version, to.title>> \in shown,
         index' \in [Versions -> Titles \cup {None}],
         index' = index \/ IndexedWasPublished'
  PROVE  PublishingInv'
<1>1. job \in [Jobs -> Job]
  BY DEF PublishingInv, TypeOK
<1>2. TypeOK' /\ SkillOK'
  BY <1>1 DEF PublishingInv, TypeOK, SkillOK
<1>3. \A k \in Jobs : job'[k] = job[k] \/ JobOK(k)'
  BY <1>1 DEF JobOK
<1>. QED BY <1>2, <1>3, Kept

LEMMA JobTypes ==
  ASSUME ConstantsOK, TypeOK, NEW j \in Jobs
  PROVE  /\ Unqueued \in Job /\ Unqueued.pc = "none"
         /\ job[j] \in Job /\ job \in [Jobs -> Job]
         /\ index \in [Versions -> Titles \cup {None}]
         /\ \A pc \in {"none", "queued", "read", "unindexing", "embedding"} :
               [job[j] EXCEPT !.pc = pc] \in Job
<1>1. 0 \in Numbers
  BY DEF ConstantsOK, Numbers
<1>. QED BY <1>1 DEF Unqueued, Job, TypeOK

LEMMA ReindexKeeps ==
  ASSUME ConstantsOK, PublishingInv, NEW force \in Forced, ReindexCommand(force)
  PROVE  PublishingInv'
<1> DEFINE to == [Unqueued EXCEPT !.pc = "queued", !.version = skill.published,
                                  !.force = force]
<1>1. skill.published \in Numbers /\ force \in BOOLEAN /\ Operator \in Jobs /\ TypeOK
  BY DEF PublishingInv, TypeOK, ConstantsOK, Jobs
<1>2. to \in Job /\ to.pc = "queued" /\ to.version \in Versions
  <2>1. skill.published \in Versions
    BY <1>1 DEF ReindexCommand, Numbers, Versions, ConstantsOK
  <2>2. Unqueued \in Job
    BY <1>1, JobTypes
  <2>. QED BY <1>1, <2>1, <2>2 DEF Unqueued, Job
<1>3. job' = [job EXCEPT ![Operator] = to] /\ UNCHANGED <<newest, skill, spec, handler, index, shown>>
  BY DEF ReindexCommand
<1>4. index' \in [Versions -> Titles \cup {None}]
  BY <1>1, <1>3 DEF TypeOK
<1> HIDE DEF to
<1>. QED BY <1>1, <1>2, <1>3, <1>4, JobKeeps

LEMMA JobReadsKeeps ==
  ASSUME ConstantsOK, PublishingInv, NEW j \in Jobs, JobReads(j)
  PROVE  PublishingInv'
<1>1. PICK pc \in {"read", "unindexing"} :
         /\ job' = [job EXCEPT ![j].pc = pc, ![j].title = skill.title]
         /\ pc = "read" => skill.published = job[j].version
         /\ UNCHANGED <<newest, skill, spec, handler, index, shown>>
  BY DEF JobReads
<1> DEFINE to == [job[j] EXCEPT !.pc = pc, !.title = skill.title]
<1>2. TypeOK /\ job[j] \in Job /\ job \in [Jobs -> Job] /\ skill.title \in Titles
      /\ index' \in [Versions -> Titles \cup {None}]
  BY <1>1, JobTypes DEF PublishingInv, TypeOK
<1>3. to \in Job /\ to.pc = pc /\ to.version = job[j].version /\ to.title = skill.title
  BY <1>1, <1>2 DEF Job
<1>4. job' = [job EXCEPT ![j] = to]
  BY <1>1, <1>2
<1>5. job[j].version \in Versions
  BY DEF JobReads, PublishingInv, JobOK
<1>6. pc = "read" => <<to.version, to.title>> \in shown
  BY <1>1, <1>3, <1>5 DEF PublishingInv, SkillOK, Versions
<1> HIDE DEF to
<1>. QED BY <1>1, <1>2, <1>3, <1>4, <1>5, <1>6, JobKeeps

\* The steps that leave the index alone.
LEMMA JobMovesKeeps ==
  ASSUME ConstantsOK, PublishingInv, NEW j \in Jobs, JobCompares(j) \/ JobFails(j)
  PROVE  PublishingInv'
<1>1. UNCHANGED <<newest, skill, spec, handler, index, shown>>
      /\ (JobEnds(j) \/ Becomes(j, "queued") \/ (Becomes(j, "embedding") /\ job[j].pc = "read"))
      /\ job[j].pc # "none"
  BY DEF JobCompares, JobFails
<1>2. TypeOK /\ job[j].version \in Versions
      /\ (job[j].pc = "read" => <<job[j].version, job[j].title>> \in shown)
  BY <1>1 DEF PublishingInv, JobOK
<1>3. index' \in [Versions -> Titles \cup {None}]
  BY <1>1, <1>2 DEF TypeOK
<1>4. CASE JobEnds(j)
  BY <1>1, <1>2, <1>3, <1>4, JobTypes, JobKeeps DEF JobEnds
<1>5. ASSUME NEW pc \in {"queued", "embedding"}, Becomes(j, pc),
             pc = "embedding" => job[j].pc = "read"
      PROVE  PublishingInv'
  <2> DEFINE to == [job[j] EXCEPT !.pc = pc]
  <2>1. /\ to \in Job /\ to.pc = pc /\ to.version = job[j].version
        /\ to.title = job[j].title /\ job' = [job EXCEPT ![j] = to]
    BY <1>2, <1>5, JobTypes DEF Becomes, Job
  <2> HIDE DEF to
  <2>. QED BY <1>1, <1>2, <1>3, <1>5, <2>1, JobKeeps
<1>. QED BY <1>1, <1>4, <1>5

\* The row of the job's version is deleted, or holds what the job has read.
LEMMA JobWritesKeeps ==
  ASSUME ConstantsOK, PublishingInv, NEW j \in Jobs, JobDeletes(j) \/ JobStores(j)
  PROVE  PublishingInv'
<1>1. TypeOK /\ job[j] \in Job /\ index \in [Versions -> Titles \cup {None}]
  BY JobTypes DEF PublishingInv
<1>2. PICK t \in Titles \cup {None} :
         /\ index' = [index EXCEPT ![job[j].version] = t]
         /\ t # None => <<job[j].version, t>> \in shown
  BY <1>1 DEF JobDeletes, JobStores, Job, PublishingInv, JobOK
<1>3. UNCHANGED <<newest, skill, spec, handler, shown>> /\ JobEnds(j)
  BY DEF JobDeletes, JobStores
<1>4. index' \in [Versions -> Titles \cup {None}]
  BY <1>1, <1>2
<1>5. IndexedWasPublished'
  BY <1>1, <1>2, <1>3 DEF PublishingInv, IndexedWasPublished
<1>. QED BY <1>1, <1>3, <1>4, <1>5, JobTypes, JobKeeps DEF JobEnds

----------------------------------------------------------------------------

LEMMA NextPublishing == ASSUME ConstantsOK, PublishingInv, [Next]_vars PROVE PublishingInv'
<1>1. CASE UNCHANGED vars
  <2>1. TypeOK' /\ SkillOK'
    BY <1>1 DEF PublishingInv, TypeOK, SkillOK
  <2>. QED BY <1>1, <2>1, Kept
<1>2. ASSUME NEW h \in Handlers,
             PublishReads(h) \/ PublishSaves(h) \/ PublishQueues(h) \/ PublishSavesSpec(h)
      PROVE  PublishingInv'
  BY <1>2, PublishReadsKeeps, PublishSavesKeeps, PublishQueuesKeeps, SpecSavedKeeps
<1>3. ASSUME NEW h \in Handlers,
             \/ UpdateReads(h) \/ ImportReads(h) \/ ImportInserts(h) \/ SpecReads(h)
             \/ \E t \in Titles : UpdateSaves(h, t)
             \/ \E t \in Titles \cup {None} : ImportSaves(h, t)
      PROVE  PublishingInv'
  BY <1>3, ReadsKeep, TitleKeeps
<1>4. ASSUME NEW h \in Handlers, SpecCreates(h) \/ SpecSaves(h)
      PROVE  PublishingInv'
  BY <1>4, SpecCreatesKeeps, SpecSavedKeeps
<1>5. CASE CreateVersion \/ \E h \in Handlers : RequestDies(h) \/ UpdateQueues(h)
  BY <1>5, OthersKeep
<1>6. CASE \E force \in Forced : ReindexCommand(force)
  BY <1>6, ReindexKeeps
<1>7. ASSUME NEW j \in Jobs,
             JobReads(j) \/ JobDeletes(j) \/ JobCompares(j) \/ JobStores(j) \/ JobFails(j)
      PROVE  PublishingInv'
  BY <1>7, JobReadsKeeps, JobMovesKeeps, JobWritesKeeps
<1>. QED BY <1>1, <1>2, <1>3, <1>4, <1>5, <1>6, <1>7 DEF Next

\* In every reachable state, what requests and jobs hold in memory was published once.
THEOREM PublishingInvariant == ConstantsOK => (Spec => []PublishingInv)
<1>. SUFFICES ASSUME ConstantsOK
              PROVE  Spec => []PublishingInv
  OBVIOUS
<1>1. Init => PublishingInv
  BY InitPublishing
<1>2. PublishingInv /\ [Next]_vars => PublishingInv'
  BY NextPublishing
<1>. QED BY <1>1, <1>2, PTL DEF Spec

\* The index never holds a text that the skill has not shown while that version was
\* published.
THEOREM IndexHoldsPublishedTexts == ConstantsOK => (Spec => []IndexedWasPublished)
<1>1. PublishingInv => IndexedWasPublished
  BY DEF PublishingInv
<1>. QED BY <1>1, PublishingInvariant, PTL

\* The execution spec never names a version that was not published.
THEOREM SpecNamesPublished == ConstantsOK => (Spec => []SpecWasPublished)
<1>1. PublishingInv => SpecWasPublished
  BY DEF PublishingInv
<1>. QED BY <1>1, PublishingInvariant, PTL

----------------------------------------------------------------------------
(* The two parts of the backend together *)

WritersTheory == INSTANCE SkillVersionsProofs

LEMMA TheoryAssumptions ==
    WritersTheory!SanitizedAssumption /\ WritersTheory!MarkersAssumption
BY WritersAssumption DEF WritersTheory!SanitizedAssumption, WritersTheory!MarkersAssumption

\* The theory is about the writers of Backend: it has the same definitions.
LEMMA SameWriters ==
    /\ Writers!Init <=> WritersTheory!Init
    /\ Writers!Next <=> WritersTheory!Next
    /\ (UNCHANGED Writers!vars) <=> UNCHANGED WritersTheory!vars
    /\ Writers!TypeOK <=> WritersTheory!TypeOK
<1>. USE DEF Writers!vars, WritersTheory!vars, Writers!Trees, WritersTheory!Trees,
             Writers!EmptyTree, WritersTheory!EmptyTree, Writers!FileRows,
             WritersTheory!FileRows, Writers!VersionRow,
             WritersTheory!VersionRow, Writers!Uncommitted,
             WritersTheory!Uncommitted, Writers!Committed,
             WritersTheory!Committed, Writers!IsNewest, WritersTheory!IsNewest,
             Writers!Number, WritersTheory!Number, Writers!Kinds,
             WritersTheory!Kinds, Writers!Payload, WritersTheory!Payload,
             Writers!NoPayload, WritersTheory!NoPayload, Writers!RequestPC,
             WritersTheory!RequestPC, Writers!Open, WritersTheory!Open,
             Writers!Request, WritersTheory!Request, Writers!FileHistory,
             WritersTheory!FileHistory, Writers!ResolveFile,
             WritersTheory!ResolveFile, Writers!ResolveFiles,
             WritersTheory!ResolveFiles, Writers!ComputeFileDelta,
             WritersTheory!ComputeFileDelta, Writers!Init, WritersTheory!Init,
             Writers!At, WritersTheory!At, Writers!Asks, WritersTheory!Asks,
             Writers!Goto, WritersTheory!Goto, Writers!Latest,
             WritersTheory!Latest, Writers!Target, WritersTheory!Target,
             Writers!Receive, WritersTheory!Receive, Writers!CreateVersion,
             WritersTheory!CreateVersion, Writers!ImportSkill,
             WritersTheory!ImportSkill, Writers!RevertVersion,
             WritersTheory!RevertVersion, Writers!SelectLatest,
             WritersTheory!SelectLatest, Writers!HoldsLock,
             WritersTheory!HoldsLock, Writers!LockLatest,
             WritersTheory!LockLatest, Writers!SubmissionUnchanged,
             WritersTheory!SubmissionUnchanged, Writers!RevertUnchanged,
             WritersTheory!RevertUnchanged, Writers!RevertsToLatest,
             WritersTheory!RevertsToLatest, Writers!RefuseLatest,
             WritersTheory!RefuseLatest, Writers!RefuseUnchanged,
             WritersTheory!RefuseUnchanged, Writers!Submitted,
             WritersTheory!Submitted, Writers!Draft, WritersTheory!Draft,
             Writers!Accepts, WritersTheory!Accepts, Writers!Taken,
             WritersTheory!Taken, Writers!Reserved, WritersTheory!Reserved,
             Writers!InsertVersion, WritersTheory!InsertVersion,
             Writers!InsertConflicts, WritersTheory!InsertConflicts,
             Writers!CommitVersion, WritersTheory!CommitVersion,
             Writers!WorkerDies, WritersTheory!WorkerDies, Writers!Proceed,
             WritersTheory!Proceed, Writers!Next, WritersTheory!Next,
             Writers!TypeOK, WritersTheory!TypeOK
<1>1. Writers!Init <=> WritersTheory!Init
  OBVIOUS
<1>2. Writers!Next <=> WritersTheory!Next
  OBVIOUS
<1>3. (UNCHANGED Writers!vars) <=> UNCHANGED WritersTheory!vars
  OBVIOUS
<1>4. Writers!TypeOK <=> WritersTheory!TypeOK
  OBVIOUS
<1>. QED BY ONLY <1>1, <1>2, <1>3, <1>4

\* Whichever part is looked at, the other stays in an initial state: a behaviour of the
\* backend is one of each part.
LEMMA BackendIsEach == BackendSpec => Spec /\ WritersTheory!Spec
<1>1. BackendInit => Init /\ WritersTheory!Init
  BY SameWriters DEF BackendInit
<1>2. [BackendNext]_<<part, vars, writers>> => [Next]_vars /\ [Writers!Next]_Writers!vars
  BY DEF BackendNext, writers, Writers!vars
<1>3. [Writers!Next]_Writers!vars => [WritersTheory!Next]_WritersTheory!vars
  BY SameWriters
<1>. QED BY <1>1, <1>2, <1>3, PTL DEF BackendSpec, Spec, WritersTheory!Spec

\* Every variable of publishing, of the index and of the writers has its type, for any
\* number of requests, versions, titles and files.
THEOREM BackendTypeCorrect == ConstantsOK => (BackendSpec => []BackendTypeOK)
<1>. SUFFICES ASSUME ConstantsOK PROVE BackendSpec => []BackendTypeOK
  OBVIOUS
<1>1. WritersTheory!Spec => []WritersTheory!TypeOK
  BY TheoryAssumptions, WritersTheory!TypeCorrect
<1>2. PublishingInv /\ WritersTheory!TypeOK => BackendTypeOK
  BY SameWriters DEF PublishingInv, BackendTypeOK
<1>. QED BY <1>1, <1>2, PublishingInvariant, BackendIsEach, PTL

=============================================================================
