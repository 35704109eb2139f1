--------------------------- MODULE SkillExecution ---------------------------
(***************************************************************************)
(* The life of skill execution runs: the execute endpoint that admits,     *)
(* records and dispatches a run, the Cloud Run job that executes it, the   *)
(* callback and secrets endpoints the job talks to, the cancel endpoint    *)
(* and the cleanup command (src/backend/apps/skills/{api,execution}.py,    *)
(* management/commands/cleanup_stuck_skill_runs.py and                     *)
(* src/skill-executor/executor/run.py).                                    *)
(*                                                                         *)
(* The backend has no ATOMIC_REQUESTS: every ORM statement commits alone,  *)
(* so a handler that reads a row, decides and saves it is two steps here,  *)
(* and decides from its in-memory copy of the row.  A save writes only the *)
(* columns named by update_fields; the other columns keep the value the    *)
(* database has.  Of a copy only started_at is kept: it decides whether a  *)
(* save writes that column.                                                *)
(*                                                                         *)
(* One skill is modelled.  A run is identified with the execute request    *)
(* that creates it (a request creates at most one row).                    *)
(***************************************************************************)
EXTENDS Integers, FiniteSets

CONSTANTS
    Runs,               \* execute requests, each with the run row it may create
    Versions,           \* versions of the skill that are published at some time
    NeedsApproval,      \* the versions whose metadata requires human approval
    NoVersion,          \* the version of a row that does not exist yet
    MaxConcurrentRuns,  \* spec.max_concurrent_runs
    MaxRunsPerDay,      \* spec.max_runs_per_day
    LastDay,            \* the model stops rolling the date over at this day
    MaxAttempts,        \* executions of one job: 1 + the job's max-retries
    Backends            \* the values of SKILL_EXECUTION_BACKEND considered

ASSUME ConstantsAssumption ==
    /\ NeedsApproval \subseteq Versions
    /\ NoVersion \notin Versions
    /\ MaxConcurrentRuns \in Nat
    /\ MaxRunsPerDay \in Nat
    /\ LastDay \in Nat \ {0}
    /\ MaxAttempts \in Nat \ {0}
    /\ Backends \subseteq {"cloud_run_jobs", "inline_echo", "record_only"}

ASSUME RunsFinite == IsFiniteSet(Runs)

VARIABLES
    backend,      \* settings.SKILL_EXECUTION_BACKEND
    current,      \* skill.current_version
    today,        \* timezone.localdate()
    quota,        \* SkillExecutionQuotaCounter.run_count of each day
    row,          \* the SkillExecutionRun rows
    request,      \* the execute_skill request of each run
    token,        \* the tokens issued for a run: none, valid or expired
    job,          \* the Cloud Run execution of each run
    callback,     \* the callback requests of each attempt and their handlers
    fetch,        \* the secrets request of each attempt
    scripts,      \* how often a run's entrypoint was started (history)
    cancel        \* the handler of a cancel request for a run

skillVars == <<backend, current, today>>
requestVars == <<quota, request, token>>
jobVars == <<job, scripts>>
serverVars == <<callback, fetch, cancel>>
vars == <<skillVars, row, requestVars, jobVars, serverVars>>

----------------------------------------------------------------------------
(* Data *)

Days == 1 .. LastDay
Attempts == 1 .. MaxAttempts

ActiveStatuses == {"queued", "running"}
TerminalStatuses == {"succeeded", "failed", "timeout", "cancelled"}
Cancellable == {"pending_approval", "queued", "running"}
StatusChoices == Cancellable \cup TerminalStatuses

\* The timestamp columns of a row; "dates" is the set of those that are set.
Dates == {"approved_at", "started_at", "finished_at", "secrets_fetched_at"}

\* "none" is the status of a row that has not been inserted.
RunRow == [status : StatusChoices \cup {"none"},
           dates : SUBSET Dates,
           version : Versions \cup {NoVersion}]
NoRow == [status |-> "none", dates |-> {}, version |-> NoVersion]

\* started_at in a handler's copy of the row: set or not.
Seen == SUBSET {"started_at"}

\* version is what the request read, approval the approved_at it will store,
\* chargedOn the day whose quota it used (0 when none), and seen what the
\* dispatch-failure handler refreshed.
RequestPC == {"idle", "check", "charge", "create", "dispatch", "accepted",
              "rejected", "failing", "marking", "answered", "refused",
              "failed", "dead"}
Approval == SUBSET {"approved_at"}
Request == [pc : RequestPC, version : Versions \cup {NoVersion},
            approval : Approval, chargedOn : Days \cup {0},
            seen : Seen]
NoRequest == [pc |-> "idle", version |-> NoVersion, approval |-> {},
              chargedOn |-> 0, seen |-> {}]

JobPC == {"absent", "pending", "prepare", "fetch", "script", "result",
          "fallback", "exited", "completed"}
Job == [pc : JobPC, attempt : Attempts \cup {0}]
NoJob == [pc |-> "absent", attempt |-> 0]

\* The three callbacks an execution may send: the best-effort "running", the
\* result, and the failure reported by the executor's last except clause.
\* Only the answer to a result changes what the executor does.
CallbackKinds == {"running", "result", "fallback"}
Reported == {"running", "succeeded", "failed", "timeout"}
Callback == [pc : {"unsent", "sent", "read", "ok", "refused"},
             status : Reported, seen : Seen]
Unsent == [pc |-> "unsent", status |-> "running", seen |-> {}]

FetchPC == {"unsent", "sent", "granted", "denied"}

Cancel == [pc : {"idle", "read"}, seen : Seen]
NoCancel == [pc |-> "idle", seen |-> {}]

SeenStart(r) == row[r].dates \cap {"started_at"}
ActiveRuns == {r \in Runs : row[r].status \in ActiveStatuses}
ChargedOn(d) == {r \in Runs : request[r].chargedOn = d}
Terminal(r) == row[r].status \in TerminalStatuses

\* A save of the status and the dates of a row.
Save(r, status, dates) ==
    row' = [row EXCEPT ![r].status = status, ![r].dates = @ \cup dates]

\* Variant: no save sets started_at.
NeverStart(seen) == {}

\* started_at is saved only by a handler whose copy of the row had none.
StartUnless(seen) == {"started_at"} \ seen

----------------------------------------------------------------------------
(* Initial states: a skill without runs *)

Init ==
    /\ backend \in Backends
    /\ current \in Versions
    /\ today = 1
    /\ quota = [d \in Days |-> 0]
    /\ row = [r \in Runs |-> NoRow]
    /\ request = [r \in Runs |-> NoRequest]
    /\ token = [r \in Runs |-> "none"]
    /\ job = [r \in Runs |-> NoJob]
    /\ scripts = [r \in Runs |-> 0]
    /\ callback = [r \in Runs |->
           [a \in Attempts |-> [kind \in CallbackKinds |-> Unsent]]]
    /\ fetch = [r \in Runs |-> [a \in Attempts |-> "unsent"]]
    /\ cancel = [r \in Runs |-> NoCancel]

----------------------------------------------------------------------------
(* The skill, and time *)

\* Publishing another version changes what later execute requests read.
PublishVersion(v) ==
    /\ v # current
    /\ current' = v
    /\ UNCHANGED <<backend, today, row, requestVars, jobVars, serverVars>>

Midnight ==
    /\ today < LastDay
    /\ today' = today + 1
    /\ UNCHANGED <<backend, current, row, requestVars, jobVars, serverVars>>

\* Both tokens of a run carry the same expiry: timeout_seconds + 300.
TokensExpire(r) ==
    /\ token[r] = "valid"
    /\ token' = [token EXCEPT ![r] = "expired"]
    /\ UNCHANGED <<skillVars, row, quota, request, jobVars, serverVars>>

----------------------------------------------------------------------------
(* POST /skills/{slug}/execute *)

\* The request moves from one step to the next.
Goto(r, from, to) ==
    /\ request[r].pc = from
    /\ request' = [request EXCEPT ![r].pc = to]

NeedsAsking(version, approval) == version \in NeedsApproval /\ approval = {}
AwaitsApproval(r) == NeedsAsking(request[r].version, request[r].approval)

ReadSkill(r, approval, next) ==
    /\ request[r].pc = "idle"
    /\ request' = [request EXCEPT ![r].pc = next,
                                  ![r].version = current,
                                  ![r].approval = approval]
    /\ UNCHANGED <<skillVars, row, quota, token, jobVars, serverVars>>

\* Variant: a version that requires approval skips the limits also when the
\* request carries the approval.
ExecuteSkillUnlimited(r, approval) ==
    \/ current \in NeedsApproval /\ ReadSkill(r, approval, "create")
    \/ current \notin NeedsApproval /\ ReadSkill(r, approval, "check")

\* The request reads the skill with its current version once; that version
\* decides whether approval is needed and is the one the row will carry.  A
\* request refused before anything is stored (no access, execution disabled,
\* no specification, invalid inputs) is one that does not take this step.
ExecuteSkill(r, approval) ==
    \/ NeedsAsking(current, approval) /\ ReadSkill(r, approval, "create")
    \/ ~NeedsAsking(current, approval) /\ ReadSkill(r, approval, "check")

\* A count without a lock: 429 at the limit, otherwise the request goes on.
EnforceSkillConcurrency(r) ==
    /\ \/ /\ Cardinality(ActiveRuns) >= MaxConcurrentRuns
          /\ Goto(r, "check", "refused")
       \/ /\ Cardinality(ActiveRuns) < MaxConcurrentRuns
          /\ Goto(r, "check", "charge")
    /\ UNCHANGED <<skillVars, row, quota, token, jobVars, serverVars>>

ChargeQuota(r) ==
    /\ request[r].pc = "charge"
    /\ quota' = [quota EXCEPT ![today] = @ + 1]
    /\ request' = [request EXCEPT ![r].pc = "create", ![r].chargedOn = today]
    /\ UNCHANGED <<skillVars, row, token, jobVars, serverVars>>

\* Variant: the limit itself is still let through.
EnforceSkillQuotaOffByOne(r) ==
    quota[today] <= MaxRunsPerDay /\ ChargeQuota(r)

\* Variant: the counter is incremented without looking at the limit.
EnforceSkillQuotaUnlimited(r) == ChargeQuota(r)

\* The counter row is locked for the whole transaction.
EnforceSkillQuota(r) ==
    \/ quota[today] < MaxRunsPerDay /\ ChargeQuota(r)
    \/ /\ quota[today] >= MaxRunsPerDay
       /\ Goto(r, "charge", "refused")
       /\ UNCHANGED <<skillVars, row, quota, token, jobVars, serverVars>>

InsertRow(r, status, version, next) ==
    /\ Goto(r, "create", next)
    /\ row' = [row EXCEPT ![r] = [status |-> status,
                                  dates |-> request[r].approval,
                                  version |-> version]]
    /\ UNCHANGED <<skillVars, quota, token, jobVars, serverVars>>

\* Variant: the row is given the version current at the insert.
CreateRunLatest(r) ==
    \/ /\ AwaitsApproval(r)
       /\ InsertRow(r, "pending_approval", current, "answered")
    \/ /\ ~AwaitsApproval(r)
       /\ InsertRow(r, "queued", current, "dispatch")

\* The row is inserted; one that awaits approval is never dispatched.
CreateRun(r) ==
    \/ /\ AwaitsApproval(r)
       /\ InsertRow(r, "pending_approval", request[r].version, "answered")
    \/ /\ ~AwaitsApproval(r)
       /\ InsertRow(r, "queued", request[r].version, "dispatch")

DispatchInline(r) ==
    /\ backend = "inline_echo"
    /\ Goto(r, "dispatch", "answered")
    /\ Save(r, "succeeded", {"started_at", "finished_at"})
    /\ UNCHANGED <<skillVars, quota, token, jobVars, serverVars>>

\* Nothing executes a run of this backend: it stays queued.
DispatchRecordOnly(r) ==
    /\ backend = "record_only"
    /\ Goto(r, "dispatch", "answered")
    /\ Save(r, "queued", {})
    /\ UNCHANGED <<skillVars, quota, token, jobVars, serverVars>>

\* Configuration, credentials, a missing required secret or an artifact that
\* cannot be packaged or uploaded: an exception before anything is launched.
PrepareFails(r) ==
    /\ backend = "cloud_run_jobs"
    /\ Goto(r, "dispatch", "failing")
    /\ UNCHANGED <<skillVars, row, quota, token, jobVars, serverVars>>

\* Cloud Run accepts the POST, or answers with a status >= 400, or the answer
\* is lost (the 10 s timeout, an unreadable body): in the latter two the job
\* may run or not (a gateway's 504 tells nothing).
PostJob(r, answer) ==
    /\ backend = "cloud_run_jobs"
    /\ Goto(r, "dispatch", answer)
    /\ \/ /\ token' = [token EXCEPT ![r] = "valid"]
          /\ job' = [job EXCEPT ![r].pc = "pending", ![r].attempt = 1]
       \/ /\ answer # "accepted"
          /\ UNCHANGED <<token, job>>
    /\ UNCHANGED <<skillVars, row, quota, scripts, serverVars>>

\* The row is saved as queued whatever happened to it since the POST.
RecordAccepted(r) ==
    /\ Goto(r, "accepted", "answered")
    /\ Save(r, "queued", {})
    /\ UNCHANGED <<skillVars, quota, token, jobVars, serverVars>>

\* Variant: finished_at is missing from update_fields.
RecordRejectedUnfinished(r) ==
    /\ Goto(r, "rejected", "failing")
    /\ Save(r, "failed", {})
    /\ UNCHANGED <<skillVars, quota, token, jobVars, serverVars>>

RecordRejected(r) ==
    /\ Goto(r, "rejected", "failing")
    /\ Save(r, "failed", {"finished_at"})
    /\ UNCHANGED <<skillVars, quota, token, jobVars, serverVars>>

\* The handler of a dispatch exception refreshes the row, leaves a terminal
\* one alone and otherwise saves it as failed.
RefreshAfterDispatchError(r) ==
    /\ \/ Terminal(r) /\ Goto(r, "failing", "failed")
       \/ /\ ~Terminal(r)
          /\ request[r].pc = "failing"
          /\ request' = [request EXCEPT ![r].pc = "marking",
                                        ![r].seen = SeenStart(r)]
    /\ UNCHANGED <<skillVars, row, quota, token, jobVars, serverVars>>

\* Variant: status is missing from update_fields.
MarkRunFailedStatusLost(r) ==
    /\ Goto(r, "marking", "failed")
    /\ Save(r, row[r].status, {"finished_at"} \cup StartUnless(request[r].seen))
    /\ UNCHANGED <<skillVars, quota, token, jobVars, serverVars>>

MarkRunFailed(r) ==
    /\ Goto(r, "marking", "failed")
    /\ Save(r, "failed", {"finished_at"} \cup StartUnless(request[r].seen))
    /\ UNCHANGED <<skillVars, quota, token, jobVars, serverVars>>

\* The web worker is stopped in the middle of the request.
RequestDies(r) ==
    /\ \E pc \in {"check", "charge", "create", "dispatch", "accepted",
                  "rejected", "failing", "marking"} : Goto(r, pc, "dead")
    /\ UNCHANGED <<skillVars, row, quota, token, jobVars, serverVars>>

----------------------------------------------------------------------------
(* The Cloud Run execution: executor/run.py *)

JobGoto(r, from, to) ==
    /\ job[r].pc = from
    /\ job' = [job EXCEPT ![r].pc = to]

SetCallback(r, a, kind, to) ==
    callback' = [callback EXCEPT ![r][a][kind] = to]

Send(r, kind, status) ==
    SetCallback(r, job[r].attempt, kind,
                [pc |-> "sent", status |-> status, seen |-> {}])

\* The container starts and reports "running"; whether that is delivered,
\* refused or times out does not matter to it.
JobStarts(r) ==
    /\ JobGoto(r, "pending", "prepare")
    /\ Send(r, "running", "running")
    /\ UNCHANGED <<skillVars, row, requestVars, scripts, fetch, cancel>>

\* Package, inputs and manifest are in place: the secrets are requested, also
\* by a skill that declares none.
JobRequestsSecrets(r) ==
    /\ JobGoto(r, "prepare", "fetch")
    /\ fetch' = [fetch EXCEPT ![r][job[r].attempt] = "sent"]
    /\ UNCHANGED <<skillVars, row, requestVars, scripts, callback, cancel>>

\* The entrypoint is started only with a successful secrets response.
JobStartsScript(r) ==
    /\ JobGoto(r, "fetch", "script")
    /\ fetch[r][job[r].attempt] = "granted"
    /\ scripts' = [scripts EXCEPT ![r] = @ + 1]
    /\ UNCHANGED <<skillVars, row, requestVars, serverVars>>

\* The entrypoint ends, exits with an error, or exceeds its timeout.
JobReports(r, status) ==
    /\ JobGoto(r, "script", "result")
    /\ Send(r, "result", status)
    /\ UNCHANGED <<skillVars, row, requestVars, scripts, fetch, cancel>>

\* An acknowledged success ends with exit code 0, all else with an error.
JobAcknowledged(r) ==
    LET result == callback[r][job[r].attempt]["result"]
    IN  /\ \/ JobGoto(r, "result", "completed") /\ result.status = "succeeded"
           \/ JobGoto(r, "result", "exited") /\ result.status # "succeeded"
        /\ result.pc = "ok"
        /\ UNCHANGED <<skillVars, row, requestVars, scripts, serverVars>>

\* Any exception, a refused or unanswered request included, is reported as a
\* failure; only the timeout report is made outside the guarded block.
JobRaises(r) ==
    /\ \/ \E pc \in {"prepare", "fetch", "script"} : JobGoto(r, pc, "fallback")
       \/ /\ JobGoto(r, "result", "fallback")
          /\ callback[r][job[r].attempt]["result"].status # "timeout"
    /\ Send(r, "fallback", "failed")
    /\ UNCHANGED <<skillVars, row, requestVars, scripts, fetch, cancel>>

\* The container exits with an error after its last callback, answered or
\* not, or is killed at any point (its task timeout, memory, a preemption).
JobExits(r) ==
    /\ \E pc \in {"pending", "prepare", "fetch", "script", "result",
                  "fallback"} : JobGoto(r, pc, "exited")
    /\ UNCHANGED <<skillVars, row, requestVars, scripts, serverVars>>

NextAttempt(r) ==
    /\ job[r].pc = "exited"
    /\ job' = [job EXCEPT ![r].pc = "pending", ![r].attempt = @ + 1]
    /\ UNCHANGED <<skillVars, row, requestVars, scripts, serverVars>>

\* Variant: one execution more than Cloud Run is allowed.
JobRetriesOnceMore(r) == job[r].attempt <= MaxAttempts /\ NextAttempt(r)

\* Cloud Run executes the task again after a failure, up to max-retries.
JobRetries(r) == job[r].attempt < MaxAttempts /\ NextAttempt(r)

----------------------------------------------------------------------------
(* POST /skill-executions/{run_id}/callback: read and check, then save *)

\* Answering the executor; what it does not look at is forgotten.
Answered(kind, status, answer) ==
    IF kind = "result" THEN [pc |-> answer, status |-> status, seen |-> {}]
                       ELSE Unsent

\* The token is checked, the row is read, and a terminal copy is refused.
ReceiveCallback(r, a, kind) ==
    LET call == callback[r][a][kind]
    IN  /\ call.pc = "sent"
        /\ \/ /\ token[r] = "valid" /\ ~Terminal(r)
              /\ SetCallback(r, a, kind, [pc |-> "read", status |-> call.status,
                                         seen |-> SeenStart(r)])
           \/ /\ token[r] # "valid" \/ Terminal(r)
              /\ SetCallback(r, a, kind, Answered(kind, call.status, "refused"))
        /\ UNCHANGED <<skillVars, row, requestVars, jobVars, fetch, cancel>>

ReportedDates(status, seen) ==
    StartUnless(seen) \cup
        (IF status \in TerminalStatuses THEN {"finished_at"} ELSE {})

ApplyExecutionCallback(r, a, kind) ==
    LET call == callback[r][a][kind]
    IN  /\ call.pc = "read"
        /\ Save(r, call.status, ReportedDates(call.status, call.seen))
        /\ SetCallback(r, a, kind, Answered(kind, call.status, "ok"))
        /\ UNCHANGED <<skillVars, requestVars, jobVars, fetch, cancel>>

----------------------------------------------------------------------------
(* POST /skill-executions/{run_id}/secrets: one transaction, the row locked *)

GrantSecrets(r, a, dates) ==
    /\ fetch[r][a] = "sent"
    /\ fetch' = [fetch EXCEPT ![r][a] = "granted"]
    /\ Save(r, row[r].status, dates)
    /\ UNCHANGED <<skillVars, requestVars, jobVars, callback, cancel>>

\* 401 without a valid token, 409 for secrets already fetched or a finished
\* run, 422 or 502 for a missing value or an unreachable vault: the
\* transaction is rolled back and the run may ask again.
DenySecrets(r, a) ==
    /\ fetch[r][a] = "sent"
    /\ fetch' = [fetch EXCEPT ![r][a] = "denied"]
    /\ UNCHANGED <<skillVars, row, requestVars, jobVars, callback, cancel>>

\* Variant: secrets_fetched_at is stored but not looked at.
FetchExecutionSecretsAgain(r, a) ==
    \/ /\ token[r] = "valid" /\ ~Terminal(r)
       /\ GrantSecrets(r, a, {"secrets_fetched_at"})
    \/ DenySecrets(r, a)

\* Variant: secrets_fetched_at is missing from update_fields.
FetchExecutionSecretsUnmarked(r, a) ==
    \/ /\ token[r] = "valid" /\ ~Terminal(r)
       /\ "secrets_fetched_at" \notin row[r].dates
       /\ GrantSecrets(r, a, {})
    \/ DenySecrets(r, a)

FetchExecutionSecrets(r, a) ==
    \/ /\ token[r] = "valid" /\ ~Terminal(r)
       /\ "secrets_fetched_at" \notin row[r].dates
       /\ GrantSecrets(r, a, {"secrets_fetched_at"})
    \/ DenySecrets(r, a)

----------------------------------------------------------------------------
(* POST /skill-executions/{run_id}/cancel: read and check, then save *)

LoadRunToCancel(r) ==
    /\ cancel[r].pc = "idle"
    /\ row[r].status \in Cancellable
    /\ cancel' = [cancel EXCEPT ![r] = [pc |-> "read", seen |-> SeenStart(r)]]
    /\ UNCHANGED <<skillVars, row, requestVars, jobVars, callback, fetch>>

CancelRun(r) ==
    /\ cancel[r].pc = "read"
    /\ Save(r, "cancelled", {"finished_at"} \cup StartUnless(cancel[r].seen))
    /\ cancel' = [cancel EXCEPT ![r] = NoCancel]
    /\ UNCHANGED <<skillVars, requestVars, jobVars, callback, fetch>>

----------------------------------------------------------------------------
(* manage.py cleanup_stuck_skill_runs: two UPDATE statements.  A row's age   *)
(* is not modelled: any active run may have passed the threshold.            *)

\* Variant: runs that await approval are cleaned up as well.
CleanupQueuedAndPending(r) ==
    /\ row[r].status \in {"queued", "pending_approval"}
    /\ Save(r, "failed", {"started_at", "finished_at"})
    /\ UNCHANGED <<skillVars, requestVars, jobVars, serverVars>>

CleanupQueued(r) ==
    /\ row[r].status = "queued"
    /\ Save(r, "failed", {"started_at", "finished_at"})
    /\ UNCHANGED <<skillVars, requestVars, jobVars, serverVars>>

\* started_at < cutoff matches no row whose started_at is NULL.
CleanupRunning(r) ==
    /\ row[r].status = "running"
    /\ "started_at" \in row[r].dates
    /\ Save(r, "failed", {"finished_at"})
    /\ UNCHANGED <<skillVars, requestVars, jobVars, serverVars>>

----------------------------------------------------------------------------
(* Specification *)

Environment ==
    \/ \E v \in Versions : PublishVersion(v)
    \/ Midnight

RequestStep(r) ==
    \/ \E approval \in Approval : ExecuteSkill(r, approval)
    \/ EnforceSkillConcurrency(r)
    \/ EnforceSkillQuota(r)
    \/ CreateRun(r)
    \/ DispatchInline(r)
    \/ DispatchRecordOnly(r)
    \/ PrepareFails(r)
    \/ \E answer \in {"accepted", "rejected", "failing"} : PostJob(r, answer)
    \/ RecordAccepted(r)
    \/ RecordRejected(r)
    \/ RefreshAfterDispatchError(r)
    \/ MarkRunFailed(r)
    \/ RequestDies(r)

JobStep(r) ==
    \/ TokensExpire(r)
    \/ JobStarts(r)
    \/ JobRequestsSecrets(r)
    \/ JobStartsScript(r)
    \/ \E status \in Reported \ {"running"} : JobReports(r, status)
    \/ JobAcknowledged(r)
    \/ JobRaises(r)
    \/ JobExits(r)
    \/ JobRetries(r)

ServerStep(r) ==
    \/ \E a \in Attempts, kind \in CallbackKinds :
           ReceiveCallback(r, a, kind) \/ ApplyExecutionCallback(r, a, kind)
    \/ \E a \in Attempts : FetchExecutionSecrets(r, a)
    \/ LoadRunToCancel(r)
    \/ CancelRun(r)
    \/ CleanupQueued(r)
    \/ CleanupRunning(r)

Next ==
    \/ Environment
    \/ \E r \in Runs : RequestStep(r) \/ JobStep(r) \/ ServerStep(r)

Spec == Init /\ [][Next]_vars

----------------------------------------------------------------------------
(* The inductive invariant *)

\* Every variable has its type.
TypeOK ==
    /\ backend \in Backends
    /\ current \in Versions
    /\ today \in Days
    /\ quota \in [Days -> Nat]
    /\ row \in [Runs -> RunRow]
    /\ request \in [Runs -> Request]
    /\ token \in [Runs -> {"none", "valid", "expired"}]
    /\ job \in [Runs -> Job]
    /\ scripts \in [Runs -> Nat]
    /\ callback \in [Runs -> [Attempts -> [CallbackKinds -> Callback]]]
    /\ fetch \in [Runs -> [Attempts -> FetchPC]]
    /\ cancel \in [Runs -> Cancel]

\* How far a request has come tells whether its run was charged, whether a
\* job can exist, and what its row is.
RequestOK(r) ==
    LET pc == request[r].pc
    IN  /\ pc \in {"idle", "check", "charge"} => request[r].chargedOn = 0
        /\ pc \in {"idle", "check", "charge", "create"} =>
               row[r] = NoRow /\ cancel[r].pc = "idle"
        /\ pc \in {"idle", "check", "charge", "create", "dispatch"} =>
               job[r].pc = "absent"
        /\ pc = "create" => AwaitsApproval(r) \/ request[r].chargedOn # 0
        /\ pc \in {"dispatch", "accepted", "rejected", "failing", "marking"} =>
               /\ request[r].chargedOn # 0
               /\ ~AwaitsApproval(r)
               /\ row[r].status # "pending_approval"
               /\ row[r].version = request[r].version
               /\ request[r].approval \subseteq row[r].dates

Approved(r) ==
    row[r].version \notin NeedsApproval \/ "approved_at" \in row[r].dates

\* What exists once a job was launched, and only then.
JobOK(r) ==
    /\ job[r].pc = "absent" <=> job[r].attempt = 0
    /\ job[r].pc # "absent" => /\ request[r].chargedOn # 0
                               /\ row[r].status # "pending_approval"
                               /\ Approved(r)
    /\ job[r].pc = "absent" =>
           \A a \in Attempts, kind \in CallbackKinds :
               callback[r][a][kind].pc = "unsent"

\* The attempt that was given the secrets is the only one, the row remembers
\* it, and only that attempt can have started the entrypoint.
BeforeFetch(r, a) ==
    \/ a > job[r].attempt
    \/ a = job[r].attempt /\ job[r].pc \in {"pending", "prepare"}

ReleaseOK(r) ==
    /\ \A a, b \in Attempts :
           fetch[r][a] = "granted" /\ fetch[r][b] = "granted" => a = b
    /\ \A a \in Attempts :
           /\ fetch[r][a] = "granted" => "secrets_fetched_at" \in row[r].dates
           /\ BeforeFetch(r, a) => fetch[r][a] = "unsent"
    /\ scripts[r] # 0 =>
           /\ scripts[r] = 1
           /\ \E a \in Attempts : /\ fetch[r][a] = "granted"
                                  /\ a = job[r].attempt => job[r].pc # "fetch"

\* Everything the safety theorems rest on holds together in every state: what
\* a request was charged, what its job may do and what was released to it.
ExecInv ==
    /\ TypeOK
    /\ \A r \in Runs : RequestOK(r) /\ JobOK(r) /\ ReleaseOK(r)

----------------------------------------------------------------------------
(* Safety *)

\* The daily counter says exactly how many runs were charged to the day, and
\* never more than max_runs_per_day of them, whatever the requests do between
\* the check, the charge and the insert (enforce_skill_quota locks the row).
QuotaCountsCharges ==
    \A d \in Days : /\ quota[d] = Cardinality(ChargedOn(d))
                    /\ quota[d] <= MaxRunsPerDay

\* A running row has its started_at and a finished row its finished_at, also
\* after handlers saved stale copies over each other: the cleanup command
\* finds running rows by started_at, and the API reports durations from both.
RowTimestamps ==
    \A r \in Runs :
        /\ row[r].status = "running" => "started_at" \in row[r].dates
        /\ Terminal(r) => "finished_at" \in row[r].dates

\* A job is launched only for a version that needs no approval, or for a
\* request that carried the approval: publishing a riskier version between
\* the approval check and the insert must not slip it past the check.
ApprovalGate ==
    \A r \in Runs : job[r].pc # "absent" => Approved(r)

\* A row that awaits approval is only ever left by cancelling it; nothing
\* dispatches it, reports on it or reads its secrets.
PendingStaysInert ==
    [][\A r \in Runs :
          row[r].status = "pending_approval" =>
              row'[r] = row[r] \/ row'[r].status = "cancelled"]_vars

\* Once the client was told that its dispatch failed and no job exists, the
\* row is terminal: it blocks no slot of the concurrency limit
\* (_mark_run_failed_after_dispatch_error).
DispatchFailureReleasesSlot ==
    \A r \in Runs :
        request[r].pc = "failed" /\ job[r].pc = "absent" => Terminal(r)

\* The executions implement what the service promises: see RunContract.
Contract == INSTANCE RunContract WITH
    chargedOn <- [r \in Runs |-> request[r].chargedOn],
    released <- [r \in Runs |-> {a \in Attempts : fetch[r][a] = "granted"}],
    started <- scripts

\* A run is charged before anything of it executes, at most one attempt of it
\* gets the secrets, and its entrypoint starts at most once, though Cloud Run
\* may execute the task again and stale copies of the row are saved.
ImplementsContract == Contract!Spec

----------------------------------------------------------------------------
(* Liveness *)

\* Somebody keeps running the cleanup command: nothing else is fair.  Requests
\* may die, jobs may be killed and callbacks may be lost.
FairSpec ==
    Spec /\ \A r \in Runs : WF_vars(CleanupQueued(r)) /\ WF_vars(CleanupRunning(r))

\* Every run ends up outside the active statuses for good: a late callback or
\* a late "queued" may resurrect a finished row, but only finitely often, and
\* the cleanup command can always select what it left behind.
EveryRunSettles ==
    \A r \in Runs : <>[](row[r].status \notin ActiveStatuses)

----------------------------------------------------------------------------
(* Claims that the code does not keep *)

\* max_concurrent is "global cap across all callers"
\* (src/skills-execution-service-plan.md): never more active runs than that.
ConcurrencyLimit == Cardinality(ActiveRuns) <= MaxConcurrentRuns

\* "Execution run is already terminal" (apply_execution_callback, and a test
\* that sends a second callback): a callback leaves a terminal row alone.
LateCallbackRefused ==
    [][\A r \in Runs, a \in Attempts, kind \in CallbackKinds :
          ApplyExecutionCallback(r, a, kind) /\ Terminal(r) =>
              row'[r].status = row[r].status]_vars

=============================================================================
