------------------------ MODULE SkillExecutionProofs ------------------------
(***************************************************************************)
(* Proofs about SkillExecution, for every value of its constants.          *)
(*                                                                         *)
(* A step of a run touches that run's state only.  So the inductive        *)
(* invariant is kept in three parts: the types of the variables (TypeOK'), *)
(* the runs the step is not about (Only), and the run it is about          *)
(* (RunOK').  One lemma per action proves the three; the actions that move *)
(* a request, move a job or save a row share the lemmas of the first       *)
(* section.                                                                *)
(***************************************************************************)
EXTENDS SkillExecution, FiniteSetTheorems, TLAPS

USE DEF vars, skillVars, requestVars, jobVars, serverVars

RunOK(r) == RequestOK(r) /\ JobOK(r) /\ ReleaseOK(r)

\* Nothing of run q changes.
SameRun(q) ==
    /\ request'[q] = request[q] /\ row'[q] = row[q] /\ job'[q] = job[q]
    /\ scripts'[q] = scripts[q] /\ callback'[q] = callback[q]
    /\ fetch'[q] = fetch[q] /\ cancel'[q] = cancel[q]

Only(r) == \A q \in Runs \ {r} : SameRun(q)

\* What a step of run r establishes for the inductive invariant.
Kept(r) == TypeOK' /\ Only(r) /\ RunOK(r)'

\* The invariant of a run is about that run's state alone.
LEMMA SameRunOK ==
  ASSUME NEW q \in Runs, SameRun(q), RunOK(q)
  PROVE  RunOK(q)'
<1>1. RequestOK(q)'
  BY DEF SameRun, RunOK, RequestOK, AwaitsApproval, NeedsAsking
<1>2. JobOK(q)'
  BY DEF SameRun, RunOK, JobOK, Approved
<1>3. ReleaseOK(q)'
  BY DEF SameRun, RunOK, ReleaseOK, BeforeFetch
<1>. QED BY <1>1, <1>2, <1>3 DEF RunOK

----------------------------------------------------------------------------
(* Updates keep the types *)

LEMMA GotoType ==
  ASSUME request \in [Runs -> Request], NEW r \in Runs,
         NEW from, NEW to \in RequestPC, Goto(r, from, to)
  PROVE  request' \in [Runs -> Request]
BY DEF Goto, Request

LEMMA JobGotoType ==
  ASSUME job \in [Runs -> Job], NEW r \in Runs,
         NEW from, NEW to \in JobPC, JobGoto(r, from, to)
  PROVE  job' \in [Runs -> Job]
BY DEF JobGoto, Job

LEMMA SaveType ==
  ASSUME row \in [Runs -> RunRow], NEW r \in Runs,
         NEW status \in StatusChoices \cup {"none"},
         NEW dates \in SUBSET Dates, Save(r, status, dates)
  PROVE  row' \in [Runs -> RunRow]
BY DEF Save, RunRow

CallbackType == [Runs -> [Attempts -> [CallbackKinds -> Callback]]]

LEMMA SetCallbackType ==
  ASSUME callback \in CallbackType, NEW r \in Runs, NEW a \in Attempts,
         NEW kind \in CallbackKinds, NEW c \in Callback,
         SetCallback(r, a, kind, c)
  PROVE  callback' \in CallbackType
BY DEF SetCallback, CallbackType

----------------------------------------------------------------------------
(* Steps of one kind *)

\* A request that only moves on keeps what it was charged and its row.
LEMMA GotoKept ==
  ASSUME TypeOK, NEW r \in Runs, RunOK(r),
         NEW from \in RequestPC, NEW to \in RequestPC, Goto(r, from, to),
         \/ to \in {"answered", "refused", "failed", "dead"}
         \/ from = "check" /\ to = "charge"
         \/ from = "dispatch" /\ to \in {"accepted", "rejected", "failing"},
         UNCHANGED <<skillVars, row, quota, token, jobVars, serverVars>>
  PROVE  Kept(r)
<1>1. TypeOK'
  <2>1. request' \in [Runs -> Request]
    BY GotoType DEF TypeOK
  <2>. QED BY <2>1 DEF TypeOK
<1>2. Only(r)
  BY DEF TypeOK, Only, SameRun, Goto
<1>3. /\ request[r].pc = from /\ request'[r].pc = to
      /\ request'[r].chargedOn = request[r].chargedOn
      /\ request'[r].version = request[r].version
      /\ request'[r].approval = request[r].approval
  BY DEF TypeOK, Goto, Request
<1>4. RequestOK(r)'
  BY <1>3 DEF RunOK, RequestOK, AwaitsApproval, NeedsAsking
<1>5. JobOK(r)' /\ ReleaseOK(r)'
  BY <1>3 DEF RunOK, JobOK, ReleaseOK, BeforeFetch, Approved
<1>. QED BY <1>1, <1>2, <1>4, <1>5 DEF Kept, RunOK

\* A job past its secrets request moves on; a callback may be sent.
LEMMA JobGotoKept ==
  ASSUME TypeOK, NEW r \in Runs, RunOK(r),
         NEW from \in JobPC \ {"absent"},
         NEW to \in JobPC \ {"absent", "pending", "prepare", "fetch"},
         JobGoto(r, from, to),
         NEW kind \in CallbackKinds, NEW status \in Reported,
         callback' = callback \/ Send(r, kind, status),
         UNCHANGED <<skillVars, row, requestVars, scripts, fetch, cancel>>
  PROVE  Kept(r)
<1>1. /\ job[r].pc = from /\ job'[r].pc = to
      /\ job'[r].attempt = job[r].attempt /\ job[r].attempt \in Attempts
  BY DEF TypeOK, RunOK, JobOK, JobGoto, Job
<1>2. TypeOK'
  <2>1. job' \in [Runs -> Job]
    BY JobGotoType DEF TypeOK
  <2>2. callback' \in CallbackType
    <3>1. [pc |-> "sent", status |-> status, seen |-> {}] \in Callback
      BY DEF Callback, Seen
    <3>. QED BY <1>1, <3>1, SetCallbackType DEF TypeOK, Send, CallbackType
  <2>. QED BY <2>1, <2>2 DEF TypeOK, CallbackType
<1>3. Only(r)
  BY DEF TypeOK, Only, SameRun, JobGoto, Send, SetCallback
<1>4. RequestOK(r)'
  BY <1>1 DEF RunOK, RequestOK, AwaitsApproval, NeedsAsking
<1>5. JobOK(r)'
  BY <1>1 DEF RunOK, JobOK, Approved
<1>6. ReleaseOK(r)'
  BY <1>1 DEF RunOK, ReleaseOK, BeforeFetch
<1>. QED BY <1>2, <1>3, <1>4, <1>5, <1>6 DEF Kept, RunOK

\* A save adds dates to one row and keeps its version.
LEMMA SaveOK ==
  ASSUME TypeOK, NEW r \in Runs, NEW status \in StatusChoices,
         NEW dates \in SUBSET Dates, Save(r, status, dates)
  PROVE  /\ row' \in [Runs -> RunRow]
         /\ \A q \in Runs \ {r} : row'[q] = row[q]
         /\ row'[r].status = status
         /\ row'[r].version = row[r].version
         /\ row'[r].dates = row[r].dates \cup dates
<1>1. row' \in [Runs -> RunRow]
  BY DEF TypeOK, Save, RunRow
<1>. QED BY <1>1 DEF TypeOK, Save, RunRow

\* A handler saves a row of a request that has inserted it, and the request
\* moves on or is not involved.
LEMMA SaveKept ==
  ASSUME TypeOK, NEW r \in Runs, RunOK(r),
         NEW status \in StatusChoices \ {"pending_approval"},
         NEW dates \in SUBSET Dates, Save(r, status, dates),
         request[r].pc \notin {"idle", "check", "charge", "create"},
         \/ request' = request
         \/ \E from \in {"dispatch", "accepted", "rejected", "marking"},
               to \in {"answered", "failing", "failed"} : Goto(r, from, to),
         cancel' = cancel \/ cancel' = [cancel EXCEPT ![r] = NoCancel],
         UNCHANGED <<skillVars, quota, token, jobVars, callback, fetch>>
  PROVE  Kept(r)
<1>1. /\ row' \in [Runs -> RunRow]
      /\ \A q \in Runs \ {r} : row'[q] = row[q]
      /\ row'[r].status = status
      /\ row'[r].version = row[r].version
      /\ row'[r].dates = row[r].dates \cup dates
  BY SaveOK
<1>2. PICK to \in RequestPC :
         /\ request'[r].pc = to
         /\ \/ to = request[r].pc
            \/ /\ to \in {"answered", "failing", "failed"}
               /\ request[r].pc \in {"dispatch", "accepted", "rejected",
                                     "marking"}
         /\ request'[r].chargedOn = request[r].chargedOn
         /\ request'[r].version = request[r].version
         /\ request'[r].approval = request[r].approval
  BY DEF TypeOK, Goto, Request, RequestPC
<1>3. TypeOK'
  <2>1. request' \in [Runs -> Request]
    BY GotoType DEF TypeOK, RequestPC
  <2>2. cancel' \in [Runs -> Cancel]
    <3>1. NoCancel \in Cancel
      BY DEF NoCancel, Cancel, Seen
    <3>. QED BY <3>1 DEF TypeOK
  <2>. QED BY <1>1, <2>1, <2>2 DEF TypeOK
<1>4. Only(r)
  BY <1>1 DEF TypeOK, Only, SameRun, Goto
<1>5. RequestOK(r)'
  BY <1>1, <1>2 DEF RunOK, RequestOK, AwaitsApproval, NeedsAsking
<1>6. JobOK(r)'
  BY <1>1, <1>2 DEF RunOK, JobOK, Approved
<1>7. ReleaseOK(r)'
  BY <1>1 DEF RunOK, ReleaseOK, BeforeFetch
<1>. QED BY <1>3, <1>4, <1>5, <1>6, <1>7 DEF Kept, RunOK

----------------------------------------------------------------------------
(* The execute request *)

LEMMA ExecuteSkillKept ==
  ASSUME TypeOK, NEW r \in Runs, RunOK(r),
         NEW approval \in Approval, ExecuteSkill(r, approval)
  PROVE  Kept(r)
<1>1. PICK next \in RequestPC :
         /\ ReadSkill(r, approval, next)
         /\ \/ next = "create" /\ NeedsAsking(current, approval)
            \/ next = "check"
  BY DEF ExecuteSkill, RequestPC
<1>2. request' \in [Runs -> Request]
  <2>1. request \in [Runs -> Request] /\ current \in Versions
    BY DEF TypeOK
  <2>. QED BY <1>1, <2>1 DEF ReadSkill, Request
<1>3. /\ request[r].pc = "idle" /\ request'[r].pc = next
      /\ request'[r].version = current /\ request'[r].approval = approval
      /\ request'[r].chargedOn = request[r].chargedOn
  BY <1>1 DEF TypeOK, ReadSkill, Request
<1>4. TypeOK'
  BY <1>1, <1>2 DEF TypeOK, ReadSkill
<1>5. Only(r)
  BY <1>1 DEF TypeOK, Only, SameRun, ReadSkill
<1>6. RequestOK(r)'
  BY <1>1, <1>3 DEF RunOK, RequestOK, AwaitsApproval, ReadSkill
<1>7. JobOK(r)' /\ ReleaseOK(r)'
  BY <1>1, <1>3 DEF RunOK, RequestOK, JobOK, ReleaseOK, BeforeFetch, ReadSkill
<1>. QED BY <1>4, <1>5, <1>6, <1>7 DEF Kept, RunOK

LEMMA EnforceSkillConcurrencyKept ==
  ASSUME TypeOK, NEW r \in Runs, RunOK(r), EnforceSkillConcurrency(r)
  PROVE  Kept(r)
<1>1. PICK to \in {"refused", "charge"} : Goto(r, "check", to)
  BY DEF EnforceSkillConcurrency
<1>. QED BY <1>1, GotoKept DEF EnforceSkillConcurrency, RequestPC

LEMMA ChargeQuotaKept ==
  ASSUME TypeOK, NEW r \in Runs, RunOK(r), ChargeQuota(r)
  PROVE  Kept(r)
<1>1. today \in Days /\ today # 0
  BY DEF TypeOK, Days
<1>2. request' \in [Runs -> Request] /\ quota' \in [Days -> Nat]
  <2>1. request' = [request EXCEPT ![r].pc = "create", ![r].chargedOn = today]
    BY DEF ChargeQuota
  <2>2. request' \in [Runs -> Request]
    <3>1. request \in [Runs -> Request] /\ "create" \in RequestPC
      BY DEF TypeOK, RequestPC
    <3>. QED BY <1>1, <2>1, <3>1 DEF Request
  <2>3. quota' \in [Days -> Nat]
    BY <1>1 DEF TypeOK, ChargeQuota
  <2>. QED BY <2>2, <2>3
<1>3. /\ request[r].pc = "charge" /\ request'[r].pc = "create"
      /\ request'[r].chargedOn = today
      /\ request'[r].version = request[r].version
      /\ request'[r].approval = request[r].approval
  BY DEF TypeOK, ChargeQuota, Request
<1>4. TypeOK'
  BY <1>2 DEF TypeOK, ChargeQuota
<1>5. Only(r)
  BY DEF TypeOK, Only, SameRun, ChargeQuota
<1>6. RequestOK(r)'
  BY <1>1, <1>3 DEF RunOK, RequestOK, ChargeQuota
<1>7. JobOK(r)' /\ ReleaseOK(r)'
  BY <1>3 DEF RunOK, RequestOK, JobOK, ReleaseOK, BeforeFetch, ChargeQuota
<1>. QED BY <1>4, <1>5, <1>6, <1>7 DEF Kept, RunOK

LEMMA EnforceSkillQuotaKept ==
  ASSUME TypeOK, NEW r \in Runs, RunOK(r), EnforceSkillQuota(r)
  PROVE  Kept(r)
<1>1.CASE ChargeQuota(r)
  BY <1>1, ChargeQuotaKept
<1>2.CASE /\ Goto(r, "charge", "refused")
          /\ UNCHANGED <<skillVars, row, quota, token, jobVars, serverVars>>
  BY <1>2, GotoKept DEF RequestPC
<1>. QED BY <1>1, <1>2 DEF EnforceSkillQuota

LEMMA CreateRunKept ==
  ASSUME TypeOK, NEW r \in Runs, RunOK(r), CreateRun(r)
  PROVE  Kept(r)
<1>1. PICK status \in {"pending_approval", "queued"},
           next \in {"answered", "dispatch"} :
         /\ InsertRow(r, status, request[r].version, next)
         /\ \/ AwaitsApproval(r) /\ next = "answered"
            \/ ~AwaitsApproval(r) /\ next = "dispatch" /\ status = "queued"
  BY DEF CreateRun
<1>2. TypeOK'
  <2>1. request' \in [Runs -> Request]
    BY <1>1, GotoType DEF TypeOK, InsertRow, RequestPC
  <2>2. row' \in [Runs -> RunRow]
    <3>1. /\ request[r].version \in Versions \cup {NoVersion}
          /\ request[r].approval \in SUBSET Dates
      BY DEF TypeOK, Request, Approval, Dates
    <3>2. [status |-> status, dates |-> request[r].approval,
           version |-> request[r].version] \in RunRow
      BY <3>1 DEF RunRow, StatusChoices, Cancellable
    <3>. QED BY <1>1, <3>2 DEF TypeOK, InsertRow
  <2>. QED BY <1>1, <2>1, <2>2 DEF TypeOK, InsertRow
<1>3. Only(r)
  BY <1>1 DEF TypeOK, Only, SameRun, InsertRow, Goto
<1>4. /\ request[r].pc = "create" /\ request'[r].pc = next
      /\ request'[r].version = request[r].version
      /\ request'[r].approval = request[r].approval
      /\ request'[r].chargedOn = request[r].chargedOn
      /\ row'[r].status = status
      /\ row'[r].version = request[r].version
      /\ row'[r].dates = request[r].approval
      /\ UNCHANGED <<job, scripts, callback, fetch, cancel>>
  BY <1>1 DEF TypeOK, InsertRow, Goto, Request
<1>5. RequestOK(r)'
  BY <1>1, <1>4 DEF RunOK, RequestOK, AwaitsApproval, NeedsAsking
<1>6. JobOK(r)'
  BY <1>4 DEF RunOK, RequestOK, JobOK
<1>7. ReleaseOK(r)'
  <2>1. row[r].dates = {}
    BY <1>4 DEF RunOK, RequestOK, NoRow
  <2>. QED BY <1>4, <2>1 DEF RunOK, ReleaseOK, BeforeFetch
<1>. QED BY <1>2, <1>3, <1>5, <1>6, <1>7 DEF Kept, RunOK

LEMMA DispatchInlineKept ==
  ASSUME TypeOK, NEW r \in Runs, RunOK(r), DispatchInline(r)
  PROVE  Kept(r)
<1>1. request[r].pc = "dispatch"
  BY DEF DispatchInline, Goto
<1>. QED
  BY <1>1, SaveKept
  DEF DispatchInline, Dates, StatusChoices, TerminalStatuses

LEMMA RecordQueuedKept ==
  ASSUME TypeOK, NEW r \in Runs, RunOK(r),
         DispatchRecordOnly(r) \/ RecordAccepted(r)
  PROVE  Kept(r)
<1>1. PICK from \in {"dispatch", "accepted"} : Goto(r, from, "answered")
  BY DEF DispatchRecordOnly, RecordAccepted
<1>2. request[r].pc \in {"dispatch", "accepted"}
  BY <1>1 DEF Goto
<1>. QED
  BY <1>1, <1>2, SaveKept
  DEF DispatchRecordOnly, RecordAccepted, StatusChoices, Cancellable

LEMMA PrepareFailsKept ==
  ASSUME TypeOK, NEW r \in Runs, RunOK(r), PrepareFails(r)
  PROVE  Kept(r)
BY GotoKept DEF PrepareFails, RequestPC

LEMMA PostJobKept ==
  ASSUME TypeOK, NEW r \in Runs, RunOK(r),
         NEW answer \in {"accepted", "rejected", "failing"}, PostJob(r, answer)
  PROVE  Kept(r)
<1>1. /\ request[r].pc = "dispatch" /\ request'[r].pc = answer
      /\ request'[r].chargedOn = request[r].chargedOn
      /\ request'[r].version = request[r].version
      /\ request'[r].approval = request[r].approval
  BY DEF TypeOK, PostJob, Goto, Request
<1>2. \/ job' = job
      \/ job'[r].pc = "pending" /\ job'[r].attempt = 1
  BY DEF TypeOK, PostJob, Job
<1>3. job[r].pc = "absent" /\ job[r].attempt = 0
  BY <1>1 DEF RunOK, RequestOK, JobOK
<1>4. \A a \in Attempts : fetch[r][a] = "unsent"
  BY <1>3 DEF RunOK, ReleaseOK, BeforeFetch, Attempts
<1>5. TypeOK'
  <2>1. request' \in [Runs -> Request]
    BY GotoType DEF TypeOK, PostJob, RequestPC
  <2>2. job' \in [Runs -> Job]
    <3>1. 1 \in Attempts /\ "pending" \in JobPC
      BY ConstantsAssumption DEF Attempts, JobPC
    <3>2. \/ job' = job
          \/ job' = [job EXCEPT ![r].pc = "pending", ![r].attempt = 1]
      BY DEF PostJob
    <3>3. job \in [Runs -> Job]
      BY DEF TypeOK
    <3>. QED BY <3>1, <3>2, <3>3 DEF Job
  <2>. QED BY <2>1, <2>2 DEF TypeOK, PostJob
<1>6. Only(r)
  BY DEF TypeOK, Only, SameRun, PostJob, Goto
<1>7. RequestOK(r)'
  BY <1>1 DEF RunOK, RequestOK, AwaitsApproval, NeedsAsking, PostJob
<1>8. JobOK(r)'
  <2>1. Approved(r) /\ request[r].chargedOn # 0
                    /\ row[r].status # "pending_approval"
    BY <1>1 DEF TypeOK, Request, Approval, RunOK, RequestOK, AwaitsApproval,
                NeedsAsking, Approved
  <2>. QED BY <1>1, <1>2, <2>1 DEF RunOK, JobOK, Approved, PostJob
<1>9. ReleaseOK(r)'
  BY <1>4 DEF RunOK, ReleaseOK, PostJob
<1>. QED BY <1>5, <1>6, <1>7, <1>8, <1>9 DEF Kept, RunOK

LEMMA RecordRejectedKept ==
  ASSUME TypeOK, NEW r \in Runs, RunOK(r), RecordRejected(r)
  PROVE  Kept(r)
<1>1. request[r].pc = "rejected"
  BY DEF RecordRejected, Goto
<1>. QED
  BY <1>1, SaveKept
  DEF RecordRejected, Dates, StatusChoices, TerminalStatuses

LEMMA RefreshAfterDispatchErrorKept ==
  ASSUME TypeOK, NEW r \in Runs, RunOK(r), RefreshAfterDispatchError(r)
  PROVE  Kept(r)
<1>1.CASE Goto(r, "failing", "failed")
  BY <1>1, GotoKept DEF RefreshAfterDispatchError, RequestPC
<1>2.CASE /\ request[r].pc = "failing"
          /\ request' = [request EXCEPT ![r].pc = "marking",
                                        ![r].seen = SeenStart(r)]
  <2>1. TypeOK'
    <3>1. /\ request \in [Runs -> Request] /\ "marking" \in RequestPC
          /\ SeenStart(r) \in Seen
      BY DEF TypeOK, RequestPC, SeenStart, Seen
    <3>2. request' \in [Runs -> Request]
      BY <1>2, <3>1 DEF Request
    <3>. QED BY <3>2 DEF TypeOK, RefreshAfterDispatchError
  <2>2. Only(r)
    BY <1>2 DEF TypeOK, Only, SameRun, RefreshAfterDispatchError
  <2>3. /\ request'[r].pc = "marking"
        /\ request'[r].chargedOn = request[r].chargedOn
        /\ request'[r].version = request[r].version
        /\ request'[r].approval = request[r].approval
        /\ UNCHANGED <<row, job, scripts, callback, fetch, cancel>>
    BY <1>2 DEF TypeOK, Request, RefreshAfterDispatchError
  <2>4. RequestOK(r)'
    BY <1>2, <2>3 DEF RunOK, RequestOK, AwaitsApproval
  <2>5. JobOK(r)' /\ ReleaseOK(r)'
    BY <2>3 DEF RunOK, JobOK, ReleaseOK, BeforeFetch, Approved
  <2>. QED BY <2>1, <2>2, <2>4, <2>5 DEF Kept, RunOK
<1>. QED BY <1>1, <1>2 DEF RefreshAfterDispatchError

LEMMA MarkRunFailedKept ==
  ASSUME TypeOK, NEW r \in Runs, RunOK(r), MarkRunFailed(r)
  PROVE  Kept(r)
<1>1. request[r].pc = "marking"
  BY DEF MarkRunFailed, Goto
<1>. QED
  BY <1>1, SaveKept
  DEF MarkRunFailed, StartUnless, Dates, StatusChoices, TerminalStatuses

LEMMA RequestDiesKept ==
  ASSUME TypeOK, NEW r \in Runs, RunOK(r), RequestDies(r)
  PROVE  Kept(r)
<1>1. PICK pc \in RequestPC : Goto(r, pc, "dead")
  BY DEF RequestDies, RequestPC
<1>. QED BY <1>1, GotoKept DEF RequestDies, RequestPC

----------------------------------------------------------------------------
(* The job *)

LEMMA JobStartsKept ==
  ASSUME TypeOK, NEW r \in Runs, RunOK(r), JobStarts(r)
  PROVE  Kept(r)
<1>1. /\ job[r].pc = "pending" /\ job'[r].pc = "prepare"
      /\ job'[r].attempt = job[r].attempt /\ job[r].attempt \in Attempts
  BY DEF TypeOK, RunOK, JobOK, JobStarts, JobGoto, Job
<1>2. TypeOK'
  <2>1. job' \in [Runs -> Job]
    BY JobGotoType DEF TypeOK, JobStarts, JobPC
  <2>2. callback' \in CallbackType
    <3>1. [pc |-> "sent", status |-> "running", seen |-> {}] \in Callback
      BY DEF Callback, Seen, Reported
    <3>. QED
      BY <1>1, <3>1, SetCallbackType
      DEF TypeOK, JobStarts, Send, CallbackType, CallbackKinds
  <2>. QED BY <2>1, <2>2 DEF TypeOK, CallbackType, JobStarts
<1>3. Only(r)
  BY DEF TypeOK, Only, SameRun, JobStarts, JobGoto, Send, SetCallback
<1>4. RequestOK(r)'
  BY <1>1 DEF RunOK, RequestOK, AwaitsApproval, NeedsAsking, JobStarts
<1>5. JobOK(r)'
  BY <1>1 DEF RunOK, JobOK, Approved, JobStarts
<1>6. ReleaseOK(r)'
  BY <1>1 DEF RunOK, ReleaseOK, BeforeFetch, JobStarts
<1>. QED BY <1>2, <1>3, <1>4, <1>5, <1>6 DEF Kept, RunOK

LEMMA JobRequestsSecretsKept ==
  ASSUME TypeOK, NEW r \in Runs, RunOK(r), JobRequestsSecrets(r)
  PROVE  Kept(r)
<1>. DEFINE n == job[r].attempt
<1>1. /\ job[r].pc = "prepare" /\ job'[r].pc = "fetch"
      /\ job'[r].attempt = n /\ n \in Attempts
      /\ UNCHANGED <<row, request, scripts, callback, cancel>>
  BY DEF TypeOK, RunOK, JobOK, JobRequestsSecrets, JobGoto, Job
<1>2. TypeOK'
  <2>1. job' \in [Runs -> Job]
    BY JobGotoType DEF TypeOK, JobRequestsSecrets, JobPC
  <2>2. fetch' \in [Runs -> [Attempts -> FetchPC]]
    BY <1>1 DEF TypeOK, JobRequestsSecrets, FetchPC
  <2>. QED BY <2>1, <2>2 DEF TypeOK, JobRequestsSecrets
<1>3. Only(r)
  BY DEF TypeOK, Only, SameRun, JobRequestsSecrets, JobGoto
<1>4. RequestOK(r)'
  BY <1>1 DEF RunOK, RequestOK, AwaitsApproval, NeedsAsking
<1>5. JobOK(r)'
  BY <1>1 DEF RunOK, JobOK, Approved
<1>6. ReleaseOK(r)'
  <2>1. fetch[r][n] = "unsent" /\ fetch'[r][n] = "sent"
    BY <1>1 DEF TypeOK, RunOK, ReleaseOK, BeforeFetch, JobRequestsSecrets
  <2>2. \A a \in Attempts : a # n => fetch'[r][a] = fetch[r][a]
    BY DEF TypeOK, JobRequestsSecrets
  <2>3. \A a \in Attempts :
           fetch'[r][a] = "granted" => a # n /\ fetch[r][a] = "granted"
    BY <2>1, <2>2
  <2>4. \A a, b \in Attempts :
           fetch'[r][a] = "granted" /\ fetch'[r][b] = "granted" => a = b
    BY <2>3 DEF RunOK, ReleaseOK
  <2>5. \A a \in Attempts :
           /\ fetch'[r][a] = "granted" => "secrets_fetched_at" \in row'[r].dates
           /\ BeforeFetch(r, a)' => fetch'[r][a] = "unsent"
    <3>. SUFFICES ASSUME NEW a \in Attempts
                  PROVE /\ fetch'[r][a] = "granted" =>
                              "secrets_fetched_at" \in row'[r].dates
                        /\ BeforeFetch(r, a)' => fetch'[r][a] = "unsent"
      OBVIOUS
    <3>1. n \in Int /\ a \in Int
      BY <1>1, ConstantsAssumption DEF Attempts
    <3>2. BeforeFetch(r, a)' => a # n /\ BeforeFetch(r, a)
      BY <1>1, <3>1 DEF BeforeFetch
    <3>. QED BY <1>1, <2>2, <2>3, <3>2 DEF RunOK, ReleaseOK
  <2>6. scripts'[r] # 0 =>
           /\ scripts'[r] = 1
           /\ \E a \in Attempts : /\ fetch'[r][a] = "granted"
                                  /\ a = job'[r].attempt => job'[r].pc # "fetch"
    BY <1>1, <2>1, <2>2 DEF RunOK, ReleaseOK
  <2>. QED BY <2>4, <2>5, <2>6 DEF ReleaseOK
<1>. QED BY <1>2, <1>3, <1>4, <1>5, <1>6 DEF Kept, RunOK

\* The attempt that starts the entrypoint is the one that was given the
\* secrets, so nobody started it before.
LEMMA JobStartsScriptKept ==
  ASSUME TypeOK, NEW r \in Runs, RunOK(r), JobStartsScript(r)
  PROVE  Kept(r) /\ scripts[r] = 0 /\ scripts'[r] = 1
<1>1. /\ job[r].pc = "fetch" /\ job'[r].pc = "script"
      /\ job'[r].attempt = job[r].attempt /\ job[r].attempt \in Attempts
      /\ fetch[r][job[r].attempt] = "granted"
      /\ UNCHANGED <<row, request, callback, fetch, cancel>>
  BY DEF TypeOK, RunOK, JobOK, JobStartsScript, JobGoto, Job
<1>2. scripts[r] = 0
  BY <1>1 DEF RunOK, ReleaseOK
<1>3. scripts'[r] = 1
  BY <1>2 DEF TypeOK, JobStartsScript
<1>4. TypeOK'
  <2>1. job' \in [Runs -> Job]
    BY JobGotoType DEF TypeOK, JobStartsScript, JobPC
  <2>2. scripts' \in [Runs -> Nat]
    BY DEF TypeOK, JobStartsScript
  <2>. QED BY <2>1, <2>2 DEF TypeOK, JobStartsScript
<1>5. Only(r)
  BY DEF TypeOK, Only, SameRun, JobStartsScript, JobGoto
<1>6. RequestOK(r)'
  BY <1>1 DEF RunOK, RequestOK, AwaitsApproval, NeedsAsking
<1>7. JobOK(r)'
  BY <1>1 DEF RunOK, JobOK, Approved
<1>8. ReleaseOK(r)'
  BY <1>1, <1>3 DEF RunOK, ReleaseOK, BeforeFetch
<1>. QED BY <1>2, <1>3, <1>4, <1>5, <1>6, <1>7, <1>8 DEF Kept, RunOK

LEMMA JobReportsKept ==
  ASSUME TypeOK, NEW r \in Runs, RunOK(r),
         NEW status \in Reported, JobReports(r, status)
  PROVE  Kept(r)
BY JobGotoKept DEF JobReports, JobPC, CallbackKinds

LEMMA JobAcknowledgedKept ==
  ASSUME TypeOK, NEW r \in Runs, RunOK(r), JobAcknowledged(r)
  PROVE  Kept(r)
<1>1. PICK to \in {"completed", "exited"} : JobGoto(r, "result", to)
  BY DEF JobAcknowledged
<1>2. "running" \in CallbackKinds /\ "running" \in Reported
  BY DEF CallbackKinds, Reported
<1>. QED BY <1>1, <1>2, JobGotoKept DEF JobAcknowledged, JobPC

LEMMA JobRaisesKept ==
  ASSUME TypeOK, NEW r \in Runs, RunOK(r), JobRaises(r)
  PROVE  Kept(r)
<1>1. PICK from \in {"prepare", "fetch", "script", "result"} :
         JobGoto(r, from, "fallback")
  BY DEF JobRaises
<1>. QED BY <1>1, JobGotoKept DEF JobRaises, JobPC, CallbackKinds, Reported

LEMMA JobExitsKept ==
  ASSUME TypeOK, NEW r \in Runs, RunOK(r), JobExits(r)
  PROVE  Kept(r)
<1>1. PICK from \in JobPC \ {"absent"} : JobGoto(r, from, "exited")
  BY DEF JobExits, JobPC
<1>2. "running" \in CallbackKinds /\ "running" \in Reported
  BY DEF CallbackKinds, Reported
<1>. QED BY <1>1, <1>2, JobGotoKept DEF JobExits, JobPC

LEMMA JobRetriesKept ==
  ASSUME TypeOK, NEW r \in Runs, RunOK(r), JobRetries(r)
  PROVE  Kept(r)
<1>1. /\ job[r].pc = "exited" /\ job'[r].pc = "pending"
      /\ job'[r].attempt = job[r].attempt + 1
      /\ UNCHANGED <<row, request, scripts, callback, fetch, cancel>>
  BY DEF TypeOK, JobRetries, NextAttempt, Job
<1>2. job[r].attempt \in Attempts
  BY <1>1 DEF TypeOK, RunOK, JobOK, Job
<1>3. /\ job[r].attempt \in Nat /\ Attempts \subseteq Nat
      /\ job[r].attempt + 1 \in Attempts
  BY <1>2, ConstantsAssumption DEF Attempts, JobRetries
<1>4. TypeOK'
  <2>1. PICK n \in Attempts : n = job[r].attempt + 1
    BY <1>3
  <2>2. job' = [job EXCEPT ![r].pc = "pending", ![r].attempt = n]
    BY <2>1 DEF JobRetries, NextAttempt
  <2>3. job \in [Runs -> Job] /\ "pending" \in JobPC
    BY DEF TypeOK, JobPC
  <2>4. job' \in [Runs -> Job]
    BY <2>2, <2>3 DEF Job
  <2>. QED BY <2>4 DEF TypeOK, JobRetries, NextAttempt
<1>5. Only(r)
  BY DEF TypeOK, Only, SameRun, JobRetries, NextAttempt
<1>6. RequestOK(r)'
  BY <1>1 DEF RunOK, RequestOK, AwaitsApproval, NeedsAsking
<1>7. JobOK(r)'
  BY <1>1, <1>3 DEF RunOK, JobOK, Approved
<1>8. ReleaseOK(r)'
  <2>1. ASSUME NEW a \in Attempts, BeforeFetch(r, a)'
        PROVE  BeforeFetch(r, a)
    <3>1. a >= job[r].attempt + 1
      BY <1>1, <1>3, <2>1 DEF BeforeFetch
    <3>2. a > job[r].attempt
      BY <1>3, <3>1
    <3>. QED BY <3>2 DEF BeforeFetch
  <2>. QED BY <1>1, <2>1 DEF RunOK, ReleaseOK
<1>. QED BY <1>4, <1>5, <1>6, <1>7, <1>8 DEF Kept, RunOK

LEMMA TokensExpireKept ==
  ASSUME TypeOK, NEW r \in Runs, RunOK(r), TokensExpire(r)
  PROVE  Kept(r)
<1>1. UNCHANGED <<row, request, job, scripts, callback, fetch, cancel>>
  BY DEF TokensExpire
<1>2. \A q \in Runs : SameRun(q)
  BY <1>1 DEF SameRun
<1>3. TypeOK'
  BY DEF TypeOK, TokensExpire
<1>. QED BY <1>2, <1>3, SameRunOK DEF Kept, Only

----------------------------------------------------------------------------
(* The endpoints the job talks to, cancelling and cleaning up *)

LEMMA AnsweredType ==
  ASSUME NEW kind, NEW status \in Reported, NEW answer \in {"ok", "refused"}
  PROVE  Answered(kind, status, answer) \in Callback
BY DEF Answered, Callback, Unsent, Seen, Reported

LEMMA ReceiveCallbackKept ==
  ASSUME TypeOK, NEW r \in Runs, RunOK(r), NEW a \in Attempts,
         NEW kind \in CallbackKinds, ReceiveCallback(r, a, kind)
  PROVE  Kept(r)
<1>. DEFINE call == callback[r][a][kind]
<1>1. call.pc = "sent" /\ call.status \in Reported
  BY DEF TypeOK, ReceiveCallback, Callback
<1>2. job[r].pc # "absent"
  BY <1>1 DEF RunOK, JobOK
<1>3. UNCHANGED <<row, request, job, scripts, fetch, cancel>>
  BY DEF ReceiveCallback
<1>4. PICK c \in Callback : SetCallback(r, a, kind, c)
  <2>1. [pc |-> "read", status |-> call.status, seen |-> SeenStart(r)] \in Callback
    BY <1>1 DEF Callback, SeenStart, Seen
  <2>2. Answered(kind, call.status, "refused") \in Callback
    BY <1>1, AnsweredType
  <2>. QED BY <2>1, <2>2 DEF ReceiveCallback
<1>5. TypeOK'
  <2>1. callback' \in CallbackType
    BY <1>4, SetCallbackType DEF TypeOK, CallbackType
  <2>. QED BY <2>1 DEF TypeOK, CallbackType, ReceiveCallback
<1>6. Only(r)
  BY <1>3, <1>4 DEF TypeOK, Only, SameRun, SetCallback
<1>7. RequestOK(r)' /\ ReleaseOK(r)'
  BY <1>3 DEF RunOK, RequestOK, AwaitsApproval, NeedsAsking, ReleaseOK,
              BeforeFetch
<1>8. JobOK(r)'
  BY <1>2, <1>3 DEF RunOK, JobOK, Approved
<1>. QED BY <1>5, <1>6, <1>7, <1>8 DEF Kept, RunOK

LEMMA ApplyExecutionCallbackKept ==
  ASSUME TypeOK, NEW r \in Runs, RunOK(r), NEW a \in Attempts,
         NEW kind \in CallbackKinds, ApplyExecutionCallback(r, a, kind)
  PROVE  Kept(r)
<1>. DEFINE call == callback[r][a][kind]
            dates == ReportedDates(call.status, call.seen)
<1>1. call.pc = "read" /\ call.status \in Reported
  BY DEF TypeOK, ApplyExecutionCallback, Callback
<1>2. job[r].pc # "absent"
  BY <1>1 DEF RunOK, JobOK
<1>3. /\ Save(r, call.status, dates)
      /\ SetCallback(r, a, kind, Answered(kind, call.status, "ok"))
      /\ UNCHANGED <<request, job, scripts, fetch, cancel>>
  BY DEF ApplyExecutionCallback
<1>4. /\ row' \in [Runs -> RunRow]
      /\ \A q \in Runs \ {r} : row'[q] = row[q]
      /\ row'[r].status = call.status
      /\ row'[r].version = row[r].version
      /\ row'[r].dates = row[r].dates \cup dates
  <2>1. dates \in SUBSET Dates
    BY DEF ReportedDates, StartUnless, Dates
  <2>2. call.status \in StatusChoices
    BY <1>1 DEF Reported, StatusChoices, Cancellable, TerminalStatuses
  <2>. QED BY <1>3, <2>1, <2>2, SaveOK
<1>5. TypeOK'
  <2>1. callback' \in CallbackType
    BY <1>1, <1>3, AnsweredType, SetCallbackType DEF TypeOK, CallbackType
  <2>. QED BY <1>4, <2>1 DEF TypeOK, CallbackType, ApplyExecutionCallback
<1>6. Only(r)
  BY <1>3, <1>4 DEF TypeOK, Only, SameRun, SetCallback
<1>7. RequestOK(r)'
  BY <1>1, <1>2, <1>3, <1>4 DEF RunOK, RequestOK, AwaitsApproval, NeedsAsking,
                               Reported
<1>8. JobOK(r)'
  BY <1>1, <1>2, <1>3, <1>4 DEF RunOK, JobOK, Approved, Reported
<1>9. ReleaseOK(r)'
  BY <1>3, <1>4 DEF RunOK, ReleaseOK, BeforeFetch
<1>. QED BY <1>5, <1>6, <1>7, <1>8, <1>9 DEF Kept, RunOK

LEMMA FetchExecutionSecretsKept ==
  ASSUME TypeOK, NEW r \in Runs, RunOK(r), NEW a \in Attempts,
         FetchExecutionSecrets(r, a)
  PROVE  Kept(r)
<1>1. /\ fetch[r][a] = "sent" /\ fetch'[r][a] \in {"granted", "denied"}
      /\ \A b \in Attempts : b # a => fetch'[r][b] = fetch[r][b]
      /\ fetch' \in [Runs -> [Attempts -> FetchPC]]
      /\ \A q \in Runs \ {r} : fetch'[q] = fetch[q]
      /\ UNCHANGED <<request, job, scripts, callback, cancel>>
  <2>1. PICK answer \in {"granted", "denied"} :
           /\ fetch[r][a] = "sent"
           /\ fetch' = [fetch EXCEPT ![r][a] = answer]
           /\ UNCHANGED <<request, job, scripts, callback, cancel>>
    BY DEF FetchExecutionSecrets, GrantSecrets, DenySecrets
  <2>2. fetch \in [Runs -> [Attempts -> FetchPC]] /\ answer \in FetchPC
    BY DEF TypeOK, FetchPC
  <2>. QED BY <2>1, <2>2
<1>2. ~BeforeFetch(r, a)
  BY <1>1 DEF RunOK, ReleaseOK
<1>3. job[r].pc # "absent"
  BY <1>1, <1>2, ConstantsAssumption DEF RunOK, JobOK, BeforeFetch, Attempts
<1>4. /\ row' \in [Runs -> RunRow]
      /\ \A q \in Runs \ {r} : row'[q] = row[q]
      /\ row'[r].version = row[r].version
      /\ row'[r].status = row[r].status
      /\ row[r].dates \subseteq row'[r].dates
  <2>1.CASE row' = row
    BY <2>1 DEF TypeOK
  <2>2.CASE Save(r, row[r].status, {"secrets_fetched_at"})
    <3>1. row' \in [Runs -> RunRow]
      BY <2>2, SaveType DEF TypeOK, RunRow, Dates
    <3>. QED BY <2>2, <3>1 DEF TypeOK, Save, RunRow
  <2>. QED
    BY <2>1, <2>2 DEF FetchExecutionSecrets, GrantSecrets, DenySecrets
<1>5. TypeOK'
  BY <1>1, <1>4
  DEF TypeOK, FetchExecutionSecrets, GrantSecrets, DenySecrets
<1>6. Only(r)
  BY <1>1, <1>4 DEF Only, SameRun
<1>7. RequestOK(r)'
  BY <1>1, <1>3, <1>4 DEF RunOK, RequestOK, AwaitsApproval, NeedsAsking
<1>8. JobOK(r)'
  BY <1>1, <1>3, <1>4 DEF RunOK, JobOK, Approved
<1>9. ReleaseOK(r)'
  <2>1.CASE fetch'[r][a] = "denied"
    BY <1>1, <1>2, <1>4, <2>1 DEF RunOK, ReleaseOK, BeforeFetch
  <2>2.CASE fetch'[r][a] = "granted"
    <3>1. /\ "secrets_fetched_at" \notin row[r].dates
          /\ "secrets_fetched_at" \in row'[r].dates
      BY <2>2 DEF TypeOK, RunRow, FetchExecutionSecrets, GrantSecrets,
                  DenySecrets, Save
    <3>2. \A b \in Attempts : fetch[r][b] # "granted"
      BY <3>1 DEF RunOK, ReleaseOK
    <3>. QED
      BY <1>1, <1>2, <2>2, <3>1, <3>2 DEF RunOK, ReleaseOK, BeforeFetch
  <2>. QED BY <1>1, <2>1, <2>2
<1>. QED BY <1>5, <1>6, <1>7, <1>8, <1>9 DEF Kept, RunOK

LEMMA LoadRunToCancelKept ==
  ASSUME TypeOK, NEW r \in Runs, RunOK(r), LoadRunToCancel(r)
  PROVE  Kept(r)
<1>1. /\ row[r] # NoRow
      /\ UNCHANGED <<row, request, job, scripts, callback, fetch>>
  BY DEF LoadRunToCancel, NoRow, Cancellable
<1>2. TypeOK'
  <2>1. [pc |-> "read", seen |-> SeenStart(r)] \in Cancel
    BY DEF Cancel, SeenStart, Seen
  <2>. QED BY <2>1 DEF TypeOK, LoadRunToCancel
<1>3. Only(r)
  BY DEF TypeOK, Only, SameRun, LoadRunToCancel
<1>4. RequestOK(r)'
  BY <1>1 DEF RunOK, RequestOK, AwaitsApproval, NeedsAsking
<1>5. JobOK(r)' /\ ReleaseOK(r)'
  BY <1>1 DEF RunOK, JobOK, ReleaseOK, BeforeFetch, Approved
<1>. QED BY <1>2, <1>3, <1>4, <1>5 DEF Kept, RunOK

LEMMA CancelRunKept ==
  ASSUME TypeOK, NEW r \in Runs, RunOK(r), CancelRun(r)
  PROVE  Kept(r)
<1>1. request[r].pc \notin {"idle", "check", "charge", "create"}
  BY DEF CancelRun, RunOK, RequestOK
<1>. QED
  BY <1>1, SaveKept
  DEF CancelRun, StartUnless, Dates, StatusChoices, TerminalStatuses

LEMMA CleanupKept ==
  ASSUME TypeOK, NEW r \in Runs, RunOK(r), CleanupQueued(r) \/ CleanupRunning(r)
  PROVE  Kept(r)
<1>1. row[r] # NoRow
  BY DEF CleanupQueued, CleanupRunning, NoRow
<1>2. request[r].pc \notin {"idle", "check", "charge", "create"}
  BY <1>1 DEF RunOK, RequestOK
<1>. QED
  BY <1>2, SaveKept
  DEF CleanupQueued, CleanupRunning, Dates, StatusChoices, TerminalStatuses

----------------------------------------------------------------------------
(* The inductive invariant *)

LEMMA InitExecInv == Init => ExecInv
<1>. SUFFICES ASSUME Init PROVE ExecInv
  OBVIOUS
<1>1. TypeOK
  <2>1. /\ NoRow \in RunRow /\ NoRequest \in Request /\ NoJob \in Job
        /\ NoCancel \in Cancel /\ Unsent \in Callback /\ "unsent" \in FetchPC
    BY DEF NoRow, RunRow, NoRequest, Request, RequestPC, Approval, NoJob, Job,
           JobPC, NoCancel, Cancel, Unsent, Callback, Reported, Seen, FetchPC
  <2>2. today \in Days
    BY ConstantsAssumption DEF Init, Days
  <2>. QED BY <2>1, <2>2 DEF Init, TypeOK
<1>2. ASSUME NEW r \in Runs
      PROVE  RequestOK(r) /\ JobOK(r) /\ ReleaseOK(r)
  BY DEF Init, NoRequest, NoJob, NoCancel, Unsent, RequestOK, JobOK, ReleaseOK
<1>. QED BY <1>1, <1>2 DEF ExecInv

LEMMA RequestStepKept ==
  ASSUME TypeOK, NEW r \in Runs, RunOK(r), RequestStep(r)
  PROVE  Kept(r)
BY ExecuteSkillKept, EnforceSkillConcurrencyKept, EnforceSkillQuotaKept,
   CreateRunKept, DispatchInlineKept, RecordQueuedKept, PrepareFailsKept,
   PostJobKept, RecordRejectedKept, RefreshAfterDispatchErrorKept,
   MarkRunFailedKept, RequestDiesKept
DEF RequestStep

LEMMA JobStepKept ==
  ASSUME TypeOK, NEW r \in Runs, RunOK(r), JobStep(r)
  PROVE  Kept(r)
BY TokensExpireKept, JobStartsKept, JobRequestsSecretsKept,
   JobStartsScriptKept, JobReportsKept, JobAcknowledgedKept, JobRaisesKept,
   JobExitsKept, JobRetriesKept
DEF JobStep

LEMMA ServerStepKept ==
  ASSUME TypeOK, NEW r \in Runs, RunOK(r), ServerStep(r)
  PROVE  Kept(r)
BY ReceiveCallbackKept, ApplyExecutionCallbackKept, FetchExecutionSecretsKept,
   LoadRunToCancelKept, CancelRunKept, CleanupKept
DEF ServerStep

LEMMA ExecInvNext == ExecInv /\ [Next]_vars => ExecInv'
<1>. SUFFICES ASSUME ExecInv, [Next]_vars PROVE ExecInv'
  OBVIOUS
<1>1.CASE UNCHANGED <<row, requestVars, jobVars, serverVars>> /\ TypeOK'
  <2>1. \A q \in Runs : SameRun(q)
    BY <1>1 DEF SameRun
  <2>. QED BY <1>1, <2>1, SameRunOK DEF ExecInv, RunOK
<1>2.CASE Environment
  <2>1. TypeOK'
    <3>1. /\ backend' = backend /\ current' \in Versions /\ today' \in Days
          /\ UNCHANGED <<row, requestVars, jobVars, serverVars>>
      BY <1>2, ConstantsAssumption
      DEF ExecInv, TypeOK, Environment, PublishVersion, Midnight, Days
    <3>. QED BY <3>1 DEF ExecInv, TypeOK
  <2>. QED BY <1>1, <1>2, <2>1 DEF Environment, PublishVersion, Midnight
<1>3.CASE UNCHANGED vars
  BY <1>1, <1>3 DEF ExecInv, TypeOK
<1>4.CASE \E r \in Runs : RequestStep(r) \/ JobStep(r) \/ ServerStep(r)
  <2>1. PICK r \in Runs : RequestStep(r) \/ JobStep(r) \/ ServerStep(r)
    BY <1>4
  <2>2. TypeOK /\ RunOK(r)
    BY DEF ExecInv, RunOK
  <2>3. Kept(r)
    BY <2>1, <2>2, RequestStepKept, JobStepKept, ServerStepKept
  <2>. QED BY <2>3, SameRunOK DEF ExecInv, RunOK, Kept, Only
<1>. QED BY <1>2, <1>3, <1>4 DEF Next

\* Whatever requests, jobs, callbacks, cancellations and cleanups do, the
\* state of every run stays consistent: its charge, its row, its job, the one
\* release of its secrets and the one start of its entrypoint.
THEOREM ExecInvariant == Spec => []ExecInv
<1>1. Init => ExecInv
  BY InitExecInv
<1>2. ExecInv /\ [Next]_vars => ExecInv'
  BY ExecInvNext
<1>. QED BY <1>1, <1>2, PTL DEF Spec

\* Type correctness: every handler leaves every variable with a value of its type.
THEOREM TypeCorrect == Spec => []TypeOK
<1>1. ExecInv => TypeOK
  BY DEF ExecInv
<1>. QED BY <1>1, ExecInvariant, PTL

\* A job exists only for a version that needs no approval or a row that was
\* approved, for any number of versions published while requests are handled.
THEOREM ApprovalIsRequired == Spec => []ApprovalGate
<1>1. ExecInv => ApprovalGate
  BY DEF ExecInv, JobOK, ApprovalGate
<1>. QED BY <1>1, ExecInvariant, PTL

----------------------------------------------------------------------------
(* Rows that await approval *)

\* A row that awaits approval was inserted by a request that is over, and no
\* job of its run exists.
LEMMA PendingRun ==
  ASSUME NEW r \in Runs, RunOK(r), row[r].status = "pending_approval"
  PROVE  /\ request[r].pc \notin RequestPC \ {"answered", "refused", "failed", "dead"}
         /\ job[r].pc = "absent"
         /\ \A a \in Attempts, kind \in CallbackKinds :
                callback[r][a][kind].pc = "unsent"
         /\ \A a \in Attempts : fetch[r][a] = "unsent"
<1>1. request[r].pc \notin RequestPC \ {"answered", "refused", "failed", "dead"}
  BY DEF RunOK, RequestOK, NoRow, RequestPC
<1>2. job[r].pc = "absent" /\ job[r].attempt = 0
  BY DEF RunOK, JobOK
<1>3. \A a \in Attempts, kind \in CallbackKinds :
         callback[r][a][kind].pc = "unsent"
  BY <1>2 DEF RunOK, JobOK
<1>4. \A a \in Attempts : fetch[r][a] = "unsent"
  BY <1>2 DEF RunOK, ReleaseOK, BeforeFetch, Attempts
<1>. QED BY <1>1, <1>2, <1>3, <1>4

LEMMA PendingStep ==
  ASSUME TypeOK, NEW r \in Runs, RunOK(r), row[r].status = "pending_approval",
         RequestStep(r) \/ JobStep(r) \/ ServerStep(r)
  PROVE  row'[r] = row[r] \/ row'[r].status = "cancelled"
<1>1.CASE RequestStep(r)
  <2>1. request[r].pc \notin {"create", "dispatch", "accepted", "rejected",
                              "marking"}
    BY PendingRun DEF RequestPC
  <2>2. UNCHANGED row
    BY <1>1, <2>1
    DEF RequestStep, ExecuteSkill, ReadSkill, EnforceSkillConcurrency,
        EnforceSkillQuota, ChargeQuota, CreateRun, InsertRow, DispatchInline,
        DispatchRecordOnly, PrepareFails, PostJob, RecordAccepted,
        RecordRejected, RefreshAfterDispatchError, MarkRunFailed, RequestDies,
        Goto
  <2>. QED BY <2>2
<1>2.CASE JobStep(r)
  BY <1>2
  DEF JobStep, TokensExpire, JobStarts, JobRequestsSecrets, JobStartsScript,
      JobReports, JobAcknowledged, JobRaises, JobExits, JobRetries, NextAttempt
<1>3.CASE ServerStep(r)
  <2>1.CASE CancelRun(r)
    BY <2>1 DEF TypeOK, CancelRun, Save, RunRow
  <2>2.CASE LoadRunToCancel(r)
    BY <2>2 DEF LoadRunToCancel
  <2>3.CASE \E a \in Attempts, kind \in CallbackKinds :
               ReceiveCallback(r, a, kind) \/ ApplyExecutionCallback(r, a, kind)
    BY <2>3, PendingRun DEF ReceiveCallback, ApplyExecutionCallback
  <2>4.CASE \E a \in Attempts : FetchExecutionSecrets(r, a)
    BY <2>4, PendingRun DEF FetchExecutionSecrets, GrantSecrets, DenySecrets
  <2>5. ~CleanupQueued(r) /\ ~CleanupRunning(r)
    BY DEF CleanupQueued, CleanupRunning
  <2>. QED BY <1>3, <2>1, <2>2, <2>3, <2>4, <2>5 DEF ServerStep
<1>. QED BY <1>1, <1>2, <1>3

\* No request, job, callback, secrets request or cleanup ever touches a row
\* that awaits approval: it is left as it is until somebody cancels it.
THEOREM PendingIsInert == Spec => PendingStaysInert
<1>1. ASSUME ExecInv, [Next]_vars, NEW q \in Runs,
             row[q].status = "pending_approval"
      PROVE  row'[q] = row[q] \/ row'[q].status = "cancelled"
  <2>1.CASE Environment \/ UNCHANGED vars
    BY <2>1 DEF Environment, PublishVersion, Midnight
  <2>2. ASSUME NEW r \in Runs, RequestStep(r) \/ JobStep(r) \/ ServerStep(r)
        PROVE  row'[q] = row[q] \/ row'[q].status = "cancelled"
    <3>1. TypeOK /\ RunOK(r)
      BY <1>1 DEF ExecInv, RunOK
    <3>2.CASE q = r
      BY <1>1, <2>2, <3>1, <3>2, PendingStep
    <3>3.CASE q # r
      BY <2>2, <3>1, <3>3, RequestStepKept, JobStepKept, ServerStepKept
      DEF Kept, Only, SameRun
    <3>. QED BY <3>2, <3>3
  <2>. QED BY <1>1, <2>1, <2>2 DEF Next
<1>2. ExecInv /\ [Next]_vars =>
         [\A r \in Runs :
             row[r].status = "pending_approval" =>
                 row'[r] = row[r] \/ row'[r].status = "cancelled"]_vars
  BY <1>1
<1>. QED BY <1>2, ExecInvariant, PTL DEF Spec, PendingStaysInert

----------------------------------------------------------------------------
(* The daily quota *)

\* The quota is charged by EnforceSkillQuota only.
LEMMA ChargeSteps ==
  ASSUME ExecInv, [Next]_vars
  PROVE  \/ \E r \in Runs : quota[today] < MaxRunsPerDay /\ ChargeQuota(r)
         \/ /\ quota' = quota
            /\ \A q \in Runs : request'[q].chargedOn = request[q].chargedOn
<1>1.CASE Environment \/ UNCHANGED vars
  BY <1>1 DEF Environment, PublishVersion, Midnight
<1>2. ASSUME NEW r \in Runs, RequestStep(r),
             ~(quota[today] < MaxRunsPerDay /\ ChargeQuota(r))
      PROVE  /\ quota' = quota
             /\ \A q \in Runs : request'[q].chargedOn = request[q].chargedOn
  <2>1. TypeOK
    BY DEF ExecInv
  <2>2. quota' = quota
    BY <1>2
    DEF RequestStep, ExecuteSkill, ReadSkill, EnforceSkillConcurrency,
        EnforceSkillQuota, CreateRun, InsertRow, DispatchInline,
        DispatchRecordOnly, PrepareFails, PostJob, RecordAccepted,
        RecordRejected, RefreshAfterDispatchError, MarkRunFailed, RequestDies
  <2>. request \in [Runs -> Request]
    BY <2>1 DEF TypeOK
  <2>3.CASE \E approval \in Approval : ExecuteSkill(r, approval)
    <3>1. PICK approval \in Approval, next \in RequestPC :
             ReadSkill(r, approval, next)
      BY <2>3 DEF ExecuteSkill, RequestPC
    <3>. QED BY <2>2, <3>1 DEF Request, ReadSkill
  <2>4.CASE RefreshAfterDispatchError(r)
    <3>1. \/ Goto(r, "failing", "failed")
          \/ request' = [request EXCEPT ![r].pc = "marking",
                                        ![r].seen = SeenStart(r)]
      BY <2>4 DEF RefreshAfterDispatchError
    <3>. QED BY <2>2, <3>1 DEF Request, Goto
  <2>5.CASE \E from, to \in RequestPC : Goto(r, from, to)
    BY <2>1, <2>2, <2>5 DEF TypeOK, Request, Goto
  <2>. QED
    BY <1>2, <2>3, <2>4, <2>5
    DEF RequestStep, EnforceSkillConcurrency, EnforceSkillQuota, CreateRun,
        InsertRow, DispatchInline, DispatchRecordOnly, PrepareFails, PostJob,
        RecordAccepted, RecordRejected, MarkRunFailed, RequestDies, RequestPC
<1>3. ASSUME NEW r \in Runs, JobStep(r) \/ ServerStep(r)
      PROVE  quota' = quota /\ request' = request
  BY <1>3
  DEF JobStep, TokensExpire, JobStarts, JobRequestsSecrets, JobStartsScript,
      JobReports, JobAcknowledged, JobRaises, JobExits, JobRetries,
      NextAttempt, ServerStep, ReceiveCallback, ApplyExecutionCallback,
      FetchExecutionSecrets, GrantSecrets, DenySecrets, LoadRunToCancel,
      CancelRun, CleanupQueued, CleanupRunning
<1>. QED BY <1>1, <1>2, <1>3 DEF Next

LEMMA ChargeQuotaCounts ==
  ASSUME ExecInv, QuotaCountsCharges, NEW r \in Runs,
         quota[today] < MaxRunsPerDay, ChargeQuota(r)
  PROVE  QuotaCountsCharges'
<1>1. /\ today \in Days /\ 0 \notin Days
      /\ quota \in [Days -> Nat] /\ request \in [Runs -> Request]
  BY DEF ExecInv, TypeOK, Days
<1>2. request[r].chargedOn = 0
  BY DEF ExecInv, RequestOK, ChargeQuota
<1>3. \A q \in Runs : request'[q].chargedOn =
                         IF q = r THEN today ELSE request[q].chargedOn
  BY <1>1 DEF ChargeQuota, Request
<1>4. SUFFICES ASSUME NEW d \in Days
               PROVE  /\ quota'[d] = Cardinality(ChargedOn(d)')
                      /\ quota'[d] <= MaxRunsPerDay
  BY DEF QuotaCountsCharges
<1>5.CASE d = today
  <2>1. ChargedOn(d)' = ChargedOn(d) \cup {r} /\ r \notin ChargedOn(d)
    BY <1>1, <1>2, <1>3, <1>5 DEF ChargedOn
  <2>2. IsFiniteSet(ChargedOn(d))
    BY RunsFinite, FS_Subset DEF ChargedOn
  <2>3. Cardinality(ChargedOn(d)') = Cardinality(ChargedOn(d)) + 1
    BY <2>1, <2>2, FS_AddElement
  <2>4. quota'[d] = quota[d] + 1
    BY <1>1, <1>5 DEF ChargeQuota
  <2>5. quota[d] = Cardinality(ChargedOn(d))
    BY DEF QuotaCountsCharges
  <2>. QED BY <1>1, <1>5, <2>3, <2>4, <2>5, ConstantsAssumption
<1>6.CASE d # today
  <2>1. ChargedOn(d)' = ChargedOn(d)
    BY <1>1, <1>2, <1>3, <1>6 DEF ChargedOn
  <2>2. quota'[d] = quota[d]
    BY <1>1, <1>6 DEF ChargeQuota
  <2>. QED BY <2>1, <2>2 DEF QuotaCountsCharges
<1>. QED BY <1>5, <1>6

\* The counter of a day is the number of runs charged to it, and at most
\* max_runs_per_day, for any number of concurrent requests.
THEOREM QuotaIsExact == Spec => []QuotaCountsCharges
<1>1. Init => QuotaCountsCharges
  <2>. SUFFICES ASSUME Init, NEW d \in Days
                PROVE  quota[d] = Cardinality(ChargedOn(d)) /\ quota[d] <= MaxRunsPerDay
    BY DEF QuotaCountsCharges
  <2>1. ChargedOn(d) = {}
    BY DEF Init, NoRequest, ChargedOn, Days
  <2>. QED BY <2>1, FS_EmptySet, ConstantsAssumption DEF Init
<1>2. ExecInv /\ QuotaCountsCharges /\ [Next]_vars => QuotaCountsCharges'
  <2>. SUFFICES ASSUME ExecInv, QuotaCountsCharges, [Next]_vars
                PROVE  QuotaCountsCharges'
    OBVIOUS
  <2>1.CASE /\ quota' = quota
            /\ \A q \in Runs : request'[q].chargedOn = request[q].chargedOn
    <3>1. \A d \in Days : ChargedOn(d)' = ChargedOn(d)
      BY <2>1 DEF ChargedOn
    <3>. QED BY <2>1, <3>1 DEF QuotaCountsCharges
  <2>. QED BY <2>1, ChargeSteps, ChargeQuotaCounts
<1>. QED BY <1>1, <1>2, ExecInvariant, PTL DEF Spec

----------------------------------------------------------------------------
(* The executions implement RunContract *)

Granted(r) == {a \in Attempts : fetch[r][a] = "granted"}

\* The abstract step of each kind, said of the concrete variables.
LEMMA ChargeImplements ==
  ASSUME ExecInv, QuotaCountsCharges, NEW r \in Runs,
         quota[today] < MaxRunsPerDay, ChargeQuota(r),
         NEW d \in Days, d = today
  PROVE  Contract!Charge(r, d)
<1>1. today \in Days /\ request \in [Runs -> Request] /\ 0 \notin Days
  BY DEF ExecInv, TypeOK, Days
<1>2. request[r].chargedOn = 0
  BY DEF ExecInv, RequestOK, ChargeQuota
<1>3. Cardinality(ChargedOn(d)) < MaxRunsPerDay
  BY <1>1 DEF QuotaCountsCharges
<1>4. \A q \in Runs : request'[q].chargedOn =
                         IF q = r THEN d ELSE request[q].chargedOn
  BY <1>1 DEF ChargeQuota, Request
<1>5. Contract!Cardinality({q \in Runs :
                               [p \in Runs |-> request[p].chargedOn][q] = d})
         = Cardinality(ChargedOn(d))
  <2>1. {q \in Runs : [p \in Runs |-> request[p].chargedOn][q] = d}
           = ChargedOn(d)
    BY DEF ChargedOn
  <2>. QED BY <2>1 DEF Cardinality, Contract!Cardinality
<1>6. [q \in Runs |-> request'[q].chargedOn]
         = [[q \in Runs |-> request[q].chargedOn] EXCEPT ![r] = d]
  BY <1>4
<1>7. UNCHANGED <<fetch, scripts>>
  BY DEF ChargeQuota
<1>. QED BY <1>2, <1>3, <1>5, <1>6, <1>7 DEF Contract!Charge

LEMMA ReleaseImplements ==
  ASSUME ExecInv, NEW r \in Runs, NEW a \in Attempts,
         FetchExecutionSecrets(r, a), ~DenySecrets(r, a)
  PROVE  Contract!Release(r, a)
<1>1. /\ fetch \in [Runs -> [Attempts -> FetchPC]]
      /\ RequestOK(r) /\ JobOK(r) /\ ReleaseOK(r) /\ a \in Nat \ {0}
  BY DEF ExecInv, TypeOK, Attempts
<1>2. /\ fetch[r][a] = "sent"
      /\ fetch' = [fetch EXCEPT ![r][a] = "granted"]
      /\ "secrets_fetched_at" \notin row[r].dates
      /\ UNCHANGED <<request, scripts>>
  BY DEF FetchExecutionSecrets, GrantSecrets
<1>3. \A b \in Attempts : fetch[r][b] # "granted"
  BY <1>1, <1>2 DEF ReleaseOK
<1>4. request[r].chargedOn # 0
  <2>1. ~BeforeFetch(r, a)
    BY <1>1, <1>2 DEF ReleaseOK
  <2>2. job[r].pc # "absent"
    BY <1>1, <2>1 DEF JobOK, BeforeFetch
  <2>. QED BY <1>1, <2>2 DEF JobOK
<1>5. Granted(r) = {}
  BY <1>3 DEF Granted
<1>6. \A q \in Runs : Granted(q)' = IF q = r THEN {a} ELSE Granted(q)
  BY <1>1, <1>2, <1>3 DEF Granted
<1>7. [q \in Runs |-> Granted(q)']
         = [[q \in Runs |-> Granted(q)] EXCEPT ![r] = {a}]
  BY <1>6
<1>. QED BY <1>2, <1>4, <1>5, <1>7 DEF Contract!Release, Granted

LEMMA StartImplements ==
  ASSUME ExecInv, NEW r \in Runs, JobStartsScript(r)
  PROVE  Contract!Start(r)
<1>1. TypeOK /\ RunOK(r)
  BY DEF ExecInv, RunOK
<1>2. scripts[r] = 0 /\ scripts \in [Runs -> Nat]
  BY <1>1, JobStartsScriptKept DEF TypeOK
<1>3. scripts' = [scripts EXCEPT ![r] = 1] /\ UNCHANGED <<request, fetch>>
  BY <1>2 DEF JobStartsScript
<1>4. job[r].attempt \in Attempts /\ fetch[r][job[r].attempt] = "granted"
  BY <1>1 DEF TypeOK, RunOK, JobOK, JobStartsScript, JobGoto, Job
<1>. QED BY <1>2, <1>3, <1>4 DEF Contract!Start

\* Who changes what an attempt was given and how often it was started.
LEMMA GrantSteps ==
  ASSUME ExecInv, [Next]_vars
  PROVE  \/ /\ \A q \in Runs : Granted(q)' = Granted(q)
            /\ UNCHANGED scripts
         \/ \E r \in Runs : JobStartsScript(r)
         \/ \E r \in Runs, a \in Attempts :
               FetchExecutionSecrets(r, a) /\ ~DenySecrets(r, a)
<1>. fetch \in [Runs -> [Attempts -> FetchPC]]
  BY DEF ExecInv, TypeOK
<1>1.CASE UNCHANGED <<fetch, scripts>>
  BY <1>1 DEF Granted
<1>2. ASSUME NEW r \in Runs, RequestStep(r) PROVE UNCHANGED <<fetch, scripts>>
  BY <1>2
  DEF RequestStep, ExecuteSkill, ReadSkill, EnforceSkillConcurrency,
      EnforceSkillQuota, ChargeQuota, CreateRun, InsertRow, DispatchInline,
      DispatchRecordOnly, PrepareFails, PostJob, RecordAccepted,
      RecordRejected, RefreshAfterDispatchError, MarkRunFailed, RequestDies
<1>3. ASSUME NEW r \in Runs, JobStep(r), ~JobStartsScript(r),
             ~JobRequestsSecrets(r)
      PROVE  UNCHANGED <<fetch, scripts>>
  BY <1>3
  DEF JobStep, TokensExpire, JobStarts, JobReports, JobAcknowledged,
      JobRaises, JobExits, JobRetries, NextAttempt
<1>4. ASSUME NEW r \in Runs, JobRequestsSecrets(r)
      PROVE  (\A q \in Runs : Granted(q)' = Granted(q)) /\ UNCHANGED scripts
  <2>1. RunOK(r) /\ TypeOK
    BY DEF ExecInv, RunOK
  <2>2. BeforeFetch(r, job[r].attempt) /\ job[r].attempt \in Attempts
    BY <1>4, <2>1
    DEF TypeOK, RunOK, JobOK, JobRequestsSecrets, JobGoto, Job, BeforeFetch
  <2>3. fetch[r][job[r].attempt] = "unsent"
    BY <2>1, <2>2 DEF RunOK, ReleaseOK
  <2>. QED BY <1>4, <2>2, <2>3 DEF JobRequestsSecrets, Granted
<1>5. ASSUME NEW r \in Runs, NEW a \in Attempts, DenySecrets(r, a)
      PROVE  (\A q \in Runs : Granted(q)' = Granted(q)) /\ UNCHANGED scripts
  BY <1>5 DEF DenySecrets, Granted
<1>6. ASSUME NEW r \in Runs, ServerStep(r),
             ~\E a \in Attempts : FetchExecutionSecrets(r, a)
      PROVE  UNCHANGED <<fetch, scripts>>
  BY <1>6
  DEF ServerStep, ReceiveCallback, ApplyExecutionCallback, LoadRunToCancel,
      CancelRun, CleanupQueued, CleanupRunning
<1>. QED
  BY <1>1, <1>2, <1>3, <1>4, <1>5, <1>6
  DEF Next, Environment, PublishVersion, Midnight

LEMMA StepImplements ==
  ASSUME ExecInv, QuotaCountsCharges, [Next]_vars
  PROVE  [Contract!Next]_(Contract!contractVars)
<1>0. today \in Days
  BY DEF ExecInv, TypeOK
<1>1.CASE \E r \in Runs : quota[today] < MaxRunsPerDay /\ ChargeQuota(r)
  <2>1. PICK r \in Runs : quota[today] < MaxRunsPerDay /\ ChargeQuota(r)
    BY <1>1
  <2>2. PICK d \in Days : d = today
    BY <1>0
  <2>3. Contract!Charge(r, d)
    BY <2>1, <2>2, ChargeImplements
  <2>. QED BY <2>3 DEF Contract!Next
<1>2.CASE \E r \in Runs : JobStartsScript(r)
  BY <1>2, StartImplements DEF Contract!Next
<1>3.CASE \E r \in Runs, a \in Attempts :
             FetchExecutionSecrets(r, a) /\ ~DenySecrets(r, a)
  BY <1>3, ReleaseImplements DEF Contract!Next
<1>4.CASE /\ \A q \in Runs : /\ request'[q].chargedOn = request[q].chargedOn
                             /\ Granted(q)' = Granted(q)
          /\ UNCHANGED scripts
  <2>1. UNCHANGED Contract!contractVars
    BY <1>4 DEF Contract!contractVars, Granted
  <2>. QED BY <2>1
<1>. QED BY <1>1, <1>2, <1>3, <1>4, ChargeSteps, GrantSteps

\* A run is charged before its secrets are released, they are released to one
\* attempt, and its entrypoint starts once, by that attempt: for any number of
\* runs, days and task attempts, every behaviour of the service is one that
\* RunContract allows.
THEOREM ExecutionImplementsContract == Spec => ImplementsContract
<1>1. Init => Contract!Init
  BY DEF Init, Contract!Init, NoRequest
<1>2. ExecInv /\ QuotaCountsCharges /\ [Next]_vars =>
         [Contract!Next]_(Contract!contractVars)
  BY StepImplements
<1>. QED
  BY <1>1, <1>2, ExecInvariant, QuotaIsExact, PTL
  DEF Spec, ImplementsContract, Contract!Spec

----------------------------------------------------------------------------
(* The timestamps of a row *)

\* started_at in a handler's copy is in the row: no save clears a date, so a handler
\* leaves started_at alone only where the row has it.
CopiesOK(r) ==
    /\ request[r].seen \subseteq row[r].dates
    /\ cancel[r].seen \subseteq row[r].dates
    /\ \A a \in Attempts, kind \in CallbackKinds :
           callback[r][a][kind].seen \subseteq row[r].dates

DatesOK(r) ==
    /\ row[r].status = "running" => "started_at" \in row[r].dates
    /\ Terminal(r) => "finished_at" \in row[r].dates

TimesOK(r) == CopiesOK(r) /\ DatesOK(r)

\* A copy is kept, dropped, or taken from the row as it is.
Copies(r) ==
    /\ request'[r].seen \in {request[r].seen, {}, SeenStart(r)}
    /\ cancel'[r].seen \in {cancel[r].seen, {}, SeenStart(r)}
    /\ \A a \in Attempts, kind \in CallbackKinds :
           callback'[r][a][kind].seen \in {callback[r][a][kind].seen, {}, SeenStart(r)}

SameCopies(r) ==
    /\ request'[r].seen = request[r].seen
    /\ cancel' = cancel
    /\ callback' = callback

LEMMA CopiesKept ==
  ASSUME NEW r \in Runs, CopiesOK(r), Copies(r), row[r].dates \subseteq row'[r].dates
  PROVE  CopiesOK(r)'
<1>1. SeenStart(r) \subseteq row[r].dates
  BY DEF SeenStart
<1>. QED BY <1>1 DEF CopiesOK, Copies

\* A step that leaves the row of a run alone keeps its timestamps.
LEMMA SameRowTimes ==
  ASSUME NEW r \in Runs, TimesOK(r), Copies(r), row'[r] = row[r]
  PROVE  TimesOK(r)'
BY CopiesKept DEF TimesOK, DatesOK, Terminal

\* So does one that saves it with the dates that its new status calls for.
LEMMA SaveTimes ==
  ASSUME TypeOK, NEW r \in Runs, TimesOK(r), Copies(r),
         NEW status \in StatusChoices, NEW dates \in SUBSET Dates,
         Save(r, status, dates),
         status = "running" => "started_at" \in row[r].dates \cup dates,
         status \in TerminalStatuses => "finished_at" \in row[r].dates \cup dates
  PROVE  TimesOK(r)'
<1>1. row'[r].status = status /\ row'[r].dates = row[r].dates \cup dates
  BY SaveOK
<1>. QED BY <1>1, CopiesKept DEF TimesOK, DatesOK, Terminal

LEMMA SameCopiesCopy ==
  ASSUME NEW r \in Runs, SameCopies(r)
  PROVE  Copies(r)
BY DEF SameCopies, Copies

LEMMA GotoCopies ==
  ASSUME TypeOK, NEW r \in Runs, NEW from, NEW to, Goto(r, from, to),
         UNCHANGED <<callback, cancel>>
  PROVE  Copies(r)
BY DEF TypeOK, Goto, Request, Copies

\* The steps of a request: before its row is there, nobody has a copy of it.
LEMMA RequestTimes ==
  ASSUME TypeOK, NEW r \in Runs, RunOK(r), TimesOK(r), RequestStep(r)
  PROVE  TimesOK(r)'
<1>. USE DEF StatusChoices, Cancellable, TerminalStatuses, Dates
<1>1.CASE \E approval \in Approval : ExecuteSkill(r, approval)
  <2>1. PICK approval \in Approval, next \in RequestPC : ReadSkill(r, approval, next)
    BY <1>1 DEF ExecuteSkill, RequestPC
  <2>2. Copies(r) /\ row' = row
    BY <2>1 DEF TypeOK, ReadSkill, Request, Copies
  <2>. QED BY <2>2, SameRowTimes
<1>2.CASE ChargeQuota(r)
  <2>1. Copies(r) /\ row' = row
    BY <1>2 DEF TypeOK, ChargeQuota, Request, Copies
  <2>. QED BY <2>1, SameRowTimes
<1>3.CASE /\ \E from, to \in RequestPC : Goto(r, from, to)
          /\ UNCHANGED <<row, callback, cancel>>
  BY <1>3, GotoCopies, SameRowTimes
<1>4.CASE CreateRun(r)
  <2>1. PICK status \in {"pending_approval", "queued"}, next \in RequestPC :
           InsertRow(r, status, request[r].version, next)
    BY <1>4 DEF CreateRun, RequestPC
  <2>2. row[r].dates = {}
    BY <2>1 DEF InsertRow, Goto, RunOK, RequestOK, NoRow
  <2>3. Copies(r)
    BY <2>1, GotoCopies DEF InsertRow
  <2>4. CopiesOK(r)'
    BY <2>2, <2>3, CopiesKept DEF TimesOK
  <2>5. row'[r].status = status
    BY <2>1 DEF TypeOK, InsertRow
  <2>. QED BY <2>4, <2>5 DEF TimesOK, DatesOK, Terminal
<1>5.CASE DispatchInline(r)
  <2>1. Copies(r)
    BY <1>5, GotoCopies DEF DispatchInline
  <2>. QED BY <1>5, <2>1, SaveTimes DEF DispatchInline
<1>6.CASE DispatchRecordOnly(r) \/ RecordAccepted(r)
  <2>1. Copies(r)
    BY <1>6, GotoCopies DEF DispatchRecordOnly, RecordAccepted
  <2>. QED BY <1>6, <2>1, SaveTimes DEF DispatchRecordOnly, RecordAccepted
<1>7.CASE RecordRejected(r)
  <2>1. Copies(r)
    BY <1>7, GotoCopies DEF RecordRejected
  <2>. QED BY <1>7, <2>1, SaveTimes DEF RecordRejected
<1>8.CASE /\ request' = [request EXCEPT ![r].pc = "marking", ![r].seen = SeenStart(r)]
          /\ UNCHANGED <<row, callback, cancel>>
  <2>1. Copies(r)
    BY <1>8 DEF TypeOK, Request, Copies
  <2>. QED BY <1>8, <2>1, SameRowTimes
<1>9.CASE MarkRunFailed(r)
  <2>1. Copies(r)
    BY <1>9, GotoCopies DEF MarkRunFailed
  <2>. QED BY <1>9, <2>1, SaveTimes DEF MarkRunFailed, StartUnless
<1>. QED
  BY <1>1, <1>2, <1>3, <1>4, <1>5, <1>6, <1>7, <1>8, <1>9
  DEF RequestStep, EnforceSkillConcurrency, EnforceSkillQuota, PrepareFails, PostJob,
      RefreshAfterDispatchError, RequestDies, RequestPC

\* A job touches its callbacks only, and sends one without a copy of the row.
LEMMA JobTimes ==
  ASSUME TypeOK, NEW r \in Runs, TimesOK(r), JobStep(r)
  PROVE  TimesOK(r)'
<1>1. UNCHANGED <<row, request, cancel>>
  BY DEF JobStep, TokensExpire, JobStarts, JobRequestsSecrets, JobStartsScript,
         JobReports, JobAcknowledged, JobRaises, JobExits, JobRetries, NextAttempt
<1>2. \/ callback' = callback
      \/ \E kind, status : Send(r, kind, status)
  BY DEF JobStep, TokensExpire, JobStarts, JobRequestsSecrets, JobStartsScript,
         JobReports, JobAcknowledged, JobRaises, JobExits, JobRetries, NextAttempt
<1>3. ASSUME NEW sent, NEW status, Send(r, sent, status),
             NEW a \in Attempts, NEW kind \in CallbackKinds
      PROVE  callback'[r][a][kind].seen \in {callback[r][a][kind].seen, {}}
  <2>1. PICK n, c : SetCallback(r, n, sent, c) /\ c.seen = {}
    BY <1>3 DEF Send
  <2>2. callback'[r][a][kind] \in {callback[r][a][kind], c}
    BY <2>1 DEF TypeOK, SetCallback
  <2>. QED BY <2>1, <2>2
<1>4. Copies(r)
  BY <1>1, <1>2, <1>3 DEF Copies
<1>. QED BY <1>1, <1>4, SameRowTimes

LEMMA AnsweredSeen == \A kind, status, answer : Answered(kind, status, answer).seen = {}
BY DEF Answered, Unsent

\* The handlers of callbacks and cancellations save started_at unless their copy has
\* it, and then the row has it too.
LEMMA ServerTimes ==
  ASSUME TypeOK, NEW r \in Runs, TimesOK(r), ServerStep(r)
  PROVE  TimesOK(r)'
<1>. USE DEF StatusChoices, Cancellable, TerminalStatuses, Dates
<1>1. ASSUME NEW a \in Attempts, NEW kind \in CallbackKinds, ReceiveCallback(r, a, kind)
      PROVE  TimesOK(r)'
  <2>1. PICK c : SetCallback(r, a, kind, c) /\ c.seen \in {{}, SeenStart(r)}
    <3>1. [pc |-> "read", status |-> callback[r][a][kind].status,
           seen |-> SeenStart(r)].seen = SeenStart(r)
      OBVIOUS
    <3>. QED BY <1>1, <3>1, AnsweredSeen, Zenon DEF ReceiveCallback
  <2>2. Copies(r) /\ row' = row
    BY <1>1, <2>1 DEF TypeOK, ReceiveCallback, SetCallback, Copies
  <2>. QED BY <2>2, SameRowTimes
<1>2. ASSUME NEW a \in Attempts, NEW kind \in CallbackKinds,
             ApplyExecutionCallback(r, a, kind)
      PROVE  TimesOK(r)'
  <2>. DEFINE call == callback[r][a][kind]
              dates == ReportedDates(call.status, call.seen)
  <2>1. call.status \in Reported /\ call.seen \subseteq row[r].dates
    BY DEF TypeOK, Callback, TimesOK, CopiesOK
  <2>2. PICK c : SetCallback(r, a, kind, c) /\ c.seen = {}
    BY <1>2, AnsweredSeen, Zenon DEF ApplyExecutionCallback
  <2>3. Copies(r)
    BY <1>2, <2>2 DEF TypeOK, ApplyExecutionCallback, SetCallback, Copies
  <2>4. /\ dates \in SUBSET Dates
        /\ "started_at" \in row[r].dates \cup dates
        /\ call.status \in TerminalStatuses => "finished_at" \in dates
    BY <2>1 DEF ReportedDates, StartUnless
  <2>5. Save(r, call.status, dates) /\ call.status \in StatusChoices
    BY <1>2, <2>1 DEF ApplyExecutionCallback, Reported
  <2>. HIDE DEF dates
  <2>. QED BY <2>3, <2>4, <2>5, SaveTimes
<1>3. ASSUME NEW a \in Attempts, FetchExecutionSecrets(r, a)
      PROVE  TimesOK(r)'
  <2>1. Copies(r)
    BY <1>3 DEF FetchExecutionSecrets, GrantSecrets, DenySecrets, Copies
  <2>2.CASE row' = row
    BY <2>1, <2>2, SameRowTimes
  <2>3.CASE Save(r, row[r].status, {"secrets_fetched_at"})
    <3>1. /\ row'[r].status = row[r].status /\ row[r].dates \subseteq row'[r].dates
      BY <2>3 DEF TypeOK, Save, RunRow
    <3>. QED BY <2>1, <3>1, CopiesKept DEF TimesOK, DatesOK, Terminal
  <2>. QED BY <1>3, <2>2, <2>3 DEF FetchExecutionSecrets, GrantSecrets, DenySecrets
<1>4.CASE LoadRunToCancel(r)
  <2>1. Copies(r) /\ row' = row
    BY <1>4 DEF TypeOK, LoadRunToCancel, Copies
  <2>. QED BY <2>1, SameRowTimes
<1>5.CASE CancelRun(r)
  <2>1. Copies(r)
    BY <1>5 DEF TypeOK, CancelRun, NoCancel, Copies
  <2>. QED BY <1>5, <2>1, SaveTimes DEF CancelRun, StartUnless
<1>6.CASE CleanupQueued(r) \/ CleanupRunning(r)
  <2>1. Copies(r)
    BY <1>6 DEF CleanupQueued, CleanupRunning, Copies
  <2>. QED BY <1>6, <2>1, SaveTimes DEF CleanupQueued, CleanupRunning
<1>. QED BY <1>1, <1>2, <1>3, <1>4, <1>5, <1>6 DEF ServerStep

\* A step that is about another run, or about none.
LEMMA OtherTimes ==
  ASSUME NEW q \in Runs, SameRun(q), TimesOK(q)
  PROVE  TimesOK(q)'
BY DEF SameRun, TimesOK, CopiesOK, DatesOK, Terminal

\* A running row has its started_at and a finished row its finished_at, whatever stale
\* copies the handlers of callbacks, cancellations and dispatch errors save over each
\* other: for every number of runs, attempts and concurrent callbacks.
THEOREM TimestampsAreKept == Spec => []RowTimestamps
<1>. DEFINE TimesInv == \A r \in Runs : TimesOK(r)
<1>1. Init => TimesInv
  BY DEF Init, NoRequest, NoCancel, NoRow, Unsent, TimesOK, CopiesOK, DatesOK,
         Terminal, TerminalStatuses
<1>2. ExecInv /\ TimesInv /\ [Next]_vars => TimesInv'
  <2>. SUFFICES ASSUME ExecInv, TimesInv, [Next]_vars, NEW q \in Runs
                PROVE  TimesOK(q)'
    OBVIOUS
  <2>1.CASE Environment \/ UNCHANGED vars
    BY <2>1, OtherTimes DEF Environment, PublishVersion, Midnight, SameRun
  <2>2. ASSUME NEW r \in Runs, RequestStep(r) \/ JobStep(r) \/ ServerStep(r)
        PROVE  TimesOK(q)'
    <3>1. TypeOK /\ RunOK(r)
      BY DEF ExecInv, RunOK
    <3>2.CASE q = r
      BY <2>2, <3>1, <3>2, RequestTimes, JobTimes, ServerTimes
    <3>3.CASE q # r
      <4>1. SameRun(q)
        BY <2>2, <3>1, <3>3, RequestStepKept, JobStepKept, ServerStepKept DEF Kept, Only
      <4>. QED BY <4>1, OtherTimes
    <3>. QED BY <3>2, <3>3
  <2>. QED BY <2>1, <2>2 DEF Next
<1>3. TimesInv => RowTimestamps
  BY DEF TimesOK, DatesOK, RowTimestamps
<1>. QED BY <1>1, <1>2, <1>3, ExecInvariant, PTL DEF Spec

----------------------------------------------------------------------------
(* Dispatches that failed *)

SlotOK(r) == request[r].pc = "failed" /\ job[r].pc = "absent" => Terminal(r)

\* A request fails only with a finished row.
LEMMA RequestSlot ==
  ASSUME TypeOK, NEW r \in Runs, SlotOK(r), RequestStep(r)
  PROVE  SlotOK(r)'
<1>. USE DEF SlotOK, Terminal
<1>1.CASE /\ \E from, to \in RequestPC \ {"failed"} : Goto(r, from, to)
  BY <1>1 DEF TypeOK, Goto, Request
<1>2.CASE \E approval \in Approval : ExecuteSkill(r, approval)
  <2>1. PICK approval \in Approval, next \in RequestPC \ {"failed"} :
           ReadSkill(r, approval, next)
    BY <1>2 DEF ExecuteSkill, RequestPC
  <2>. QED BY <2>1 DEF TypeOK, ReadSkill, Request
<1>3.CASE ChargeQuota(r)
  BY <1>3 DEF TypeOK, ChargeQuota, Request
<1>4.CASE RefreshAfterDispatchError(r)
  BY <1>4 DEF TypeOK, RefreshAfterDispatchError, Goto, Request
<1>5.CASE MarkRunFailed(r)
  <2>1. row'[r].status = "failed"
    BY <1>5 DEF TypeOK, MarkRunFailed, Save, RunRow
  <2>. QED BY <2>1 DEF TerminalStatuses
<1>. QED
  BY <1>1, <1>2, <1>3, <1>4, <1>5
  DEF RequestStep, EnforceSkillConcurrency, EnforceSkillQuota, CreateRun, InsertRow,
      DispatchInline, DispatchRecordOnly, PrepareFails, PostJob, RecordAccepted,
      RecordRejected, RequestDies, RequestPC

\* Nobody else leaves a row active of which no job exists.
LEMMA OtherSlot ==
  ASSUME TypeOK, NEW r \in Runs, RunOK(r), SlotOK(r), JobStep(r) \/ ServerStep(r)
  PROVE  SlotOK(r)'
<1>1. request' = request
  BY DEF JobStep, TokensExpire, JobStarts, JobRequestsSecrets, JobStartsScript,
         JobReports, JobAcknowledged, JobRaises, JobExits, JobRetries, NextAttempt,
         ServerStep, ReceiveCallback, ApplyExecutionCallback, FetchExecutionSecrets,
         GrantSecrets, DenySecrets, LoadRunToCancel, CancelRun, CleanupQueued,
         CleanupRunning
<1>2. job'[r].pc = "absent" => job[r].pc = "absent"
  <2>. job \in [Runs -> Job]
    BY DEF TypeOK
  <2>1.CASE ServerStep(r)
    BY <2>1
    DEF ServerStep, ReceiveCallback, ApplyExecutionCallback, FetchExecutionSecrets,
        GrantSecrets, DenySecrets, LoadRunToCancel, CancelRun, CleanupQueued,
        CleanupRunning
  <2>2.CASE \E from, to : JobGoto(r, from, to) /\ to # "absent"
    BY <2>2 DEF Job, JobGoto
  <2>3.CASE JobRetries(r)
    BY <2>3 DEF Job, JobRetries, NextAttempt
  <2>. QED
    BY <2>1, <2>2, <2>3
    DEF JobStep, TokensExpire, JobStarts, JobRequestsSecrets, JobStartsScript,
        JobReports, JobAcknowledged, JobRaises, JobExits
<1>3. job[r].pc = "absent" => row'[r].status = row[r].status \/ Terminal(r)'
  <2>1.CASE JobStep(r)
    BY <2>1 DEF JobStep, TokensExpire, JobStarts, JobRequestsSecrets, JobStartsScript,
         JobReports, JobAcknowledged, JobRaises, JobExits, JobRetries, NextAttempt
  <2>2. ASSUME NEW a \in Attempts, NEW kind \in CallbackKinds, job[r].pc = "absent"
        PROVE  ~ApplyExecutionCallback(r, a, kind)
    BY <2>2 DEF RunOK, JobOK, ApplyExecutionCallback
  <2>3.CASE \/ LoadRunToCancel(r)
            \/ \E a \in Attempts, kind \in CallbackKinds : ReceiveCallback(r, a, kind)
    BY <2>3 DEF LoadRunToCancel, ReceiveCallback
  <2>4.CASE \E a \in Attempts : FetchExecutionSecrets(r, a)
    BY <2>4 DEF TypeOK, FetchExecutionSecrets, GrantSecrets, DenySecrets, Save, RunRow
  <2>5.CASE CancelRun(r) \/ CleanupQueued(r) \/ CleanupRunning(r)
    BY <2>5 DEF TypeOK, CancelRun, CleanupQueued, CleanupRunning, Save, RunRow, Terminal,
                TerminalStatuses
  <2>. QED BY <2>1, <2>2, <2>3, <2>4, <2>5 DEF ServerStep
<1>. QED BY <1>1, <1>2, <1>3 DEF SlotOK, Terminal

\* A client that was told its dispatch failed left no active row behind, unless a job
\* exists that can still report: whatever is cancelled, cleaned up or refreshed between.
THEOREM FailureReleasesSlot == Spec => []DispatchFailureReleasesSlot
<1>. DEFINE SlotInv == \A r \in Runs : SlotOK(r)
<1>1. Init => SlotInv
  BY DEF Init, NoRequest, SlotOK
<1>2. ExecInv /\ SlotInv /\ [Next]_vars => SlotInv'
  <2>. SUFFICES ASSUME ExecInv, SlotInv, [Next]_vars, NEW q \in Runs
                PROVE  SlotOK(q)'
    OBVIOUS
  <2>1.CASE Environment \/ UNCHANGED vars
    BY <2>1 DEF Environment, PublishVersion, Midnight, SlotOK, Terminal
  <2>2. ASSUME NEW r \in Runs, RequestStep(r) \/ JobStep(r) \/ ServerStep(r)
        PROVE  SlotOK(q)'
    <3>1. TypeOK /\ RunOK(r)
      BY DEF ExecInv, RunOK
    <3>2.CASE q = r
      BY <2>2, <3>1, <3>2, RequestSlot, OtherSlot
    <3>3.CASE q # r
      <4>1. SameRun(q)
        BY <2>2, <3>1, <3>3, RequestStepKept, JobStepKept, ServerStepKept DEF Kept, Only
      <4>. QED BY <4>1 DEF SameRun, SlotOK, Terminal
    <3>. QED BY <3>2, <3>3
  <2>. QED BY <2>1, <2>2 DEF Next
<1>3. SlotInv => DispatchFailureReleasesSlot
  BY DEF SlotOK, DispatchFailureReleasesSlot
<1>. QED BY <1>1, <1>2, <1>3, ExecInvariant, PTL DEF Spec

=============================================================================
