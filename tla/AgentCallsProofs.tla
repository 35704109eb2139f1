--------------------------- MODULE AgentCallsProofs ----------------------------
(***************************************************************************)
(* Proofs about McpAuth, for any number of tokens and calls, any TTL, any  *)
(* capacity and any length of time; and about AgentCalls, where those of   *)
(* SkillExecutionProofs are put to use.                                    *)
(***************************************************************************)
EXTENDS AgentCalls, FiniteSetTheorems, TLAPS

\* Access tokens expire at some time, and entries live for one tick at least.
ConstantsOK ==
    /\ Expiry \in [Tokens \ Agents -> Nat]
    /\ TTL \in Nat \ {0}
    /\ MaxTime \in Nat

----------------------------------------------------------------------------
(* The inductive invariant *)

\* Token t was good at some time from n on: it has not expired at n, and if it is
\* revoked, that was not before n.
GoodSince(t, n) ==
    /\ n <= clock
    /\ t \in valid \/ n <= revoked[t]
    /\ ~Outlived(t, n)

\* What the cache calls active was good since the time of its entry.
CacheOK == \A t \in Tokens : cached[t] # None /\ cached[t].active => GoodSince(t, cached[t].ts)

\* So was what the endpoint called active, since the call was made.
AnswersOK == \A c \in Calls :
    /\ call[c].now <= clock
    /\ call[c].pc # "idle" => call[c].token \in Tokens
    /\ call[c].pc = "active" => GoodSince(call[c].token, call[c].now)

AuthInv == TypeOK /\ CacheOK /\ AnswersOK /\ RevokedIsRefused

----------------------------------------------------------------------------

LEMMA InitInv ==
  ASSUME ConstantsOK, Init
  PROVE  AuthInv
BY SMT DEF ConstantsOK, Init, AuthInv, TypeOK, CacheOK, AnswersOK, RevokedIsRefused,
       Times, Call, Entry, NoCall

LEMMA TickKeeps ==
  ASSUME ConstantsOK, AuthInv, Tick
  PROVE  AuthInv'
BY SMT DEF ConstantsOK, AuthInv, TypeOK, CacheOK, AnswersOK, RevokedIsRefused, GoodSince,
       Outlived, Tick, Times, Call, Entry

LEMMA RevokeKeeps ==
  ASSUME ConstantsOK, AuthInv, NEW t \in Tokens, Revoke(t) \/ Reactivate(t)
  PROVE  AuthInv'
BY SMT DEF ConstantsOK, AuthInv, TypeOK, CacheOK, AnswersOK, RevokedIsRefused, GoodSince,
       Outlived, Revoke, Reactivate, Times, Call, Entry

LEMMA IntrospectKeeps ==
  ASSUME ConstantsOK, AuthInv, NEW c \in Calls, Introspect(c)
  PROVE  AuthInv'
BY SMT DEF ConstantsOK, AuthInv, TypeOK, CacheOK, AnswersOK, RevokedIsRefused, GoodSince,
       Outlived, Introspect, Times, Call, Entry

LEMMA RestartKeeps ==
  ASSUME ConstantsOK, AuthInv, Restart
  PROVE  AuthInv'
BY SMT DEF ConstantsOK, AuthInv, TypeOK, CacheOK, AnswersOK, RevokedIsRefused, GoodSince,
       Outlived, Restart, Times, Call, Entry, NoCall

LEMMA FailKeeps ==
  ASSUME ConstantsOK, AuthInv, NEW c \in Calls, PostFails(c)
  PROVE  AuthInv'
BY SMT DEF ConstantsOK, AuthInv, TypeOK, CacheOK, AnswersOK, RevokedIsRefused, GoodSince,
       Outlived, PostFails, Times, Call, Entry

LEMMA AskKeeps ==
  ASSUME ConstantsOK, AuthInv, NEW c \in Calls, NEW t \in Tokens, AskBackend(c, t)
  PROVE  AuthInv'
BY SMT DEF ConstantsOK, AuthInv, TypeOK, CacheOK, AnswersOK, RevokedIsRefused, GoodSince,
       Outlived, AskBackend, Calling, Times, Call, Entry

\* A fresh entry is younger than TTL, so that its token was good less than TTL ago.
LEMMA AnswerKeeps ==
  ASSUME ConstantsOK, AuthInv, NEW c \in Calls, NEW t \in Tokens, AnswerFromCache(c, t)
  PROVE  AuthInv'
BY SMT DEF ConstantsOK, AuthInv, TypeOK, CacheOK, AnswersOK, RevokedIsRefused, GoodSince,
       Outlived, AnswerFromCache, Fresh, Calling, Times, Call, Entry

\* Sweeping only removes entries.
LEMMA SweepingRemoves ==
  ASSUME NEW cache, NEW now, NEW kept \in Swept(cache, now),
         cache \in [Tokens -> Entry \cup {None}]
  PROVE  /\ kept \in [Tokens -> Entry \cup {None}]
         /\ \A t \in Tokens : kept[t] \in {None, cache[t]}
<1>1. CASE Cardinality(Entries(cache)) <= Capacity
  BY <1>1, Zenon DEF Swept
<1>2. CASE ~(Cardinality(Entries(cache)) <= Capacity)
  <2>1. PICK out : kept = [t \in Tokens |-> IF t \in out THEN None ELSE cache[t]]
    BY <1>2, Zenon DEF Swept
  <2> QED BY <2>1
<1> QED BY <1>1, <1>2

\* An answer is stored with the time of its call.
LEMMA StoreKeeps ==
  ASSUME ConstantsOK, AuthInv, NEW c \in Calls, Store(c)
  PROVE  AuthInv'
<1> DEFINE bearer == call[c].token
           entry == [active |-> call[c].pc = "active", ts |-> call[c].now]
           stored == [cached EXCEPT ![bearer] = entry]
<1>1. /\ entry \in Entry
      /\ bearer \in Tokens
  BY SMT DEF AuthInv, TypeOK, AnswersOK, Store, Call, Entry
<1>2. stored \in [Tokens -> Entry \cup {None}]
  BY <1>1 DEF AuthInv, TypeOK
<1>3. cached' \in Swept(stored, call[c].now)
  BY DEF Store
<1> HIDE DEF stored
<1>4. /\ cached' \in [Tokens -> Entry \cup {None}]
      /\ \A t \in Tokens : cached'[t] \in {None, stored[t]}
  BY <1>2, <1>3, SweepingRemoves
<1>5. TypeOK'
  BY <1>4, SMT DEF AuthInv, TypeOK, Store, Call
<1>6. ASSUME NEW t \in Tokens, cached'[t] # None, cached'[t].active
      PROVE  \E n : cached'[t].ts = n /\ GoodSince(t, n)
  <2>1. cached'[t] = stored[t]
    BY <1>4, <1>6
  <2>2. CASE t = bearer
    <3>1. cached'[t] = entry
      BY <2>1, <2>2, <1>1 DEF stored, AuthInv, TypeOK
    <3>2. cached'[t].ts = call[c].now /\ call[c].pc = "active"
      <4>1. entry.ts = call[c].now /\ entry.active = (call[c].pc = "active")
        OBVIOUS
      <4>2. cached'[t].ts = entry.ts /\ entry.active
        BY <3>1, <1>6
      <4> QED BY <4>1, <4>2
    <3>3. GoodSince(t, call[c].now)
      BY <3>2, <2>2, Zenon DEF AuthInv, AnswersOK
    <3> QED BY <3>2, <3>3
  <2>3. CASE t # bearer
    <3>1. cached'[t] = cached[t]
      BY <2>1, <2>3, <1>1 DEF stored, AuthInv, TypeOK
    <3>2. GoodSince(t, cached[t].ts)
      BY <1>6, <3>1 DEF AuthInv, CacheOK
    <3> QED BY <3>1, <3>2
  <2> QED BY <2>2, <2>3
<1>7. CacheOK'
  BY <1>6, SMT DEF CacheOK, GoodSince, Store, Outlived
<1>8. AnswersOK'
  BY SMT DEF AuthInv, TypeOK, AnswersOK, GoodSince, Outlived, Store, Times, Call
<1>9. ASSUME NEW d \in Calls, call'[d].pc = "accepted"
      PROVE  /\ call[d].token \in valid \/ call[d].now < revoked[call[d].token] + TTL
             /\ ~Outlived(call[d].token, call[d].now)
  <2>1. CASE d = c
    <3>1. call[d].pc = "active"
      BY <1>9, <2>1 DEF Store, AuthInv, TypeOK
    <3>2. GoodSince(call[d].token, call[d].now) /\ call[d].token \in Tokens
      BY <3>1 DEF AuthInv, AnswersOK
    <3>3. call[d].now \in Nat /\ revoked[call[d].token] \in Nat /\ TTL \in Nat \ {0}
      BY <3>2, SMT DEF ConstantsOK, AuthInv, TypeOK, Times, Call
    <3> QED BY <3>2, <3>3 DEF GoodSince
  <2>2. CASE d # c
    BY <1>9, <2>2 DEF Store, AuthInv, TypeOK, RevokedIsRefused
  <2> QED BY <2>1, <2>2
<1>10. \A d \in Calls : call'[d].token = call[d].token /\ call'[d].now = call[d].now
  BY SMT DEF Store, AuthInv, TypeOK, Call
<1>11. RevokedIsRefused'
  BY <1>9, <1>10 DEF RevokedIsRefused, Store, Outlived
<1> QED BY <1>5, <1>7, <1>8, <1>11 DEF AuthInv

LEMMA NextKeeps ==
  ASSUME ConstantsOK, AuthInv, [Next]_vars
  PROVE  AuthInv'
<1>1. CASE Tick
  BY <1>1, TickKeeps
<1>2. CASE Restart
  BY <1>2, RestartKeeps
<1>3. CASE \E t \in Tokens : Revoke(t) \/ Reactivate(t)
  BY <1>3, RevokeKeeps
<1>4. CASE \E c \in Calls : Introspect(c) \/ Store(c) \/ PostFails(c)
  BY <1>4, IntrospectKeeps, StoreKeeps, FailKeeps
<1>5. CASE \E c \in Calls, t \in Tokens : AnswerFromCache(c, t) \/ AskBackend(c, t)
  BY <1>5, AnswerKeeps, AskKeeps
<1>6. CASE UNCHANGED vars
  BY <1>6 DEF vars, AuthInv, TypeOK, CacheOK, AnswersOK, RevokedIsRefused, GoodSince,
     Outlived
<1> QED BY <1>1, <1>2, <1>3, <1>4, <1>5, <1>6 DEF Next

\* Type correctness, and how the ages of entries, answers and revocations are related
\* in every reachable state of the token check (auth.py, introspect_token).
THEOREM AuthInvariant == ConstantsOK => (Spec => []AuthInv)
<1> SUFFICES ASSUME ConstantsOK PROVE Spec => []AuthInv
  OBVIOUS
<1>1. Init => AuthInv
  BY InitInv
<1>2. AuthInv /\ [Next]_vars => AuthInv'
  BY NextKeeps
<1> QED BY <1>1, <1>2, PTL DEF Spec

\* A revocation reaches the MCP server within the lifetime of a cache entry, whatever
\* answers are late, overtaken or evicted (auth.py:25).
THEOREM RevocationsPropagate == ConstantsOK => (Spec => []RevokedIsRefused)
<1> SUFFICES ASSUME ConstantsOK PROVE Spec => []RevokedIsRefused
  OBVIOUS
<1>1. Spec => []AuthInv
  BY AuthInvariant
<1>2. AuthInv => RevokedIsRefused
  BY DEF AuthInv
<1> QED BY <1>1, <1>2, PTL

----------------------------------------------------------------------------
(* The size of the cache *)

\* At least one entry is among the oldest quarter.
LEMMA QuarterPositive == \A n \in Nat : Quarter(n) # 0
BY SMT DEF Quarter

\* A cache above its bound loses an entry, by age or because it is stale.
LEMMA SweepingShrinks ==
  ASSUME NEW cache, NEW now, NEW kept \in Swept(cache, now),
         IsFiniteSet(Entries(cache)), ~(Cardinality(Entries(cache)) <= Capacity)
  PROVE  \E t \in Entries(cache) : Entries(kept) \subseteq Entries(cache) \ {t}
<1>1. PICK out \in IF Stale(cache, now) # {} THEN {Stale(cache, now)} ELSE Oldest(cache) :
         kept = [t \in Tokens |-> IF t \in out THEN None ELSE cache[t]]
  BY Zenon DEF Swept
<1>2. \E t \in Entries(cache) : t \in out
  <2>1. CASE Stale(cache, now) # {}
    BY <1>1, <2>1 DEF Stale
  <2>2. CASE Stale(cache, now) = {}
    <3>1. out \subseteq Entries(cache) /\ Cardinality(out) = Quarter(Cardinality(Entries(cache)))
      BY <1>1, <2>2 DEF Oldest
    <3>2. Cardinality(out) # 0
      BY <3>1, FS_CardinalityType, QuarterPositive
    <3>. QED BY <3>1, <3>2, FS_EmptySet
  <2>. QED BY <2>1, <2>2
<1>. QED BY <1>1, <1>2 DEF Entries

BoundInv == IsFiniteSet(Entries(cached)) /\ CacheBounded

\* An answer adds one entry at most, and a cache that is full loses one for it.
LEMMA StoreBounds ==
  ASSUME Capacity \in Nat, AuthInv, BoundInv, NEW c \in Calls, Store(c)
  PROVE  BoundInv'
<1>. DEFINE bearer == call[c].token
            entry == [active |-> call[c].pc = "active", ts |-> call[c].now]
            stored == [cached EXCEPT ![bearer] = entry]
<1>1. cached' \in Swept(stored, call[c].now) /\ bearer \in Tokens
  BY DEF AuthInv, AnswersOK, Store
<1>2. cached \in [Tokens -> Entry \cup {None}]
  BY DEF AuthInv, TypeOK
<1>3. Entries(stored) \subseteq Entries(cached) \cup {bearer}
  BY <1>2 DEF Entries
<1>. HIDE DEF stored, bearer
<1>4. /\ IsFiniteSet(Entries(stored))
      /\ Cardinality(Entries(stored)) \in Nat
      /\ Cardinality(Entries(stored)) <= Capacity + 1
  <2>1. /\ IsFiniteSet(Entries(cached) \cup {bearer})
        /\ Cardinality(Entries(cached) \cup {bearer}) <= Cardinality(Entries(cached)) + 1
        /\ Cardinality(Entries(cached) \cup {bearer}) \in Nat
        /\ Cardinality(Entries(cached)) \in Nat
    <3>1. Cardinality(Entries(cached)) \in Nat
      BY FS_CardinalityType DEF BoundInv
    <3>2. /\ IsFiniteSet(Entries(cached) \cup {bearer})
          /\ Cardinality(Entries(cached) \cup {bearer})
               = IF bearer \in Entries(cached) THEN Cardinality(Entries(cached))
                                               ELSE Cardinality(Entries(cached)) + 1
      BY FS_AddElement DEF BoundInv
    <3>. QED BY <3>1, <3>2
  <2>2. /\ IsFiniteSet(Entries(stored))
        /\ Cardinality(Entries(stored)) <= Cardinality(Entries(cached) \cup {bearer})
    BY <1>3, <2>1, FS_Subset
  <2>3. Cardinality(Entries(stored)) \in Nat
    BY <2>2, FS_CardinalityType
  <2>. QED BY <2>1, <2>2, <2>3 DEF BoundInv, CacheBounded
<1>5. CASE Cardinality(Entries(stored)) <= Capacity
  <2>1. cached' = stored
    BY <1>1, <1>5, Zenon DEF Swept
  <2>2. Entries(cached)' = Entries(stored)
    BY <2>1 DEF Entries
  <2>. QED BY <1>4, <1>5, <2>2 DEF BoundInv, CacheBounded
<1>6. CASE ~(Cardinality(Entries(stored)) <= Capacity)
  <2>1. PICK t \in Entries(stored) : Entries(cached)' \subseteq Entries(stored) \ {t}
    <3>1. PICK kept \in Swept(stored, call[c].now) : cached' = kept
      BY <1>1
    <3>2. \E t \in Entries(stored) : Entries(kept) \subseteq Entries(stored) \ {t}
      BY <1>4, <1>6, SweepingShrinks
    <3>3. Entries(cached)' = Entries(kept)
      BY <3>1 DEF Entries
    <3>. QED BY <3>2, <3>3
  <2>2. /\ IsFiniteSet(Entries(stored) \ {t})
        /\ Cardinality(Entries(stored) \ {t}) = Cardinality(Entries(stored)) - 1
    BY <1>4, <2>1, FS_RemoveElement
  <2>3. /\ IsFiniteSet(Entries(cached)')
        /\ Cardinality(Entries(cached)') <= Cardinality(Entries(stored)) - 1
    BY <2>1, <2>2, FS_Subset
  <2>4. Cardinality(Entries(cached)') \in Nat
    BY <2>3, FS_CardinalityType
  <2>. QED BY <1>4, <2>3, <2>4 DEF BoundInv, CacheBounded
<1>. QED BY <1>5, <1>6

\* The cache of tokens never outgrows its bound, however many calls store their answers
\* at once and though no entry is stale (the sweep at the end of introspect_token, auth.py).
THEOREM CacheIsBounded == ConstantsOK /\ Capacity \in Nat => (Spec => []CacheBounded)
<1>. SUFFICES ASSUME ConstantsOK, Capacity \in Nat PROVE Spec => []CacheBounded
  OBVIOUS
<1>1. ASSUME Entries(cached) = {} PROVE BoundInv
  BY <1>1, FS_EmptySet DEF BoundInv, CacheBounded
<1>2. Init => BoundInv
  BY <1>1 DEF Init, Entries
<1>3. AuthInv /\ BoundInv /\ [Next]_vars => BoundInv'
  <2>. SUFFICES ASSUME AuthInv, BoundInv, [Next]_vars PROVE BoundInv'
    OBVIOUS
  <2>1. CASE \E c \in Calls : Store(c)
    BY <2>1, StoreBounds
  <2>2. CASE Restart
    <3>1. Entries(cached)' = {}
      BY <2>2 DEF Restart, Entries
    <3>. QED BY <3>1, FS_EmptySet DEF BoundInv, CacheBounded
  <2>3. CASE cached' = cached
    BY <2>3 DEF BoundInv, CacheBounded, Entries
  <2>. QED
    BY <2>1, <2>2, <2>3
    DEF Next, Tick, Revoke, Reactivate, Introspect, PostFails, AnswerFromCache,
        AskBackend, Calling, vars
<1>4. BoundInv => CacheBounded
  BY DEF BoundInv
<1>. QED BY <1>2, <1>3, <1>4, AuthInvariant, PTL DEF Spec

----------------------------------------------------------------------------
(* The two parts of a call together *)

ExecutionTheory == INSTANCE SkillExecutionProofs

LEMMA TheoryAssumptions ==
    ExecutionTheory!ConstantsAssumption /\ ExecutionTheory!RunsFinite
BY ExecutionAssumption
   DEF ExecutionTheory!ConstantsAssumption, ExecutionTheory!RunsFinite,
       ExecutionTheory!IsFiniteSet, IsFiniteSet

\* The theory is about the execution of AgentCalls: it has the same definitions.
LEMMA SameExecution ==
    /\ Execution!Init <=> ExecutionTheory!Init
    /\ Execution!Next <=> ExecutionTheory!Next
    /\ (UNCHANGED Execution!vars) <=> UNCHANGED ExecutionTheory!vars
    /\ Execution!ExecInv <=> ExecutionTheory!ExecInv
<1>. USE DEF Execution!Cardinality, ExecutionTheory!Cardinality, Execution!skillVars,
             ExecutionTheory!skillVars, Execution!requestVars,
             ExecutionTheory!requestVars, Execution!jobVars,
             ExecutionTheory!jobVars, Execution!serverVars,
             ExecutionTheory!serverVars, Execution!vars, ExecutionTheory!vars,
             Execution!Days, ExecutionTheory!Days, Execution!Attempts,
             ExecutionTheory!Attempts, Execution!ActiveStatuses,
             ExecutionTheory!ActiveStatuses, Execution!TerminalStatuses,
             ExecutionTheory!TerminalStatuses, Execution!Cancellable,
             ExecutionTheory!Cancellable, Execution!StatusChoices,
             ExecutionTheory!StatusChoices, Execution!Dates,
             ExecutionTheory!Dates, Execution!RunRow, ExecutionTheory!RunRow,
             Execution!NoRow, ExecutionTheory!NoRow, Execution!Seen,
             ExecutionTheory!Seen, Execution!RequestPC,
             ExecutionTheory!RequestPC, Execution!Approval,
             ExecutionTheory!Approval, Execution!Request,
             ExecutionTheory!Request, Execution!NoRequest,
             ExecutionTheory!NoRequest, Execution!JobPC, ExecutionTheory!JobPC,
             Execution!Job, ExecutionTheory!Job, Execution!NoJob,
             ExecutionTheory!NoJob, Execution!CallbackKinds,
             ExecutionTheory!CallbackKinds, Execution!Reported,
             ExecutionTheory!Reported, Execution!Callback,
             ExecutionTheory!Callback, Execution!Unsent,
             ExecutionTheory!Unsent, Execution!FetchPC,
             ExecutionTheory!FetchPC, Execution!Cancel, ExecutionTheory!Cancel,
             Execution!NoCancel, ExecutionTheory!NoCancel, Execution!SeenStart,
             ExecutionTheory!SeenStart, Execution!ActiveRuns,
             ExecutionTheory!ActiveRuns, Execution!Terminal,
             ExecutionTheory!Terminal, Execution!Save, ExecutionTheory!Save,
             Execution!StartUnless, ExecutionTheory!StartUnless,
             Execution!Init, ExecutionTheory!Init, Execution!PublishVersion,
             ExecutionTheory!PublishVersion, Execution!Midnight,
             ExecutionTheory!Midnight, Execution!TokensExpire,
             ExecutionTheory!TokensExpire, Execution!Goto,
             ExecutionTheory!Goto, Execution!NeedsAsking,
             ExecutionTheory!NeedsAsking, Execution!AwaitsApproval,
             ExecutionTheory!AwaitsApproval, Execution!ReadSkill,
             ExecutionTheory!ReadSkill, Execution!ExecuteSkill,
             ExecutionTheory!ExecuteSkill, Execution!EnforceSkillConcurrency,
             ExecutionTheory!EnforceSkillConcurrency, Execution!ChargeQuota,
             ExecutionTheory!ChargeQuota, Execution!EnforceSkillQuota,
             ExecutionTheory!EnforceSkillQuota, Execution!InsertRow,
             ExecutionTheory!InsertRow, Execution!CreateRun,
             ExecutionTheory!CreateRun, Execution!DispatchInline,
             ExecutionTheory!DispatchInline, Execution!DispatchRecordOnly,
             ExecutionTheory!DispatchRecordOnly, Execution!PrepareFails,
             ExecutionTheory!PrepareFails, Execution!PostJob,
             ExecutionTheory!PostJob, Execution!RecordAccepted,
             ExecutionTheory!RecordAccepted, Execution!RecordRejected,
             ExecutionTheory!RecordRejected,
             Execution!RefreshAfterDispatchError,
             ExecutionTheory!RefreshAfterDispatchError,
             Execution!MarkRunFailed, ExecutionTheory!MarkRunFailed,
             Execution!RequestDies, ExecutionTheory!RequestDies,
             Execution!JobGoto, ExecutionTheory!JobGoto, Execution!SetCallback,
             ExecutionTheory!SetCallback, Execution!Send, ExecutionTheory!Send,
             Execution!JobStarts, ExecutionTheory!JobStarts,
             Execution!JobRequestsSecrets, ExecutionTheory!JobRequestsSecrets,
             Execution!JobStartsScript, ExecutionTheory!JobStartsScript,
             Execution!JobReports, ExecutionTheory!JobReports,
             Execution!JobAcknowledged, ExecutionTheory!JobAcknowledged,
             Execution!JobRaises, ExecutionTheory!JobRaises,
             Execution!JobExits, ExecutionTheory!JobExits,
             Execution!NextAttempt, ExecutionTheory!NextAttempt,
             Execution!JobRetries, ExecutionTheory!JobRetries,
             Execution!Answered, ExecutionTheory!Answered,
             Execution!ReceiveCallback, ExecutionTheory!ReceiveCallback,
             Execution!ReportedDates, ExecutionTheory!ReportedDates,
             Execution!ApplyExecutionCallback,
             ExecutionTheory!ApplyExecutionCallback, Execution!GrantSecrets,
             ExecutionTheory!GrantSecrets, Execution!DenySecrets,
             ExecutionTheory!DenySecrets, Execution!FetchExecutionSecrets,
             ExecutionTheory!FetchExecutionSecrets, Execution!LoadRunToCancel,
             ExecutionTheory!LoadRunToCancel, Execution!CancelRun,
             ExecutionTheory!CancelRun, Execution!CleanupQueued,
             ExecutionTheory!CleanupQueued, Execution!CleanupRunning,
             ExecutionTheory!CleanupRunning, Execution!Environment,
             ExecutionTheory!Environment, Execution!RequestStep,
             ExecutionTheory!RequestStep, Execution!JobStep,
             ExecutionTheory!JobStep, Execution!ServerStep,
             ExecutionTheory!ServerStep, Execution!Next, ExecutionTheory!Next,
             Execution!TypeOK, ExecutionTheory!TypeOK, Execution!RequestOK,
             ExecutionTheory!RequestOK, Execution!Approved,
             ExecutionTheory!Approved, Execution!JobOK, ExecutionTheory!JobOK,
             Execution!BeforeFetch, ExecutionTheory!BeforeFetch,
             Execution!ReleaseOK, ExecutionTheory!ReleaseOK, Execution!ExecInv,
             ExecutionTheory!ExecInv
<1>1. Execution!Init <=> ExecutionTheory!Init
  OBVIOUS
<1>2. Execution!Next <=> ExecutionTheory!Next
  OBVIOUS
<1>3. (UNCHANGED Execution!vars) <=> UNCHANGED ExecutionTheory!vars
  OBVIOUS
<1>4. Execution!ExecInv <=> ExecutionTheory!ExecInv
  OBVIOUS
<1>. QED BY ONLY <1>1, <1>2, <1>3, <1>4

LEMMA SameContract ==
    /\ Execution!Contract!Init <=> ExecutionTheory!Contract!Init
    /\ Execution!Contract!Next <=> ExecutionTheory!Contract!Next
    /\ (UNCHANGED Execution!Contract!contractVars)
           <=> UNCHANGED ExecutionTheory!Contract!contractVars
<1>. USE DEF Execution!Attempts, ExecutionTheory!Attempts, Execution!Days,
             ExecutionTheory!Days, Execution!Contract!Init,
             ExecutionTheory!Contract!Init, Execution!Contract!Charge,
             ExecutionTheory!Contract!Charge, Execution!Contract!Release,
             ExecutionTheory!Contract!Release, Execution!Contract!Start,
             ExecutionTheory!Contract!Start, Execution!Contract!Next,
             ExecutionTheory!Contract!Next, Execution!Contract!contractVars,
             ExecutionTheory!Contract!contractVars,
             Execution!Contract!Cardinality,
             ExecutionTheory!Contract!Cardinality
<1>1. Execution!Contract!Init <=> ExecutionTheory!Contract!Init
  OBVIOUS
<1>2. Execution!Contract!Next <=> ExecutionTheory!Contract!Next
  OBVIOUS
<1>3. (UNCHANGED Execution!Contract!contractVars)
           <=> UNCHANGED ExecutionTheory!Contract!contractVars
  OBVIOUS
<1>. QED BY ONLY <1>1, <1>2, <1>3

\* Whichever part is looked at, the other stays in an initial state: a behaviour of the
\* calls is one of each part.
LEMMA CallsAreEach == CallsSpec => Spec /\ ExecutionTheory!Spec
<1>1. CallsInit => Init /\ ExecutionTheory!Init
  BY SameExecution DEF CallsInit
<1>2. [CallsNext]_<<part, vars, execution>>
        => [Next]_vars /\ [Execution!Next]_Execution!vars
  BY DEF CallsNext, execution, Execution!vars, Execution!skillVars, Execution!requestVars,
         Execution!jobVars, Execution!serverVars
<1>3. [Execution!Next]_Execution!vars => [ExecutionTheory!Next]_ExecutionTheory!vars
  BY SameExecution
<1>. QED BY <1>1, <1>2, <1>3, PTL DEF CallsSpec, Spec, ExecutionTheory!Spec

\* For any number of runs and of executions of a job: the inductive invariant of
\* SkillExecution holds of the runs that agents start.
THEOREM RetriedRunsInvariant == CallsSpec => []RetriedExecInv
<1>1. ExecutionTheory!Spec => []ExecutionTheory!ExecInv
  BY TheoryAssumptions, ExecutionTheory!ExecInvariant
<1>2. ExecutionTheory!ExecInv => RetriedExecInv
  BY SameExecution DEF RetriedExecInv
<1>. QED BY <1>1, <1>2, CallsAreEach, PTL

\* Every variable of the two parts has its type.
THEOREM CallsTypeCorrect == ConstantsOK => (CallsSpec => []CallsTypeOK)
<1>. SUFFICES ASSUME ConstantsOK PROVE CallsSpec => []CallsTypeOK
  OBVIOUS
<1>1. AuthInv /\ RetriedExecInv => CallsTypeOK
  BY DEF AuthInv, RetriedExecInv, Execution!ExecInv, CallsTypeOK
<1>. QED BY <1>1, AuthInvariant, RetriedRunsInvariant, CallsAreEach, PTL

\* A run that an agent starts is charged, its secrets are released once and its entrypoint
\* starts once, though its task is executed again (RunContract).
THEOREM RetriedRunsImplementContract == CallsSpec => ImplementsContract
<1>1. ExecutionTheory!Spec => ExecutionTheory!ImplementsContract
  BY TheoryAssumptions, ExecutionTheory!ExecutionImplementsContract
<1>2. [ExecutionTheory!Contract!Next]_ExecutionTheory!Contract!contractVars
        => [Execution!Contract!Next]_Execution!Contract!contractVars
  BY SameContract
<1>3. ExecutionTheory!ImplementsContract => ImplementsContract
  BY <1>2, SameContract, PTL
     DEF ImplementsContract, Execution!ImplementsContract, Execution!Contract!Spec,
         ExecutionTheory!ImplementsContract, ExecutionTheory!Contract!Spec
<1>. QED BY <1>1, <1>3, CallsAreEach, PTL

=============================================================================
