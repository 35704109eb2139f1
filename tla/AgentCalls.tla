------------------------------ MODULE AgentCalls ------------------------------
(***************************************************************************)
(* What a call of an agent meets, put together: the token check of the MCP *)
(* server (McpAuth), which this module extends, and the execution of       *)
(* skills.  They share no state: each behaviour is one of one of them,     *)
(* named by part, while the other stays in an initial state.               *)
(***************************************************************************)
EXTENDS McpAuth

CONSTANTS Runs, Versions, NeedsApproval, NoVersion,           \* of SkillExecution
          MaxConcurrentRuns, MaxRunsPerDay, LastDay, MaxAttempts, Backends

VARIABLES part, backend, current, today, quota, row, request, token, job, callback,
          fetch, scripts, cancel

Execution == INSTANCE SkillExecution

execution == <<backend, current, today, quota, row, request, token, job, callback, fetch,
               scripts, cancel>>

\* The assumptions of SkillExecution.
ASSUME ExecutionAssumption ==
    /\ NeedsApproval \subseteq Versions
    /\ NoVersion \notin Versions
    /\ MaxConcurrentRuns \in Nat
    /\ MaxRunsPerDay \in Nat
    /\ LastDay \in Nat \ {0}
    /\ MaxAttempts \in Nat \ {0}
    /\ Backends \subseteq {"cloud_run_jobs", "inline_echo", "record_only"}
    /\ IsFiniteSet(Runs)

CallsInit == Init /\ Execution!Init /\ part \in {"execution", "auth"}

CallsNext ==
    \/ part = "execution" /\ Execution!Next /\ UNCHANGED <<part, vars>>
    \/ part = "auth" /\ Next /\ UNCHANGED <<part, execution>>

CallsSpec == CallsInit /\ [][CallsNext]_<<part, vars, execution>>

----------------------------------------------------------------------------

\* The variables of the two modules have their types.
CallsTypeOK == TypeOK /\ Execution!TypeOK

\* The inductive invariant of SkillExecution.
RetriedExecInv == Execution!ExecInv

\* Secrets are released once and the entrypoint starts once, for a charged run, though
\* its task is executed again (RunContract).
ImplementsContract == Execution!ImplementsContract

=============================================================================
