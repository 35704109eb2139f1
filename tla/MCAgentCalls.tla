----------------------------- MODULE MCAgentCalls -----------------------------
(* The instance of AgentCalls for TLC. *)
EXTENDS AgentCalls

CONSTANTS access, agent, c1, c2, r1, safe

\* An access token expires while its entry is fresh; an agent's never does.
TwoTokens == {access, agent}
AgentTokens == {agent}
AccessExpiry == [t \in {access} |-> 3]
TwoCalls == {c1, c2}

\* One run whose job Cloud Run may execute twice.
OneRun == {r1}
OneVersion == {safe}
NoVersions == {}
CloudRun == {"cloud_run_jobs"}

\* At most one callback of the run is on its way or being handled.
OneCallbackInFlight ==
    Cardinality({s \in Execution!Attempts \X Execution!CallbackKinds :
        callback[r1][s[1]][s[2]].pc \in {"sent", "read"}}) <= 1

=============================================================================
