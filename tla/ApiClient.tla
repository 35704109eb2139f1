------------------------------- MODULE ApiClient -------------------------------
(***************************************************************************)
(* The queries and mutations of the web client (src/api/client.ts).  A     *)
(* query has a key, under which its result is cached, and the facts of the *)
(* server that the result is computed from.  A mutation has the facts that *)
(* it changes, the keys of which it invalidates every extension when it    *)
(* succeeded, and the keys whose cached result it replaces by its own,     *)
(* before it invalidates, or prefetches.  Parameters in keys (a skill, a   *)
(* team, filters) have one value each.                                     *)
(***************************************************************************)
EXTENDS Sequences

\* queryKeys
Query(key, reads) == [key |-> key, reads |-> reads]

Mutation(name, writes, invalidates) ==
    [name |-> name, writes |-> writes, invalidates |-> invalidates, sets |-> {},
     prefetches |-> {}, optimistic |-> FALSE]
SettingMutation(name, writes, invalidates, sets) ==
    [Mutation(name, writes, invalidates) EXCEPT !.sets = sets]

\* invalidateWorkspaceStructure
WorkspaceStructure ==
    {<<"teams">>, <<"departments">>, <<"skills">>, <<"onboarding", "progress">>}

----------------------------------------------------------------------------
(* Account, onboarding, members *)

useMe == Query(<<"auth", "me">>, {"me"})

\* A milestone is reached once there is a team, a department and so on.
useOnboardingProgress ==
    Query(<<"onboarding", "progress">>,
          {"preference", "firstTeam", "firstDepartment", "published", "connection", "usage"})

\* The cached progress is changed at once; it is invalidated after a failure, too.
useUpdateOnboardingPreference ==
    [Mutation("useUpdateOnboardingPreference", {"preference"},
              {<<"onboarding", "progress">>}) EXCEPT !.optimistic = TRUE]

useWorkspace == Query(<<"workspaces", "slug">>, {"workspace"})
useCreateWorkspace ==
    [SettingMutation("useCreateWorkspace", {"me", "workspace"}, {<<"auth", "me">>},
                     {<<"workspaces", "slug">>})
        EXCEPT !.prefetches = {<<"onboarding", "progress">>}]

useWorkspaceMembers == Query(<<"members">>, {"member", "team"})
useInviteMember ==
    Mutation("useInviteMember", {"invitation"}, {<<"members">>, <<"invitations">>})
useRemoveMember == Mutation("useRemoveMember", {"member"}, {<<"members">>})
usePendingInvitations == Query(<<"invitations">>, {"invitation", "team", "department"})
useCancelInvitation ==
    Mutation("useCancelInvitation", {"invitation"}, {<<"invitations">>})

----------------------------------------------------------------------------
(* Teams and departments *)

useTeams == Query(<<"teams">>, {"team", "department"})
useTeam == Query(<<"teams", "slug">>, {"team", "department"})
useCreateTeam ==
    Mutation("useCreateTeam", {"team", "firstTeam"}, {<<"teams">>, <<"onboarding", "progress">>})
\* Variant: the team is put into the cache and not fetched again.
PutUpdatedTeam ==
    SettingMutation("useUpdateTeam", {"team"}, {}, {<<"teams">>, <<"teams", "slug">>})
useUpdateTeam == Mutation("useUpdateTeam", {"team"}, {<<"teams">>, <<"teams", "slug">>})
useDeleteTeam ==
    Mutation("useDeleteTeam", {"team", "firstTeam", "department", "firstDepartment", "skill"},
             WorkspaceStructure)

\* The number of its skills comes with a department, but no screen shows it.
useDepartments(team) == Query(<<"departments", team>>, {"department", "team"})
useDepartment == Query(<<"departments", "detail", "id">>, {"department", "team"})
useCreateDepartment ==
    Mutation("useCreateDepartment", {"department", "firstDepartment"},
             {<<"departments", "all">>, <<"departments", "team">>, <<"teams">>,
              <<"teams", "slug">>, <<"onboarding", "progress">>})
\* Variant: the department is invalidated, the lists that show it are not.
UpdateDepartmentOnly ==
    Mutation("useUpdateDepartment", {"department"}, {<<"departments", "detail", "id">>})
useUpdateDepartment ==
    Mutation("useUpdateDepartment", {"department"},
             {<<"departments", "detail", "id">>, <<"departments">>, <<"teams">>})
useDeleteDepartment ==
    Mutation("useDeleteDepartment", {"department", "firstDepartment", "skill"},
             WorkspaceStructure)

----------------------------------------------------------------------------
(* Skills *)

useSkills(filters) ==
    Query(<<"skills", filters>>,
          {"skill", "draft", "published", "review", "spec", "department", "team", "setting"})
useSkill ==
    Query(<<"skills", "detail", "slug", "kind">>,
          {"skill", "published", "review", "spec", "summary", "department", "team",
           "setting"})
\* It also puts the detail of the skill that it created, which is cached nowhere before.
useCreateSkill == Mutation("useCreateSkill", {"draft"}, {<<"skills">>, <<"departments">>})
useUpdateSkill ==
    Mutation("useUpdateSkill", {"skill"},
             {<<"skills">>, <<"skills", "detail", "slug", "kind">>})
useUnshareSkillFromMyTeam ==
    SettingMutation("useUnshareSkillFromMyTeam", {"skill"}, {<<"skills">>},
                    {<<"skills", "detail", "slug", "kind">>})
\* It also takes the skill from the cached list of agents' skills, which it invalidates at
\* once.
useDeleteSkill ==
    Mutation("useDeleteSkill", {"skill", "agentSkill", "deployment"},
             WorkspaceStructure \cup {<<"agents", "skills">>, <<"agents", "analytics">>})
usePublishSkill ==
    Mutation("usePublishSkill", {"published"},
             {<<"skills">>, <<"skills", "detail", "slug", "kind">>,
              <<"skills", "versions", "slug", "kind">>, <<"onboarding", "progress">>})
useReviewSkill ==
    Mutation("useReviewSkill", {"review"},
             {<<"skills">>, <<"skills", "detail", "slug", "kind">>})

(* Versions.  The files and the content of a version never change. *)

useVersions == Query(<<"skills", "versions", "slug", "kind">>, {"version", "summary"})
useVersion == Query(<<"skills", "versions", "slug", "number", "kind">>, {"summary"})
useVersionDiff ==
    Query(<<"skills", "versions", "slug", "number", "diff", "kind">>, {"summary"})
useVersionFiles == Query(<<"skills", "files", "slug", "number", "kind">>, {})
useVersionFile == Query(<<"skills", "files", "slug", "number", "path", "kind">>, {})
useFileDiff == Query(<<"skills", "files", "slug", "number", "diff", "kind">>, {})

AfterNewVersion ==
    {<<"skills", "versions", "slug", "kind">>, <<"skills", "detail", "slug", "kind">>,
     <<"skills", "files", "slug">>}
useCreateVersion == Mutation("useCreateVersion", {"version"}, AfterNewVersion)
useRevertVersion == Mutation("useRevertVersion", {"version"}, AfterNewVersion)
useUpdateVersionSummary ==
    Mutation("useUpdateVersionSummary", {"summary"},
             {<<"skills", "versions", "slug", "kind">>,
              <<"skills", "detail", "slug", "kind">>})

----------------------------------------------------------------------------
(* Execution *)

useSkillExecutionSpec ==
    Query(<<"skills", "execution", "slug", "kind">>, {"spec", "published"})
useUpdateSkillExecutionSpec ==
    Mutation("useUpdateSkillExecutionSpec", {"spec"},
             {<<"skills", "execution", "slug", "kind">>,
              <<"skills", "detail", "slug", "kind">>, <<"skills">>})
useSkillSecrets == Query(<<"skills", "secrets", "slug", "kind">>, {"secret", "spec"})
useUpsertSkillSecret ==
    Mutation("useUpsertSkillSecret", {"secret"}, {<<"skills", "secrets", "slug", "kind">>})
useDeleteSkillSecret ==
    Mutation("useDeleteSkillSecret", {"secret"}, {<<"skills", "secrets", "slug", "kind">>})
useSkillExecutionRuns == Query(<<"skills", "execution-runs", "slug", "kind">>, {"newRun", "run"})
useSkillExecutionRun == Query(<<"skills", "execution-run", "id">>, {"run"})
useSkillExecutionRunLogs == Query(<<"skills", "execution-run", "id", "logs">>, {"run"})
useSkillExecutionRunOutput == Query(<<"skills", "execution-run", "id", "output">>, {"run"})
useExecuteSkill ==
    Mutation("useExecuteSkill", {"newRun"}, {<<"skills", "execution-runs", "slug", "kind">>})
useCancelSkillExecutionRun ==
    SettingMutation("useCancelSkillExecutionRun", {"run"},
                    {<<"skills", "execution-runs", "slug", "kind">>,
                     <<"skills", "execution-run", "id">>},
                    {<<"skills", "execution-run", "id">>})
useSandboxOverview ==
    Query(<<"sandbox", "overview">>,
          {"skill", "published", "spec", "newRun", "run", "setting", "department", "team"})
useSandboxAnalytics == Query(<<"sandbox", "analytics", "days">>, {"newRun", "run"})

----------------------------------------------------------------------------
(* Settings and keys *)

useEffectiveSettings == Query(<<"settings", "effective", "team", "">>, {"setting"})
useUpsertSettings == Mutation("useUpsertSettings", {"setting"}, {<<"settings">>})
useAuditRules == Query(<<"audit-rules">>, {"auditRule"})
useCreateAuditRule == Mutation("useCreateAuditRule", {"auditRule"}, {<<"audit-rules">>})
useCreateStalenessAlertRule ==
    Mutation("useCreateStalenessAlertRule", {"alertRule"}, {<<"staleness-alert-rules">>})
useUpdateStalenessAlertRule ==
    Mutation("useUpdateStalenessAlertRule", {"alertRule", "setting"},
             {<<"staleness-alert-rules">>, <<"settings">>})
useApiKeyRoles == Query(<<"api-key-roles">>, {})
useApiKeys == Query(<<"api-keys">>, {"apiKey", "team"})
useCreateApiKey == Mutation("useCreateApiKey", {"apiKey"}, {<<"api-keys">>})
useRevokeApiKey == Mutation("useRevokeApiKey", {"apiKey"}, {<<"api-keys">>})
useMcpConnections == Query(<<"mcp", "connections">>, {"connection", "team", "department"})
useRevokeMcpConnection ==
    Mutation("useRevokeMcpConnection", {"connection"},
             {<<"mcp", "connections">>, <<"onboarding", "progress">>})
useUpdateMcpConnectionScope ==
    Mutation("useUpdateMcpConnectionScope", {"connection"},
             {<<"mcp", "connections">>, <<"onboarding", "progress">>})

----------------------------------------------------------------------------
(* Agents *)

useAgents == Query(<<"agents">>, {"agent"})
useAgentSkills == Query(<<"agents", "skills">>, {"agentSkill", "deployment"})
useAgentSkillDeployment ==
    Query(<<"agents", "skills", "slug", "deployment">>, {"agentSkill", "deployment"})
useAgentUsage == Query(<<"agents", "usage", "days", "agent">>, {"usage"})
useAgentAnalytics == Query(<<"agents", "analytics", "days", "all">>, {"usage"})
useCreateAgent == Mutation("useCreateAgent", {"agent"}, {<<"agents">>})
useUpdateAgent == Mutation("useUpdateAgent", {"agent"}, {<<"agents">>})
useRotateAgentToken == Mutation("useRotateAgentToken", {"agent"}, {<<"agents">>})

AfterNewAgentSkill == {<<"agents", "skills">>, <<"agents", "analytics", "days", "all">>}
useCreateAgentSkill ==
    Mutation("useCreateAgentSkill", {"agentSkill", "deployment"}, AfterNewAgentSkill)
useImportAgentSkill ==
    Mutation("useImportAgentSkill", {"agentSkill", "deployment"}, AfterNewAgentSkill)

AfterDeployment == {<<"agents", "skills">>, <<"agents", "skills", "slug", "deployment">>}
useUpdateAgentSkillDeployment ==
    Mutation("useUpdateAgentSkillDeployment", {"deployment"}, AfterDeployment)
useRemoveSkillFromAgent ==
    Mutation("useRemoveSkillFromAgent", {"deployment"}, AfterDeployment)
useSkillAgentDeployment ==
    Query(<<"skills", "agent-deployment", "slug", "kind">>, {"deployment"})
useUpdateSkillAgentDeployment ==
    Mutation("useUpdateSkillAgentDeployment", {"deployment"},
             {<<"skills", "agent-deployment", "slug", "kind">>, <<"agents", "skills">>})

----------------------------------------------------------------------------
(* Usage and capture *)

useUsageEvents == Query(<<"usage", "events", "filters">>, {"usage"})
useUsageSummary == Query(<<"usage", "summary", "days">>, {"usage"})
useUsageAnalytics == Query(<<"usage", "analytics", "days">>, {"usage", "skill", "published"})
useConnectors == Query(<<"connectors">>, {"connector", "job"})
useExtractionJobs == Query(<<"connectors", "id", "extraction-jobs">>, {"job"})
useCandidates == Query(<<"connectors", "id", "candidates", "filters">>, {"candidate"})
useDisconnectConnector ==
    Mutation("useDisconnectConnector", {"connector"}, {<<"connectors">>})
useTriggerSync == Mutation("useTriggerSync", {"job"}, {<<"connectors">>})
useTriggerExtraction ==
    Mutation("useTriggerExtraction", {"job"},
             {<<"connectors">>, <<"connectors", "id", "extraction-jobs">>})
\* Without filters the key is one of an object that every filter matches.
usePromoteCandidate ==
    Mutation("usePromoteCandidate", {"candidate", "draft"},
             {<<"connectors", "id", "candidates">>, <<"skills">>})
useDismissCandidate ==
    Mutation("useDismissCandidate", {"candidate"}, {<<"connectors", "id", "candidates">>})

================================================================================
