-------------------------------- MODULE Screens --------------------------------
(***************************************************************************)
(* The screens of the web client: the queries that a component shows and   *)
(* the mutations that it offers.  A component shows and offers what its    *)
(* parts do, its dialogs included.  Each is described as an administrator  *)
(* sees it.                                                                *)
(***************************************************************************)
EXTENDS ApiClient, SequencesExt, TLC

Screen(shows, offers) == [shows |-> shows, offers |-> offers]
Join(parts) ==
    Screen(UNION {part.shows : part \in parts}, UNION {part.offers : part \in parts})

----------------------------------------------------------------------------
(* The frame of every page of a workspace *)

AppSidebar == Screen({useTeams, useMe, useAgents, useEffectiveSettings}, {})
TopNav == Screen({useMe, useOnboardingProgress}, {useUpdateOnboardingPreference})
OnboardingGuide ==
    Screen({useMe, useOnboardingProgress, useTeams}, {useUpdateOnboardingPreference})
AppLayout == Join({Screen({useMe}, {}), AppSidebar, TopNav, OnboardingGuide})

----------------------------------------------------------------------------
(* Before there is a workspace *)

OnboardingPage == Screen({useMe}, {useCreateWorkspace})

\* The invitation is accepted when the page is opened, and by nothing else.
acceptInvitation == Mutation("acceptInvitation", {"me", "member"}, {<<"auth", "me">>})
AcceptInvitationPage == Screen({useMe}, {acceptInvitation})

----------------------------------------------------------------------------
(* Teams and departments *)

DashboardPage == Screen({useTeams, useSkills("first"), useUsageSummary}, {})

TeamListPage == Screen({useTeams}, {useCreateTeam})

EditTeamDialog == Screen({}, {useUpdateTeam})
NewDepartmentDialog == Screen({useWorkspaceMembers}, {useCreateDepartment})
TeamDetailPage ==
    Join({Screen({useTeam}, {useDeleteTeam}), EditTeamDialog, NewDepartmentDialog})

\* A skill is created, and then its first version is posted without the client.
postFirstVersion == Mutation("postFirstVersion", {"version"}, {})
SkillCreateDialog ==
    Screen({useDepartments("all"), useWorkspaceMembers}, {useCreateSkill, postFirstVersion})

EditDepartmentDialog == Screen({useWorkspaceMembers}, {useUpdateDepartment})
DepartmentDetailPage ==
    Join({Screen({useDepartment, useSkills("department")}, {useDeleteDepartment}),
          EditDepartmentDialog, SkillCreateDialog})

----------------------------------------------------------------------------
(* Skills *)

SecretsPanel ==
    Screen({useSkillSecrets}, {useUpsertSkillSecret, useDeleteSkillSecret})
ExecutionDebugger ==
    Join({Screen({useSkillExecutionSpec, useSkillExecutionRuns, useSkillExecutionRun,
                  useSkillExecutionRunLogs, useSkillExecutionRunOutput}, {useExecuteSkill, useCancelSkillExecutionRun}), SecretsPanel})
ExecutionSummaryCard ==
    Join({Screen({useSkillExecutionSpec, useSkillExecutionRuns}, {useUpdateSkillExecutionSpec}), ExecutionDebugger})

CatalogView == Screen({useTeams, useDepartments("all"), useSkills("catalog")}, {})
ExecutableView == Join({Screen({useSandboxOverview}, {}), ExecutionDebugger})
SkillListPage == Join({CatalogView, ExecutableView, SkillCreateDialog})

VersionTimeline == Screen({useVersions}, {})
ScopeDialog == Screen({useDepartments("all")}, {useUpdateSkill})
SkillAgentDeploymentCard ==
    Screen({useSkillAgentDeployment, useAgents}, {useUpdateSkillAgentDeployment})
AgentDeploymentBlock ==
    Screen({useAgentSkillDeployment, useAgents}, {useUpdateAgentSkillDeployment})
SkillEditing ==
    Screen({useSkill, useVersions, useVersion, useVersionFiles, useVersionFile,
            useWorkspaceMembers, useDepartments("all"), useEffectiveSettings,
            useSkills("prerequisites")}, {useCreateVersion, useReviewSkill})
SkillDialogs ==
    Screen({}, {useUpdateSkill, usePublishSkill, useUpdateVersionSummary, useDeleteSkill,
                useUnshareSkillFromMyTeam})
SkillViewPage ==
    Join({SkillEditing, SkillDialogs, ScopeDialog, SkillAgentDeploymentCard,
          ExecutionSummaryCard, VersionTimeline})
AgentSkillViewPage ==
    Join({SkillEditing, SkillDialogs, AgentDeploymentBlock, ExecutionSummaryCard,
          VersionTimeline})

InlineDiffBlock == Screen({useVersionDiff, useFileDiff}, {})
RevertConfirmDialog == Screen({}, {useRevertVersion})
SkillHistoryPage ==
    Join({Screen({useSkill, useVersions}, {}), InlineDiffBlock, RevertConfirmDialog})

----------------------------------------------------------------------------
(* Agents *)

CreateAgentDialog == Screen({}, {useCreateAgent})
CreateAgentSkillDialog == Screen({}, {useCreateAgentSkill})
ImportAgentSkillDialog == Screen({}, {useImportAgentSkill})
AgentsPage ==
    Join({Screen({useAgents, useAgentSkills, useAgentAnalytics, useAgentUsage}, {useUpdateAgent, useRotateAgentToken}),
          CreateAgentDialog, CreateAgentSkillDialog, ImportAgentSkillDialog})
AgentDetailPage ==
    Screen({useAgents, useAgentSkills, useAgentAnalytics, useAgentUsage}, {useRemoveSkillFromAgent, useUpdateAgent, useRotateAgentToken})

----------------------------------------------------------------------------
(* Administration, usage and capture *)

InviteDialog == Screen({useTeams, useDepartments("all")}, {useInviteMember})
MembersPage ==
    Join({Screen({useMe, useWorkspaceMembers, usePendingInvitations}, {useRemoveMember, useCancelInvitation}), InviteDialog})

CreateKeyDialog ==
    Screen({useApiKeyRoles, useTeams, useDepartments("all")}, {useCreateApiKey})
ApiKeysPage ==
    Join({Screen({useEffectiveSettings, useApiKeys}, {useRevokeApiKey}),
          CreateKeyDialog})

ScopeEditorDialog ==
    Screen({useTeams, useDepartments("all")}, {useUpdateMcpConnectionScope})
McpPage == Join({Screen({useMcpConnections}, {useRevokeMcpConnection}),
                 ScopeEditorDialog})

SettingsPage ==
    Screen({useWorkspace, useTeams, useDepartments("all"), useEffectiveSettings,
            useAuditRules, useOnboardingProgress}, {useUpdateOnboardingPreference, useUpsertSettings, useCreateAuditRule, useCreateStalenessAlertRule,
            useUpdateStalenessAlertRule})

ActivityLogTab == Screen({useUsageEvents, useUsageSummary}, {})
SandboxTab == Screen({useSandboxAnalytics}, {})
UsageDashboardPage ==
    Join({Screen({useUsageAnalytics, useUsageSummary}, {}), ActivityLogTab, SandboxTab})

ConnectorsPage ==
    Screen({useConnectors, useExtractionJobs}, {useDisconnectConnector, useTriggerSync, useTriggerExtraction})

PromoteDialog ==
    Screen({useDepartments("all"), useWorkspaceMembers}, {usePromoteCandidate})
CandidatesPage ==
    Join({Screen({useConnectors, useCandidates}, {useDismissCandidate}), PromoteDialog})

----------------------------------------------------------------------------

\* The routes: a page of a workspace appears in its frame, the others without it.
InWorkspace ==
    [Dashboard |-> DashboardPage, TeamList |-> TeamListPage, TeamDetail |-> TeamDetailPage,
     DepartmentDetail |-> DepartmentDetailPage, SkillList |-> SkillListPage,
     SkillView |-> SkillViewPage, AgentSkillView |-> AgentSkillViewPage,
     SkillHistory |-> SkillHistoryPage, Agents |-> AgentsPage,
     AgentDetail |-> AgentDetailPage, Members |-> MembersPage, ApiKeys |-> ApiKeysPage,
     Mcp |-> McpPage, Settings |-> SettingsPage, UsageDashboard |-> UsageDashboardPage,
     Connectors |-> ConnectorsPage, Candidates |-> CandidatesPage]
Pages ==
    [p \in DOMAIN InWorkspace |-> Join({AppLayout, InWorkspace[p]})]
        @@ [Onboarding |-> OnboardingPage, AcceptInvitation |-> AcceptInvitationPage]

----------------------------------------------------------------------------
(* What the screens are to a query *)

\* What mutations leave in the cache of their own page although they change it: the
\* overview is polled; the lists of members in TeamDetailPage are of their names, not of
\* their teams; the summary that SkillViewPage shows is that of useVersions; and a
\* renamed department keeps its old name on the skills of DepartmentDetailPage until
\* they are a minute old.
Overlooked ==
    {<<useExecuteSkill, useSandboxOverview>>,
     <<useCancelSkillExecutionRun, useSandboxOverview>>,
     <<useUpdateTeam, useWorkspaceMembers>>, <<useDeleteTeam, useWorkspaceMembers>>,
     <<useUpdateVersionSummary, useVersion>>,
     <<useUpdateDepartment, useSkills("department")>>}

\* The queries whose results mutations put into the cache, or change there.
PutByMutations ==
    {useWorkspace, useSkill, useSkillExecutionRun, useOnboardingProgress, useAgentSkills}

\* An optimistic mutation changes in the cache what it invalidates.
Effect(m, q) ==
    [writes |-> m.writes \cap q.reads # {}, overlooked |-> <<m, q>> \in Overlooked,
     invalidates |-> \E key \in m.invalidates : IsPrefix(key, q.key),
     sets |-> q.key \in m.sets, prefetches |-> q.key \in m.prefetches,
     optimistic |-> m.optimistic /\ \E key \in m.invalidates : IsPrefix(key, q.key)]
Concerns(effect) ==
    effect.writes \/ effect.invalidates \/ effect.sets \/ effect.prefetches

PageFor(q, screen) ==
    [shown |-> q \in screen.shows,
     offers |-> {effect \in {Effect(m, q) : m \in screen.offers} : Concerns(effect)}]
PagesFor(q, pages) == {PageFor(q, pages[p]) : p \in DOMAIN pages}

\* What a query is to the cache: its pages, whether its facts change at all, and whether
\* mutations put a result into the cache.
Seen(q, pages) ==
    [pages |-> PagesFor(q, pages), changes |-> q.reads # {}, put |-> q \in PutByMutations]

\* Of several queries that the pages treat alike, one is considered.
SiteMap ==
    LET pages == Pages
        queries == UNION {pages[p].shows : p \in DOMAIN pages}
        seen == [q \in queries |-> Seen(q, pages)]
        one == {CHOOSE q \in queries : seen[q] = seen[r] : r \in queries}
    IN  [q \in one |-> seen[q]]

================================================================================
