--------------------------- MODULE WorkspaceSettings ---------------------------
(***************************************************************************)
(* A policy of a workspace (CoreSettings): a row per scope that was ever   *)
(* edited, the most specific row wins; audit and staleness policies refer  *)
(* to rules, which are rows of their own and may be shared.  And the page  *)
(* that edits them (SettingsPage), as seen by one administrator while      *)
(* others edit them, too.                                                  *)
(*                                                                         *)
(* The policies do not touch each other, so that one of them, any of them, *)
(* is considered; the boolean ones and the sandbox role are alike and are  *)
(* called "flag".  The page offers the workspace and the teams only: its   *)
(* department selector appears once a department is selected.              *)
(*                                                                         *)
(* upsert_settings reads the row of a scope, changes the columns that were *)
(* sent, and saves all of them, without a lock: whoever changes another    *)
(* policy of the same scope puts back what this one was when the row was   *)
(* read (OthersRead and OthersSave).                                       *)
(***************************************************************************)
EXTENDS Naturals, Sequences

CONSTANTS
    Teams, Workspace,  \* the scopes
    Days,              \* periods
    MaxRules,          \* bound on the rules
    On, Off, Inherit,  \* the values of a flag
    None               \* nothing: null

Scopes == Teams \cup {Workspace}
RuleIds == 1 .. MaxRules
Values == {On, Off, None} \cup RuleIds

VARIABLES
    policy, \* the policy that is considered: "flag", "audit" or "alert"
    row,    \* server: what is set for each scope
    rules,  \* server: the periods of the rules ever created, None of a deleted one
    held,   \* server: an upsert of another policy, with the value it read
    scope,  \* page: the scope that is shown
    shown,  \* page: the effective setting of that scope, None until it is loaded
    listed, \* page: the rules in the query cache
    op,     \* page: the handler that is running
    patch   \* page: the change of a staleness rule that is pending

vars == <<policy, row, rules, held, scope, shown, listed, op, patch>>
page == <<policy, scope, shown, listed, patch>>

\* What a handler keeps of its render: the scope, the new value and the period.
Op == [pc : {"idle", "creating", "upserting"}, scope : Scopes,
       value : Values \cup {Inherit}, days : Days \cup {None}]
NoOp == [pc |-> "idle", scope |-> Workspace, value |-> None, days |-> None]

Patch == [rule : RuleIds, days : Days]

Held == [scope : Scopes, value : Values]

Periods == Seq(Days \cup {None})

TypeOK ==
    /\ policy \in {"flag", "audit", "alert"}
    /\ row \in [Scopes -> Values]
    /\ rules \in Periods /\ Len(rules) <= MaxRules
    /\ held \in Held \cup {None}
    /\ scope \in Scopes
    /\ shown \in Values
    /\ listed \in Periods /\ Len(listed) <= Len(rules)
    /\ op \in Op
    /\ patch \in Patch \cup {None}

\* get_effective_settings
EffectiveOf(r, s) == IF r[s] # None THEN r[s] ELSE r[Workspace]

\* The period that holds for a scope.
Period(s) ==
    LET rule == EffectiveOf(row, s)
    IN  IF rule \in DOMAIN rules THEN rules[rule] ELSE None

Init ==
    /\ policy \in {"flag", "audit", "alert"}
    /\ row = [s \in Scopes |-> None]
    /\ rules = << >>
    /\ held = None
    /\ scope = Workspace
    /\ shown = None
    /\ listed = << >>
    /\ op = NoOp
    /\ patch = None

----------------------------------------------------------------------------
(* The server *)

\* upsert_settings: null leaves a flag as it is, "" removes a rule.
Upserted(r, s, value) ==
    [r EXCEPT ![s] = IF value # Inherit THEN value ELSE IF policy = "flag" THEN @ ELSE None]

Rules == {id \in DOMAIN rules : rules[id] # None}
Accepted == {Inherit} \cup (IF policy = "flag" THEN {On, Off} ELSE Rules)

\* Another administrator's page.  It finds audit rules in its list; a staleness rule that
\* is being set here was created for that, and no other page knows it yet.
OthersUpsert(s, value) ==
    /\ value \in Accepted
    /\ policy = "alert" /\ op.pc = "upserting" => value # op.value
    /\ row' = Upserted(row, s, value)
    /\ UNCHANGED <<rules, held, page, op>>

OthersRead(s) ==
    /\ held = None
    /\ held' = [scope |-> s, value |-> row[s]]
    /\ UNCHANGED <<row, rules, page, op>>

\* The save of a rule that was deleted meanwhile fails.
OthersSave ==
    /\ held # None
    /\ row' = IF held.value \in RuleIds \ Rules THEN row
              ELSE [row EXCEPT ![held.scope] = held.value]
    /\ held' = None
    /\ UNCHANGED <<rules, page, op>>

\* delete_audit_rule and delete_staleness_alert_rule: references are set to null.
OthersDeleteRule(id) ==
    /\ policy # "flag" /\ id \in Rules
    /\ rules' = [rules EXCEPT ![id] = None]
    /\ row' = [s \in Scopes |-> IF row[s] = id THEN None ELSE row[s]]
    /\ UNCHANGED <<held, page, op>>

\* update_staleness_alert_rule, for a rule that another administrator's page shows.
OthersPatchRule(id, days) ==
    /\ policy = "alert" /\ id \in Rules /\ \E s \in Scopes : row[s] = id
    /\ rules' = [rules EXCEPT ![id] = days]
    /\ UNCHANGED <<row, held, page, op>>

----------------------------------------------------------------------------
(* The page *)

SelectScope(s) ==
    /\ s # scope
    /\ scope' = s
    /\ shown' = None
    /\ UNCHANGED <<policy, row, rules, held, listed, op, patch>>

FetchSettings ==
    /\ shown' = EffectiveOf(row, scope)
    /\ UNCHANGED <<policy, row, rules, held, scope, listed, op, patch>>

\* There is no list of staleness rules in the page.
FetchAuditRules ==
    /\ policy = "audit" /\ listed' = rules
    /\ UNCHANGED <<policy, row, rules, held, scope, shown, op, patch>>

\* The selector of a policy, and the period of an audit, are disabled while such a handler
\* is running.
Start(pc, value, days) ==
    /\ op.pc = "idle"
    /\ op' = [pc |-> pc, scope |-> scope, value |-> value, days |-> days]
    /\ UNCHANGED <<row, rules, held, page>>

\* What the selector of a flag shows.
Selected == IF shown # None THEN shown ELSE IF scope = Workspace THEN Off ELSE Inherit

\* Also the sandbox role, which never inherits.  "Inherit" is offered for teams.
HandleSettingChange(value) ==
    /\ policy = "flag"
    /\ value = Inherit => scope # Workspace
    /\ value # Selected
    /\ Start("upserting", value, None)

\* Variant: whichever rule the cache has.
SetAuditToAnyRule(days) ==
    IF \E id \in DOMAIN listed : listed[id] # None
    THEN \E id \in DOMAIN listed : listed[id] # None /\ Start("upserting", id, days)
    ELSE Start("creating", None, days)

\* An audit rule of that period is looked for in the cache, or created.
SetAudit(days) ==
    IF \E id \in DOMAIN listed : listed[id] = days
    THEN \E id \in DOMAIN listed : listed[id] = days /\ Start("upserting", id, days)
    ELSE Start("creating", None, days)

\* "Disabled" and "Inherit" remove the rule of this scope.
HandleAuditToggle(enable, days) ==
    /\ policy = "audit" /\ enable = (shown = None)
    /\ IF enable THEN SetAudit(days) ELSE Start("upserting", Inherit, None)

HandleAuditPeriodApply(days) ==
    policy = "audit" /\ shown # None /\ SetAudit(days)

\* Enabling creates a rule every time.
HandleStalenessToggle(enable, days) ==
    /\ policy = "alert" /\ enable = (shown = None)
    /\ IF enable THEN Start("creating", None, days) ELSE Start("upserting", Inherit, None)

\* The rule that holds for the scope is changed, whichever scope it was set for; the
\* recipients are changed likewise.  Only another such change has to be over.
HandleStalenessPeriodApply(days) ==
    /\ policy = "alert" /\ shown \in RuleIds /\ patch = None
    /\ patch' = [rule |-> shown, days |-> days]
    /\ UNCHANGED <<policy, row, rules, held, scope, shown, listed, op>>

\* create_audit_rule and create_staleness_alert_rule; the list of rules is fetched again,
\* and the handler goes on.
RuleCreated ==
    /\ op.pc = "creating" /\ Len(rules) < MaxRules
    /\ rules' = Append(rules, op.days)
    /\ op' = [op EXCEPT !.pc = "upserting", !.value = Len(rules')]
    /\ listed' = IF policy = "audit" THEN rules' ELSE listed
    /\ UNCHANGED <<policy, row, held, scope, shown, patch>>

\* Variant: the settings are stored for the scope that is shown by then.
SettingsUpsertedForShown ==
    /\ op.pc = "upserting" /\ op.value \in Accepted
    /\ row' = Upserted(row, scope, op.value)
    /\ shown' = EffectiveOf(row', scope)
    /\ op' = NoOp
    /\ UNCHANGED <<policy, rules, held, scope, listed, patch>>

\* The settings were stored, and those of the scope that is shown fetched again.
SettingsUpserted ==
    /\ op.pc = "upserting" /\ op.value \in Accepted
    /\ row' = Upserted(row, op.scope, op.value)
    /\ shown' = EffectiveOf(row', scope)
    /\ op' = NoOp
    /\ UNCHANGED <<policy, rules, held, scope, listed, patch>>

RulePatched ==
    /\ patch # None /\ patch.rule \in Rules
    /\ rules' = [rules EXCEPT ![patch.rule] = patch.days]
    /\ shown' = EffectiveOf(row, scope)
    /\ patch' = None
    /\ UNCHANGED <<policy, row, held, scope, listed, op>>

\* Refused, or not answered; a rule that was created for it stays.
RequestFails ==
    /\ op.pc # "idle"
    /\ op' = NoOp
    /\ UNCHANGED <<row, rules, held, page>>

PatchFails ==
    /\ patch # None
    /\ patch' = None
    /\ UNCHANGED <<policy, row, rules, held, scope, shown, listed, op>>

Next ==
    \/ FetchSettings \/ FetchAuditRules \/ RuleCreated \/ SettingsUpserted \/ RulePatched
    \/ RequestFails \/ PatchFails
    \/ OthersSave
    \/ \E s \in Scopes : SelectScope(s) \/ OthersRead(s)
    \/ \E s \in Scopes, value \in Accepted : OthersUpsert(s, value)
    \/ \E id \in RuleIds : OthersDeleteRule(id) \/ \E days \in Days : OthersPatchRule(id, days)
    \/ \E value \in {On, Off, Inherit} : HandleSettingChange(value)
    \/ \E enable \in BOOLEAN, days \in Days :
          HandleAuditToggle(enable, days) \/ HandleStalenessToggle(enable, days)
    \/ \E days \in Days : HandleAuditPeriodApply(days) \/ HandleStalenessPeriodApply(days)

Spec == Init /\ [][Next]_vars

----------------------------------------------------------------------------
(* Properties *)

\* A flag or an audit policy that is changed for one scope stays as it is for every
\* scope that does not inherit it from there, although rules are shared: another
\* team, and the workspace, keep the periods they have.  (Staleness policies do not:
\* HandleStalenessPeriodApply changes an inherited rule.)
OtherScopesKeepTheirs ==
    [][op.pc # "idle" /\ (RuleCreated \/ SettingsUpserted) =>
          \A s \in Scopes : op.scope \in {s, Workspace}
              \/ (EffectiveOf(row, s)' = EffectiveOf(row, s) /\ Period(s)' = Period(s))]_vars

\* A period that the page reports as applied is the one that holds for the scope that was
\* shown when it was applied, whether its rule was found in a list of rules that may be
\* out of date or created, and whatever scope is shown by then.
AppliedPeriodHolds ==
    [][\A s \in Scopes :
          op.scope = s /\ op.days # None /\ SettingsUpserted => Period(s)' = op.days]_vars

\* SettingsPage.tsx:381 says of the settings of a team: "Overrides for this team. Set to
\* "Inherit" to fall back to the parent scope."
InheritFallsBack ==
    [][\A s \in Scopes :
          op.scope = s /\ op.value = Inherit /\ SettingsUpserted =>
             EffectiveOf(row, s)' = EffectiveOf(row, Workspace)']_vars

================================================================================
