------------------------- MODULE WorkspacePagesProofs --------------------------
(***************************************************************************)
(* Proofs about WorkspaceSettings, for any teams, periods and rules, and   *)
(* whatever other administrators do; and about WorkspacePages, where those *)
(* of SkillEditorProofs and ConsoleProofs are put to use.                  *)
(***************************************************************************)
EXTENDS WorkspacePages, TLAPS

USE DEF vars, page

\* The values that a setting may have, and what marks their absence, are different.
ConstantsDistinct ==
    /\ MaxRules \in Nat
    /\ None \notin Days
    /\ Inherit \notin {On, Off, None}
    /\ {On, Off, None, Inherit} \cap Nat = {}

\* Only rules that were created are referred to, and only those of alerts are changed.
ReferencesOK ==
    /\ \A s \in Scopes : row[s] \in RuleIds => row[s] \in DOMAIN rules
    /\ held # None /\ held.value \in RuleIds => held.value \in DOMAIN rules
    /\ \A id \in DOMAIN listed : id \in DOMAIN rules
    /\ shown \in RuleIds => shown \in DOMAIN rules
    /\ patch # None => patch.rule \in DOMAIN rules /\ policy = "alert"

\* Of an audit rule in the cached list, the period is still the same, or the rule is gone.
ListOK ==
    policy = "audit" =>
        \A id \in DOMAIN listed : listed[id] # None => rules[id] \in {listed[id], None}

\* The rule that the page is about to store has the period that was applied, or is gone;
\* if it is a staleness rule, nothing refers to it yet, nor is it about to be changed.
AppliedOK ==
    /\ op.days # None => policy # "flag"
    /\ op.pc = "upserting" /\ op.days # None =>
          /\ op.value \in DOMAIN rules /\ rules[op.value] \in {op.days, None}
          /\ policy = "alert" =>
                /\ \A s \in Scopes : row[s] # op.value
                /\ held # None => held.value # op.value
                /\ shown # op.value
                /\ patch # None => patch.rule # op.value

SettingsInv == TypeOK /\ ReferencesOK /\ ListOK /\ AppliedOK

----------------------------------------------------------------------------
(* What the operators return *)

LEMMA Marks ==
  ASSUME ConstantsDistinct
  PROVE  /\ RuleIds \subseteq Nat /\ RuleIds \subseteq Values
         /\ {On, Off, None, Inherit} \cap RuleIds = {}
         /\ Inherit \notin Values
         /\ Workspace \in Scopes /\ None \in Values
BY DEF ConstantsDistinct, RuleIds, Values, Scopes

LEMMA RulesAreCreated ==
  ASSUME ConstantsDistinct, TypeOK
  PROVE  /\ Rules \subseteq DOMAIN rules /\ DOMAIN rules \subseteq RuleIds
         /\ \A id \in DOMAIN rules : rules[id] \in Days \cup {None}
         /\ Accepted \subseteq Values \cup {Inherit}
BY Marks DEF ConstantsDistinct, TypeOK, Periods, Rules, RuleIds, Accepted, Values

\* What an upsert stores is a value, and a rule that is stored exists.
LEMMA UpsertedTypes ==
  ASSUME ConstantsDistinct, TypeOK, ReferencesOK, NEW s \in Scopes,
         NEW value \in Accepted
  PROVE  /\ Upserted(row, s, value) \in [Scopes -> Values]
         /\ \A u \in Scopes : Upserted(row, s, value)[u] \in RuleIds =>
               Upserted(row, s, value)[u] \in DOMAIN rules
<1>1. row \in [Scopes -> Values]
  BY DEF TypeOK
<1>2. \A u \in Scopes : row[u] \in RuleIds => row[u] \in DOMAIN rules
  BY DEF ReferencesOK
<1>3. value # Inherit => value \in Values
  BY RulesAreCreated
<1>4. value \in RuleIds => value \in DOMAIN rules
  BY RulesAreCreated, Marks DEF Accepted
<1>. QED BY <1>1, <1>2, <1>3, <1>4, Marks DEF Upserted

----------------------------------------------------------------------------
(* The invariant *)

LEMMA InitSettings == ASSUME ConstantsDistinct, Init PROVE SettingsInv
<1>1. TypeOK
  BY Marks DEF ConstantsDistinct, Init, TypeOK, Periods, Op, NoOp
<1>2. ReferencesOK
  BY Marks DEF Init, ReferencesOK
<1>. QED BY <1>1, <1>2 DEF Init, SettingsInv, ListOK, AppliedOK, NoOp

\* An upsert of another administrator.
LEMMA OthersUpsertKeeps ==
  ASSUME ConstantsDistinct, SettingsInv, NEW s \in Scopes, NEW value \in Accepted,
         OthersUpsert(s, value)
  PROVE  SettingsInv'
<1>1. UNCHANGED <<rules, held, policy, scope, shown, listed, op, patch>>
      /\ row' = Upserted(row, s, value)
  BY DEF OthersUpsert
<1>2. /\ row' \in [Scopes -> Values]
      /\ \A u \in Scopes : row'[u] \in RuleIds => row'[u] \in DOMAIN rules
  BY <1>1, UpsertedTypes DEF SettingsInv
<1>3. TypeOK'
  BY <1>1, <1>2 DEF SettingsInv, TypeOK
<1>4. ReferencesOK'
  BY <1>1, <1>2 DEF SettingsInv, ReferencesOK
<1>5. ListOK'
  BY <1>1 DEF SettingsInv, ListOK
<1>6. AppliedOK'
  <2>. SUFFICES ASSUME op.pc = "upserting", op.days # None, policy = "alert",
                       NEW u \in Scopes
                PROVE  row'[u] # op.value
    BY <1>1 DEF SettingsInv, AppliedOK
  <2>1. row[u] # op.value /\ op.value \in RuleIds
    BY RulesAreCreated DEF SettingsInv, AppliedOK
  <2>2. value # op.value
    BY DEF OthersUpsert
  <2>3. row \in [Scopes -> Values]
    BY DEF SettingsInv, TypeOK
  <2>. QED BY <1>1, <2>1, <2>2, <2>3, Marks DEF Upserted
<1>. QED BY <1>3, <1>4, <1>5, <1>6 DEF SettingsInv

\* An upsert of another policy.
LEMMA OthersReadKeeps ==
  ASSUME ConstantsDistinct, SettingsInv, NEW s \in Scopes, OthersRead(s)
  PROVE  SettingsInv'
<1>1. UNCHANGED <<row, rules, policy, scope, shown, listed, op, patch>>
      /\ held' = [scope |-> s, value |-> row[s]]
  BY DEF OthersRead
<1>2. row[s] \in Values
  BY DEF SettingsInv, TypeOK
<1>3. TypeOK'
  BY <1>1, <1>2 DEF SettingsInv, TypeOK, Held
<1>4. ReferencesOK'
  BY <1>1 DEF SettingsInv, ReferencesOK
<1>5. ListOK'
  BY <1>1 DEF SettingsInv, ListOK
<1>6. AppliedOK'
  BY <1>1 DEF SettingsInv, AppliedOK
<1>. QED BY <1>3, <1>4, <1>5, <1>6 DEF SettingsInv

LEMMA OthersSaveKeeps ==
  ASSUME ConstantsDistinct, SettingsInv, OthersSave
  PROVE  SettingsInv'
<1>1. UNCHANGED <<rules, policy, scope, shown, listed, op, patch>> /\ held' = None
  BY DEF OthersSave
<1>2. held.scope \in Scopes /\ held.value \in Values
  BY DEF SettingsInv, TypeOK, OthersSave, Held
<1>3. row' \in {row, [row EXCEPT ![held.scope] = held.value]}
  BY DEF OthersSave
<1>4. TypeOK'
  BY <1>1, <1>2, <1>3 DEF SettingsInv, TypeOK
<1>5. ReferencesOK'
  BY <1>1, <1>2, <1>3 DEF SettingsInv, ReferencesOK, OthersSave, TypeOK
<1>6. ListOK'
  BY <1>1 DEF SettingsInv, ListOK
<1>7. AppliedOK'
  BY <1>1, <1>2, <1>3 DEF SettingsInv, AppliedOK, OthersSave, TypeOK
<1>. QED BY <1>4, <1>5, <1>6, <1>7 DEF SettingsInv

LEMMA OthersDeleteRuleKeeps ==
  ASSUME ConstantsDistinct, SettingsInv, NEW id \in RuleIds, OthersDeleteRule(id)
  PROVE  SettingsInv'
<1>1. /\ UNCHANGED <<held, policy, scope, shown, listed, op, patch>>
      /\ id \in DOMAIN rules /\ rules' = [rules EXCEPT ![id] = None]
      /\ row' = [s \in Scopes |-> IF row[s] = id THEN None ELSE row[s]]
  BY DEF OthersDeleteRule, Rules
<1>2. rules \in Periods /\ Len(rules) <= MaxRules
  BY DEF SettingsInv, TypeOK
<1>3. rules' \in Periods /\ Len(rules') = Len(rules) /\ DOMAIN rules' = DOMAIN rules
  BY <1>1, <1>2 DEF Periods
<1>4. \A k \in DOMAIN rules : rules'[k] = IF k = id THEN None ELSE rules[k]
  BY <1>1, <1>2 DEF Periods
<1>5. TypeOK'
  BY <1>1, <1>2, <1>3, Marks DEF SettingsInv, TypeOK
<1>6. ReferencesOK'
  BY <1>1, <1>3, Marks DEF SettingsInv, ReferencesOK
<1>7. ListOK'
  BY <1>1, <1>3, <1>4 DEF SettingsInv, ListOK, ReferencesOK
<1>8. AppliedOK'
  <2>. SUFFICES ASSUME op.pc = "upserting", op.days # None
                PROVE  AppliedOK'
    BY <1>1 DEF SettingsInv, AppliedOK
  <2>1. op.value \in RuleIds
    BY RulesAreCreated DEF SettingsInv, AppliedOK
  <2>2. op.value # None
    BY <2>1, Marks
  <2>. QED BY <1>1, <1>3, <1>4, <2>2 DEF SettingsInv, AppliedOK
<1>. QED BY <1>5, <1>6, <1>7, <1>8 DEF SettingsInv

\* A staleness rule that some scope has is not the one the page is about to store.
LEMMA OthersPatchRuleKeeps ==
  ASSUME ConstantsDistinct, SettingsInv, NEW id \in RuleIds, NEW days \in Days,
         OthersPatchRule(id, days)
  PROVE  SettingsInv'
<1>1. /\ UNCHANGED <<row, held, policy, scope, shown, listed, op, patch>>
      /\ policy = "alert" /\ id \in DOMAIN rules /\ rules' = [rules EXCEPT ![id] = days]
      /\ \E s \in Scopes : row[s] = id
  BY DEF OthersPatchRule, Rules
<1>2. rules \in Periods /\ Len(rules) <= MaxRules
  BY DEF SettingsInv, TypeOK
<1>3. rules' \in Periods /\ Len(rules') = Len(rules) /\ DOMAIN rules' = DOMAIN rules
  BY <1>1, <1>2 DEF Periods
<1>4. \A k \in DOMAIN rules : rules'[k] = IF k = id THEN days ELSE rules[k]
  BY <1>1, <1>2 DEF Periods
<1>5. TypeOK'
  BY <1>1, <1>2, <1>3 DEF SettingsInv, TypeOK
<1>6. ReferencesOK'
  BY <1>1, <1>3 DEF SettingsInv, ReferencesOK
<1>7. ListOK'
  BY <1>1 DEF SettingsInv, ListOK
<1>8. AppliedOK'
  BY <1>1, <1>3, <1>4 DEF SettingsInv, AppliedOK
<1>. QED BY <1>5, <1>6, <1>7, <1>8 DEF SettingsInv

\* The page loads something.
LEMMA LoadKeeps ==
  ASSUME ConstantsDistinct, SettingsInv,
         (\E s \in Scopes : SelectScope(s)) \/ FetchSettings \/ FetchAuditRules
  PROVE  SettingsInv'
<1>1. UNCHANGED <<row, rules, held, policy, op, patch>> /\ listed' \in {listed, rules}
  BY DEF SelectScope, FetchSettings, FetchAuditRules
<1>2. scope' \in Scopes /\ (shown' \in {None, shown} \/ \E s \in Scopes : shown' = row[s])
  BY Marks DEF SelectScope, FetchSettings, FetchAuditRules, SettingsInv, TypeOK, EffectiveOf
<1>3. TypeOK'
  BY <1>1, <1>2, Marks DEF SettingsInv, TypeOK, Periods
<1>4. ReferencesOK'
  BY <1>1, <1>2, Marks DEF SettingsInv, ReferencesOK
<1>5. ListOK'
  BY <1>1 DEF SettingsInv, ListOK, ReferencesOK
<1>6. AppliedOK'
  <2>1. op.pc = "upserting" /\ op.days # None => op.value \in RuleIds
    BY RulesAreCreated DEF SettingsInv, AppliedOK
  <2>. QED BY <1>1, <1>2, <2>1, Marks DEF SettingsInv, AppliedOK
<1>. QED BY <1>3, <1>4, <1>5, <1>6 DEF SettingsInv

\* A handler begins that stores no period, or is about to create its rule, or found it.
LEMMA StartKeeps ==
  ASSUME ConstantsDistinct, SettingsInv,
         NEW pc \in {"creating", "upserting"},
         NEW value \in Values \cup {Inherit}, NEW days \in Days \cup {None},
         Start(pc, value, days),
         days # None => policy # "flag",
         pc = "upserting" /\ days # None =>
             policy = "audit" /\ value \in DOMAIN rules /\ rules[value] \in {days, None}
  PROVE  SettingsInv'
<1>1. UNCHANGED <<row, rules, held, policy, scope, shown, listed, patch>>
      /\ op' = [pc |-> pc, scope |-> scope, value |-> value, days |-> days]
  BY DEF Start
<1>2. TypeOK'
  BY <1>1 DEF SettingsInv, TypeOK, Op
<1>3. ReferencesOK'
  BY <1>1 DEF SettingsInv, ReferencesOK
<1>4. ListOK'
  BY <1>1 DEF SettingsInv, ListOK
<1>5. AppliedOK'
  BY <1>1 DEF AppliedOK
<1>. QED BY <1>2, <1>3, <1>4, <1>5 DEF SettingsInv

\* The rule of the cached list has the period that is applied, unless it is gone.
LEMMA SetAuditKeeps ==
  ASSUME ConstantsDistinct, SettingsInv, policy = "audit", NEW days \in Days, SetAudit(days)
  PROVE  SettingsInv'
<1>1. CASE \E id \in DOMAIN listed : listed[id] = days
  <2>1. PICK id \in DOMAIN listed : listed[id] = days /\ Start("upserting", id, days)
    BY <1>1 DEF SetAudit
  <2>2. id \in DOMAIN rules /\ rules[id] \in {days, None}
    BY <2>1 DEF SettingsInv, ReferencesOK, ListOK, ConstantsDistinct
  <2>3. id \in Values
    BY <2>2, RulesAreCreated, Marks DEF SettingsInv
  <2>. QED BY <2>1, <2>2, <2>3, StartKeeps
<1>2. CASE ~ \E id \in DOMAIN listed : listed[id] = days
  BY <1>2, StartKeeps, Marks DEF SetAudit
<1>. QED BY <1>1, <1>2

LEMMA HandlersKeep ==
  ASSUME ConstantsDistinct, SettingsInv, NEW enable \in BOOLEAN, NEW days \in Days,
         NEW value \in {On, Off, Inherit},
         \/ HandleSettingChange(value)
         \/ HandleAuditToggle(enable, days) \/ HandleAuditPeriodApply(days)
         \/ HandleStalenessToggle(enable, days)
  PROVE  SettingsInv'
<1>0. shown \in Values /\ None \in Values /\ value \in Values \cup {Inherit}
  BY Marks DEF SettingsInv, TypeOK, Values
<1>1. CASE HandleSettingChange(value)
  BY <1>0, <1>1, StartKeeps DEF HandleSettingChange
<1>2. CASE HandleAuditToggle(enable, days)
  <2>1. CASE enable
    BY <1>2, <2>1, SetAuditKeeps DEF HandleAuditToggle
  <2>2. CASE ~enable
    BY <1>0, <1>2, <2>2, StartKeeps DEF HandleAuditToggle
  <2>. QED BY <2>1, <2>2
<1>3. CASE HandleAuditPeriodApply(days)
  BY <1>3, SetAuditKeeps DEF HandleAuditPeriodApply
<1>4. CASE HandleStalenessToggle(enable, days)
  BY <1>0, <1>4, StartKeeps DEF HandleStalenessToggle
<1>. QED BY <1>1, <1>2, <1>3, <1>4

\* A new rule is one that nothing refers to.
LEMMA RuleCreatedKeeps ==
  ASSUME ConstantsDistinct, SettingsInv, RuleCreated
  PROVE  SettingsInv'
<1>1. /\ UNCHANGED <<policy, row, held, scope, shown, patch>> /\ op.pc = "creating"
      /\ rules' = Append(rules, op.days) /\ Len(rules) < MaxRules
      /\ op' = [op EXCEPT !.pc = "upserting", !.value = Len(rules')]
      /\ listed' = IF policy = "audit" THEN rules' ELSE listed
  BY DEF RuleCreated
<1>2. rules \in Periods /\ op \in Op /\ MaxRules \in Nat
  BY DEF SettingsInv, TypeOK, ConstantsDistinct
<1>3. op.days \in Days \cup {None}
  BY <1>2 DEF Op
<1>4. /\ rules' \in Periods /\ Len(rules') = Len(rules) + 1
      /\ Len(rules) \in Nat /\ DOMAIN rules = 1 .. Len(rules)
      /\ DOMAIN rules' = 1 .. Len(rules')
      /\ \A id \in DOMAIN rules : rules'[id] = rules[id]
      /\ rules'[Len(rules')] = op.days
  BY <1>1, <1>2, <1>3 DEF Periods
<1>5. Len(rules') \in RuleIds
  BY <1>1, <1>2, <1>4 DEF RuleIds
<1>6. /\ op'.pc = "upserting" /\ op'.days = op.days /\ op'.value = Len(rules')
      /\ op' \in Op
  BY <1>1, <1>2, <1>5, Marks DEF Op
<1>7. TypeOK'
  BY <1>1, <1>2, <1>4, <1>6 DEF SettingsInv, TypeOK, Periods
<1>8. ReferencesOK'
  BY <1>1, <1>4 DEF SettingsInv, ReferencesOK
<1>9. ListOK'
  BY <1>1, <1>4 DEF ListOK
<1>10. \A s \in Scopes : row[s] # Len(rules')
  BY <1>4, <1>5 DEF SettingsInv, ReferencesOK
<1>11. held # None => held.value # Len(rules')
  BY <1>4, <1>5 DEF SettingsInv, ReferencesOK
<1>12. shown # Len(rules') /\ (patch # None => patch.rule # Len(rules'))
  BY <1>4, <1>5 DEF SettingsInv, ReferencesOK
<1>13. AppliedOK'
  BY <1>1, <1>4, <1>6, <1>10, <1>11, <1>12 DEF SettingsInv, AppliedOK
<1>. QED BY <1>7, <1>8, <1>9, <1>13 DEF SettingsInv

\* A request of the page is answered, or not, and the handler is over.
LEMMA AnswerKeeps ==
  ASSUME ConstantsDistinct, SettingsInv, SettingsUpserted \/ RequestFails
  PROVE  SettingsInv'
<1>1. UNCHANGED <<policy, rules, held, scope, listed, patch>> /\ op' = NoOp
  BY DEF SettingsUpserted, RequestFails
<1>2. op.scope \in Scopes
  BY DEF SettingsInv, TypeOK, Op
<1>3. op' \in Op /\ op'.days = None /\ op'.pc = "idle"
  BY <1>1, Marks DEF Op, NoOp
<1>4. AppliedOK'
  BY <1>3 DEF AppliedOK
<1>5. CASE SettingsUpserted
  <2>1. /\ row' \in [Scopes -> Values]
        /\ \A s \in Scopes : row'[s] \in RuleIds => row'[s] \in DOMAIN rules
    BY <1>2, <1>5, UpsertedTypes DEF SettingsInv, SettingsUpserted
  <2>2. shown' \in Values /\ (shown' \in RuleIds => shown' \in DOMAIN rules)
    BY <1>5, <2>1, Marks DEF SettingsUpserted, EffectiveOf, SettingsInv, TypeOK
  <2>3. TypeOK' /\ ReferencesOK' /\ ListOK'
    BY <1>1, <1>3, <2>1, <2>2 DEF SettingsInv, TypeOK, ReferencesOK, ListOK
  <2>. QED BY <1>4, <2>3 DEF SettingsInv
<1>6. CASE RequestFails
  BY <1>1, <1>3, <1>4, <1>6
  DEF RequestFails, SettingsInv, TypeOK, ReferencesOK, ListOK
<1>. QED BY <1>5, <1>6

\* A staleness rule is about to be changed: one that is stored, as the page shows it.
LEMMA PatchKeeps ==
  ASSUME ConstantsDistinct, SettingsInv,
         PatchFails \/ \E days \in Days : HandleStalenessPeriodApply(days)
  PROVE  SettingsInv'
<1>1. UNCHANGED <<policy, row, rules, held, scope, shown, listed, op>>
  BY DEF PatchFails, HandleStalenessPeriodApply
<1>2. /\ patch' \in Patch \cup {None}
      /\ patch' # None => patch'.rule = shown /\ shown \in RuleIds /\ policy = "alert"
  BY DEF PatchFails, HandleStalenessPeriodApply, Patch
<1>3. TypeOK'
  BY <1>1, <1>2 DEF SettingsInv, TypeOK
<1>4. ReferencesOK'
  BY <1>1, <1>2 DEF SettingsInv, ReferencesOK
<1>5. ListOK'
  BY <1>1 DEF SettingsInv, ListOK
<1>6. AppliedOK'
  BY <1>1, <1>2 DEF SettingsInv, AppliedOK
<1>. QED BY <1>3, <1>4, <1>5, <1>6 DEF SettingsInv

\* It is changed: it is not the one that a handler is about to store.
LEMMA PatchedKeeps ==
  ASSUME ConstantsDistinct, SettingsInv, RulePatched
  PROVE  SettingsInv'
<1>1. /\ UNCHANGED <<policy, row, held, scope, listed, op>> /\ patch' = None
      /\ patch # None /\ patch.rule \in Rules
      /\ rules' = [rules EXCEPT ![patch.rule] = patch.days]
  BY DEF RulePatched
<1>2. patch.rule \in DOMAIN rules /\ patch.days \in Days /\ policy = "alert" /\ rules \in Periods
  BY <1>1 DEF Rules, SettingsInv, TypeOK, Patch, ReferencesOK
<1>3. rules' \in Periods /\ Len(rules') = Len(rules) /\ DOMAIN rules' = DOMAIN rules
  BY <1>1, <1>2 DEF Periods
<1>4. \A id \in DOMAIN rules : id # patch.rule => rules'[id] = rules[id]
  BY <1>1, <1>2 DEF Periods
<1>5. shown' = EffectiveOf(row, scope) /\ \E s \in Scopes : shown' = row[s]
  BY Marks DEF RulePatched, EffectiveOf, SettingsInv, TypeOK
<1>6. TypeOK'
  BY <1>1, <1>3, <1>5 DEF SettingsInv, TypeOK
<1>7. ReferencesOK'
  BY <1>1, <1>3, <1>5 DEF SettingsInv, ReferencesOK
<1>8. ListOK'
  BY <1>1, <1>2 DEF ListOK
<1>9. AppliedOK'
  BY <1>1, <1>2, <1>3, <1>4, <1>5 DEF SettingsInv, AppliedOK
<1>. QED BY <1>6, <1>7, <1>8, <1>9 DEF SettingsInv

LEMMA NextSettings ==
  ASSUME ConstantsDistinct, SettingsInv, [Next]_vars
  PROVE  SettingsInv'
<1>1. CASE UNCHANGED vars
  BY <1>1 DEF SettingsInv, TypeOK, ReferencesOK, ListOK, AppliedOK
<1>2. CASE (\E s \in Scopes : SelectScope(s)) \/ FetchSettings \/ FetchAuditRules
  BY <1>2, LoadKeeps
<1>3. CASE RuleCreated
  BY <1>3, RuleCreatedKeeps
<1>4. CASE SettingsUpserted \/ RequestFails
  BY <1>4, AnswerKeeps
<1>5. CASE OthersSave
  BY <1>5, OthersSaveKeeps
<1>6. CASE \E s \in Scopes : OthersRead(s)
  BY <1>6, OthersReadKeeps
<1>7. CASE \E s \in Scopes, value \in Accepted : OthersUpsert(s, value)
  BY <1>7, OthersUpsertKeeps
<1>8. CASE \E id \in RuleIds : OthersDeleteRule(id)
  BY <1>8, OthersDeleteRuleKeeps
<1>9. CASE \E id \in RuleIds, days \in Days : OthersPatchRule(id, days)
  BY <1>9, OthersPatchRuleKeeps
<1>10. CASE \E value \in {On, Off, Inherit} : HandleSettingChange(value)
  <2>1. PICK value \in {On, Off, Inherit} : HandleSettingChange(value)
    BY <1>10
  <2>2. value \in Values \cup {Inherit} /\ None \in Days \cup {None}
    BY DEF Values
  <2>. QED BY <2>1, <2>2, StartKeeps DEF HandleSettingChange
<1>11. CASE \E enable \in BOOLEAN, days \in Days :
               HandleAuditToggle(enable, days) \/ HandleStalenessToggle(enable, days)
  BY <1>11, HandlersKeep
<1>12. CASE \E days \in Days : HandleAuditPeriodApply(days)
  BY <1>12, HandlersKeep
<1>13. CASE PatchFails \/ \E days \in Days : HandleStalenessPeriodApply(days)
  BY <1>13, PatchKeeps
<1>14. CASE RulePatched
  BY <1>14, PatchedKeeps
<1>. QED
  BY <1>1, <1>2, <1>3, <1>4, <1>5, <1>6, <1>7, <1>8, <1>9, <1>10, <1>11, <1>12, <1>13, <1>14
     DEF Next

\* In every reachable state settings refer to rules that were created, the cached list
\* of audit rules has no period that a rule does not have, and the rule a handler is
\* about to store is the one with the period that the user applied.
THEOREM SettingsInvariant == ConstantsDistinct => (Spec => []SettingsInv)
<1>. SUFFICES ASSUME ConstantsDistinct
              PROVE  Spec => []SettingsInv
  OBVIOUS
<1>1. Init => SettingsInv
  BY InitSettings
<1>2. SettingsInv /\ [Next]_vars => SettingsInv'
  BY NextSettings
<1>. QED BY <1>1, <1>2, PTL DEF Spec

----------------------------------------------------------------------------
(* The properties *)

\* A rule that is created changes nobody's period, and an upsert changes one scope's row.
LEMMA OtherScopesStep ==
  ASSUME ConstantsDistinct, SettingsInv, RuleCreated \/ SettingsUpserted,
         NEW s \in Scopes, op.scope \notin {s, Workspace}
  PROVE  EffectiveOf(row, s)' = EffectiveOf(row, s) /\ Period(s)' = Period(s)
<1>1. row \in [Scopes -> Values] /\ op.scope \in Scopes
  BY DEF SettingsInv, TypeOK, Op
<1>2. row'[s] = row[s] /\ row'[Workspace] = row[Workspace]
  BY <1>1, Marks DEF RuleCreated, SettingsUpserted, Upserted
<1>3. EffectiveOf(row, s)' = EffectiveOf(row, s)
  BY <1>2 DEF EffectiveOf
<1>4. PICK rule \in Values : rule = EffectiveOf(row, s)
  BY <1>1, Marks DEF EffectiveOf
<1>5. (rule \in DOMAIN rules' <=> rule \in DOMAIN rules)
      /\ (rule \in DOMAIN rules => rules'[rule] = rules[rule])
  <2>1. CASE SettingsUpserted
    BY <2>1 DEF SettingsUpserted
  <2>2. CASE RuleCreated
    <3>1. rules \in Seq(Days \cup {None}) /\ op.days \in Days \cup {None}
          /\ rules' = Append(rules, op.days) /\ Len(rules) < MaxRules
      BY <2>2 DEF RuleCreated, SettingsInv, TypeOK, Periods, Op
    <3>2. /\ DOMAIN rules = 1 .. Len(rules) /\ Len(rules) \in Nat
          /\ DOMAIN rules' = 1 .. (Len(rules) + 1)
          /\ \A id \in DOMAIN rules : rules'[id] = rules[id]
      BY <3>1
    <3>3. rule \in RuleIds => rule \in DOMAIN rules
      BY <1>1, <1>4, Marks DEF EffectiveOf, SettingsInv, ReferencesOK
    <3>4. DOMAIN rules' \subseteq RuleIds
      BY <3>1, <3>2 DEF RuleIds, ConstantsDistinct
    <3>. QED BY <3>2, <3>3, <3>4
  <2>. QED BY <2>1, <2>2
<1>6. Period(s)' = Period(s)
  BY <1>3, <1>4, <1>5 DEF Period
<1>. QED BY <1>3, <1>6

\* Changing a flag or an audit policy for a scope leaves alone every scope that does not
\* inherit from it.
THEOREM ChangesStayInTheirScope == ConstantsDistinct => (Spec => OtherScopesKeepTheirs)
<1>. SUFFICES ASSUME ConstantsDistinct
              PROVE  Spec => OtherScopesKeepTheirs
  OBVIOUS
<1>1. SettingsInv /\ [Next]_vars =>
        [op.pc # "idle" /\ (RuleCreated \/ SettingsUpserted) =>
           \A s \in Scopes : op.scope \in {s, Workspace}
              \/ (EffectiveOf(row, s)' = EffectiveOf(row, s) /\ Period(s)' = Period(s))]_vars
  BY OtherScopesStep
<1>. QED BY <1>1, SettingsInvariant, PTL DEF Spec, OtherScopesKeepTheirs

\* The rule that is stored has the period that was applied.
LEMMA AppliedStep ==
  ASSUME ConstantsDistinct, SettingsInv, SettingsUpserted, op.days # None,
         NEW s \in Scopes, op.scope = s
  PROVE  Period(s)' = op.days
<1>1. PICK id \in DOMAIN rules :
         /\ id = op.value /\ rules[id] \in {op.days, None}
         /\ policy # "flag" /\ op.pc = "upserting"
  BY DEF SettingsInv, TypeOK, AppliedOK, SettingsUpserted, Op
<1>2. id \in RuleIds
  BY <1>1, RulesAreCreated DEF SettingsInv
<1>3. rules[id] = op.days
  BY <1>1, <1>2, Marks DEF SettingsUpserted, Accepted, Rules
<1>4. row'[s] = id /\ rules' = rules
  BY <1>1, <1>2, Marks DEF SettingsUpserted, Upserted, SettingsInv, TypeOK
<1>. QED BY <1>1, <1>2, <1>3, <1>4, Marks DEF Period, EffectiveOf

\* The period that the page reports as applied is the one that holds for its scope.
THEOREM AppliedPeriods == ConstantsDistinct => (Spec => AppliedPeriodHolds)
<1>. SUFFICES ASSUME ConstantsDistinct
              PROVE  Spec => AppliedPeriodHolds
  OBVIOUS
<1>1. SettingsInv /\ [Next]_vars =>
        [\A s \in Scopes :
            op.scope = s /\ op.days # None /\ SettingsUpserted => Period(s)' = op.days]_vars
  BY AppliedStep
<1>. QED BY <1>1, SettingsInvariant, PTL DEF Spec, AppliedPeriodHolds

----------------------------------------------------------------------------
(* The pages together *)

EditorTheory == INSTANCE SkillEditorProofs
CacheTheory == INSTANCE ConsoleProofs WITH MaxChanges <- MaxFacts, page <- visited

\* The theories are about the pages of WorkspacePages: they have the same definitions.
LEMMA SameEditor ==
    /\ Editor!Init <=> EditorTheory!Init
    /\ [Editor!Next]_Editor!vars <=> [EditorTheory!Next]_EditorTheory!vars
    /\ Editor!TypeOK <=> EditorTheory!TypeOK
BY DEF Editor!Files, EditorTheory!Files, Editor!NoFiles, EditorTheory!NoFiles,
       Editor!PathsOf, EditorTheory!PathsOf, Editor!Contents, EditorTheory!Contents,
       Editor!Numbers, EditorTheory!Numbers, Editor!Saves, EditorTheory!Saves,
       Editor!server, EditorTheory!server, Editor!saves, EditorTheory!saves,
       Editor!vars, EditorTheory!vars, Editor!List, EditorTheory!List, Editor!Cache,
       EditorTheory!Cache, Editor!NoCache, EditorTheory!NoCache, Editor!Editor,
       EditorTheory!Editor, Editor!BlankEditor, EditorTheory!BlankEditor, Editor!Save,
       EditorTheory!Save, Editor!NoSave, EditorTheory!NoSave, Editor!TypeOK,
       EditorTheory!TypeOK, Editor!Latest, EditorTheory!Latest,
       Editor!NeedsLatestDraft, EditorTheory!NeedsLatestDraft, Editor!LatestLoaded,
       EditorTheory!LatestLoaded, Editor!InitialVersion, EditorTheory!InitialVersion,
       Editor!DisplayVersion, EditorTheory!DisplayVersion, Editor!Initialize,
       EditorTheory!Initialize, Editor!ResetFiles, EditorTheory!ResetFiles,
       Editor!ShowFiles, EditorTheory!ShowFiles, Editor!OnServer,
       EditorTheory!OnServer, Editor!PutFetched, EditorTheory!PutFetched,
       Editor!Settled, EditorTheory!Settled, Editor!HasUnsavedChanges,
       EditorTheory!HasUnsavedChanges, Editor!CacheStep, EditorTheory!CacheStep,
       Editor!EditorStep, EditorTheory!EditorStep, Editor!ChangeStep,
       EditorTheory!ChangeStep, Editor!Init, EditorTheory!Init, Editor!Insert,
       EditorTheory!Insert, Editor!OthersSave, EditorTheory!OthersSave,
       Editor!OthersPublish, EditorTheory!OthersPublish, Editor!Keep,
       EditorTheory!Keep, Editor!RefetchSkill, EditorTheory!RefetchSkill,
       Editor!VersionsRead, EditorTheory!VersionsRead, Editor!VersionsArrive,
       EditorTheory!VersionsArrive, Editor!VersionsFail, EditorTheory!VersionsFail,
       Editor!InvalidateVersions, EditorTheory!InvalidateVersions, Editor!LoadLatest,
       EditorTheory!LoadLatest, Editor!HandleEnterEdit, EditorTheory!HandleEnterEdit,
       Editor!PressEscape, EditorTheory!PressEscape, Editor!HandleCancelEdit,
       EditorTheory!HandleCancelEdit, Editor!EditText, EditorTheory!EditText,
       Editor!SelectFile, EditorTheory!SelectFile, Editor!EditFile,
       EditorTheory!EditFile, Editor!OnFileAdd, EditorTheory!OnFileAdd,
       Editor!OnFileDelete, EditorTheory!OnFileDelete, Editor!HandleImport,
       EditorTheory!HandleImport, Editor!Posting, EditorTheory!Posting,
       Editor!Becomes, EditorTheory!Becomes, Editor!Read, EditorTheory!Read,
       Editor!Free, EditorTheory!Free, Editor!HandleSave, EditorTheory!HandleSave,
       Editor!Renamed, EditorTheory!Renamed, Editor!LoadFile, EditorTheory!LoadFile,
       Editor!CreateVersion, EditorTheory!CreateVersion, Editor!SaveFails,
       EditorTheory!SaveFails, Editor!SaveAnswered, EditorTheory!SaveAnswered,
       Editor!SaveReturns, EditorTheory!SaveReturns, Editor!HandlePublish,
       EditorTheory!HandlePublish, Editor!Leave, EditorTheory!Leave, Editor!Next,
       EditorTheory!Next

LEMMA SameCache ==
    /\ Cache!Init <=> CacheTheory!Init
    /\ [Cache!Next]_Cache!vars <=> [CacheTheory!Next]_CacheTheory!vars
    /\ Cache!TypeOK <=> CacheTheory!TypeOK
BY DEF Cache!Cardinality, CacheTheory!Cardinality, Cache!vars, CacheTheory!vars,
       Cache!Entry, CacheTheory!Entry, Cache!Effects, CacheTheory!Effects,
       Cache!Counts, CacheTheory!Counts, Cache!QueryOK, CacheTheory!QueryOK,
       Cache!TypeOK, CacheTheory!TypeOK, Cache!Mount, CacheTheory!Mount,
       Cache!Invalidate, CacheTheory!Invalidate, Cache!Put, CacheTheory!Put,
       Cache!Settle, CacheTheory!Settle, Cache!Fresh, CacheTheory!Fresh, Cache!Init,
       CacheTheory!Init, Cache!EntryStep, CacheTheory!EntryStep, Cache!GoesStale,
       CacheTheory!GoesStale, Cache!Refetch, CacheTheory!Refetch, Cache!ServerReads,
       CacheTheory!ServerReads, Cache!FetchReturns, CacheTheory!FetchReturns,
       Cache!FetchFails, CacheTheory!FetchFails, Cache!Navigate, CacheTheory!Navigate,
       Cache!Change, CacheTheory!Change, Cache!Press, CacheTheory!Press,
       Cache!ServerApplies, CacheTheory!ServerApplies, Cache!MaySee,
       CacheTheory!MaySee, Cache!MutationReturns, CacheTheory!MutationReturns,
       Cache!Undo, CacheTheory!Undo, Cache!MutationFails, CacheTheory!MutationFails,
       Cache!OthersChange, CacheTheory!OthersChange, Cache!Next, CacheTheory!Next

\* Whichever page is looked at, the others stay in an initial state: a behaviour of the
\* pages is one of each of them.
LEMMA PagesAreEach == AllSpec => Spec /\ EditorTheory!Spec /\ CacheTheory!Spec
<1>1. AllInit => Init /\ EditorTheory!Init /\ CacheTheory!Init
  BY SameEditor, SameCache DEF AllInit
<1>2. [AllNext]_<<component, vars, editor, console>>
        => [Next]_vars /\ [Editor!Next]_Editor!vars /\ [Cache!Next]_Cache!vars
  BY DEF AllNext, editor, console, Editor!vars, Cache!vars
<1>3. [AllNext]_<<component, vars, editor, console>>
        => /\ [Next]_vars
           /\ [EditorTheory!Next]_EditorTheory!vars /\ [CacheTheory!Next]_CacheTheory!vars
  BY <1>2, SameEditor, SameCache
<1>. QED
  BY <1>1, <1>3, PTL DEF AllSpec, Spec, EditorTheory!Spec, CacheTheory!Spec

\* Every variable of the pages has its type, for any files, scopes, rules and client.
THEOREM PagesTypeCorrect ==
    ConstantsDistinct /\ EditorTheory!ContentsOK /\ CacheTheory!SiteOK
        => (AllSpec => []AllTypeOK)
<1>. SUFFICES ASSUME ConstantsDistinct, EditorTheory!ContentsOK, CacheTheory!SiteOK
              PROVE  AllSpec => []AllTypeOK
  OBVIOUS
<1>1. Spec => []SettingsInv
  BY SettingsInvariant
<1>2. EditorTheory!Spec => []EditorTheory!TypeOK
  BY EditorTheory!TypeCorrect
<1>3. CacheTheory!Spec => []CacheTheory!TypeOK
  BY CacheTheory!TypeCorrect
<1>4. SettingsInv /\ EditorTheory!TypeOK /\ CacheTheory!TypeOK => AllTypeOK
  BY SameEditor, SameCache DEF SettingsInv, AllTypeOK
<1>. QED
  BY <1>1, <1>2, <1>3, <1>4, PagesAreEach, PTL

\* On the pages together: an editor that offers nothing to save shows what the page makes
\* of a stored version, or what was sanitized into it, whatever sanitizing and parsing do
\* (SkillViewPage.tsx).
THEOREM CleanEditorsAreStored ==
    EditorTheory!ContentsOK => (AllSpec => []CleanMeansStored)
<1>1. EditorTheory!CleanMeansStored => CleanMeansStored
  BY DEF CleanMeansStored, Editor!CleanMeansStored, EditorTheory!CleanMeansStored
<1>. QED BY <1>1, EditorTheory!CleanIsStored, PagesAreEach, PTL

\* On the pages together: of any number of overlapping saves, each posts what the editor
\* showed when it was pressed, and that is stored, its text sanitized (handleSave).
THEOREM EditorSavesAsSubmitted ==
    EditorTheory!ContentsOK => (AllSpec => []SavedAsSubmitted)
<1>1. EditorTheory!SavedAsSubmitted => SavedAsSubmitted
  BY DEF SavedAsSubmitted, Editor!SavedAsSubmitted, EditorTheory!SavedAsSubmitted,
         Editor!Saves, EditorTheory!Saves
<1>. QED BY <1>1, EditorTheory!SavesAreAsSubmitted, PagesAreEach, PTL

\* On the pages together: the version of a reported save is among those the page has,
\* unless their list counts as out of date or the save joined its first fetch
\* (useCreateVersion).
THEOREM ReportedVersionsAreListed ==
    EditorTheory!ContentsOK => (AllSpec => SavedVersionIsListed)
<1>1. [\A k \in EditorTheory!Saves :
          save[k].pc = "refetching" /\ save'[k].pc = "idle" /\ open =>
              \/ EditorTheory!Latest(cache) >= save[k].number
              \/ cache.list.stale
              \/ save[k].joined]_EditorTheory!vars
      => [\A k \in Editor!Saves :
             save[k].pc = "refetching" /\ save'[k].pc = "idle" /\ open =>
                 \/ Editor!Latest(cache) >= save[k].number
                 \/ cache.list.stale
                 \/ save[k].joined]_Editor!vars
  BY DEF Editor!vars, EditorTheory!vars, Editor!Saves, EditorTheory!Saves,
         Editor!Latest, EditorTheory!Latest
<1>. QED
  BY <1>1, EditorTheory!ReportedSavesAreListed, PagesAreEach, PTL
     DEF SavedVersionIsListed, Editor!SavedVersionIsListed, EditorTheory!SavedVersionIsListed

\* On the pages together: a page that shows a cached result as current shows every change
\* that its user was told of, while no optimistic mutation is pending (the invalidations of
\* client.ts).
THEOREM PagesReadWrites == CacheTheory!SiteOK => (AllSpec => []ReadYourWrites)
<1>1. CacheTheory!ReadYourWrites => ReadYourWrites
  BY DEF ReadYourWrites, Cache!ReadYourWrites, CacheTheory!ReadYourWrites,
         Cache!Optimistic, CacheTheory!Optimistic
<1>. QED BY <1>1, CacheTheory!WritesAreRead, PagesAreEach, PTL

\* On the pages together: no page goes back to an older state than it has shown, of a query
\* into which no mutation puts a result.
THEOREM PagesReadMonotonically == CacheTheory!SiteOK => (AllSpec => MonotonicReads)
<1>1. [entry.data # None /\ ~Site[query].put => entry'.data >= entry.data]_CacheTheory!vars
      => [entry.data # None /\ ~Site[query].put => entry'.data >= entry.data]_Cache!vars
  BY DEF Cache!vars, CacheTheory!vars
<1>. QED
  BY <1>1, CacheTheory!ReadsAreMonotonic, PagesAreEach, PTL
     DEF MonotonicReads, Cache!MonotonicReads, CacheTheory!MonotonicReads

================================================================================
