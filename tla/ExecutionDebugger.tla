-------------------------- MODULE ExecutionDebugger --------------------------
(***************************************************************************)
(* Running a skill from the skill page: the card ExecutionSummaryCard and  *)
(* its dialog ExecutionDebugger with the run form, the run detail, the run *)
(* history and the quick test of the IDE (InlineTestPanel), over the       *)
(* queries and mutations of api/client.ts.                                 *)
(*                                                                         *)
(* A handler of a React component is a closure: after an await or a timer  *)
(* it still sees the props and state of the render in which it was called, *)
(* while what it sets changes the state of now.  What a handler captured   *)
(* is kept in the record of its request.  A query has at most one fetch    *)
(* under way, which goes on when another run is selected.  It returns what *)
(* the server held when it answered: as a run changes once, that is what   *)
(* it held when the fetch was sent, or what it holds when it returns.      *)
(*                                                                         *)
(* The server is reduced to what SkillExecution shows of it: a run that    *)
(* ended stays as it is.                                                   *)
(***************************************************************************)
EXTENDS Naturals, Sequences, FiniteSets

CONSTANTS
    None,         \* nothing
    MaxRequests   \* bound on the execute requests of the tab, and so on the runs

VARIABLES
    run,       \* server: the statuses of the runs, oldest first
    seen,      \* the query cache: the run list, single runs, and those out of date
    flight,    \* the fetches of single runs under way, with the status when they were sent
    selected,  \* the run that the dialog shows
    cancel,    \* handleCancel and its request
    exec,      \* the execute requests and what their handlers captured
    quick      \* the quick test polls its last run

vars == <<run, seen, flight, selected, cancel, exec, quick>>

----------------------------------------------------------------------------
(* Data *)

\* The client treats queued and running runs alike, and all that ended.
ActiveStatuses == {"pending_approval", "started"}
Ended == {"ended"}
Statuses == ActiveStatuses \cup Ended

Requests == 1 .. MaxRequests
RunIds == 1 .. MaxRequests

\* The reasons of handleExecute to give up, a disabled spec and invalid inputs, are a
\* choice (see SkillMiniIde and InputsForm for them), and so is the approval box.
Exec == [pc : {"idle", "timer", "sent", "answered", "over"},
         from : {"button", "rerun", "quick"},
         run : {0} \cup RunIds]
NoExec == [pc |-> "idle", from |-> "button", run |-> 0]

Over == [NoExec EXCEPT !.pc = "over"]

\* The button is disabled until the handler has ended.
Cancel == [pc : {"idle", "sent", "answered", "settling"}, run : {0} \cup RunIds]
NoCancel == [pc |-> "idle", run |-> 0]

HasActive(list) == \E i \in DOMAIN list : list[i] \in ActiveStatuses

\* Variant: the newest run is one off.
FollowActiveOffByOne(list, current) ==
    LET active == {i \in DOMAIN list : list[i] \in ActiveStatuses}
    IN  IF active # {} THEN CHOOSE i \in active : \A j \in active : j <= i
        ELSE IF current = 0 THEN Len(list) - 1 ELSE current

\* The two effects on the run list: the newest active run is always selected,
\* and the newest one when nothing is.
FollowActive(list, current) ==
    LET active == {i \in DOMAIN list : list[i] \in ActiveStatuses}
    IN  IF active # {} THEN CHOOSE i \in active : \A j \in active : j <= i
        ELSE IF current = 0 THEN Len(list) ELSE current

\* selectedRun: the run's own query, or its entry in the list.
Shown(r) ==
    IF r = 0 THEN None
    ELSE IF seen.run[r] # None THEN seen.run[r]
    ELSE IF r \in DOMAIN seen.list THEN seen.list[r] ELSE None

TypeOK ==
    /\ run \in Seq(Statuses) /\ Len(run) <= MaxRequests
    /\ seen \in [list : Seq(Statuses), run : [RunIds -> Statuses \cup {None}],
                stale : SUBSET RunIds]
    /\ flight \in [RunIds -> Statuses \cup {None}]
    /\ selected \in {0} \cup RunIds
    /\ cancel \in Cancel
    /\ exec \in [Requests -> Exec]
    /\ quick \in BOOLEAN

Init ==
    /\ run = << >>
    /\ seen = [list |-> << >>, run |-> [r \in RunIds |-> None], stale |-> {}]
    /\ flight = [r \in RunIds |-> None]
    /\ selected = 0
    /\ cancel = NoCancel
    /\ exec = [k \in Requests |-> NoExec]
    /\ quick = FALSE

----------------------------------------------------------------------------
(* The server *)

\* The executor reports the end of a run.
RunEnds(r) ==
    /\ r \in DOMAIN run
    /\ run[r] = "started"
    /\ run' = [run EXCEPT ![r] = "ended"]
    /\ UNCHANGED <<seen, flight, selected, cancel, exec, quick>>

\* execute_skill.  Whether the version needs an approval, and has it, is left open, and
\* so is every reason to refuse a request.
ServerExecutes(k) ==
    /\ exec[k].pc = "sent"
    /\ \E status \in ActiveStatuses : run' = Append(run, status)
    /\ exec' = [exec EXCEPT ![k].pc = "answered", ![k].run = Len(run) + 1]
    /\ UNCHANGED <<seen, flight, selected, cancel, quick>>

\* The toast of handleExecute or handleTestRun shows the error.
ServerRefuses(k) ==
    /\ exec[k].pc = "sent"
    /\ exec' = [exec EXCEPT ![k] = Over]
    /\ UNCHANGED <<run, seen, flight, selected, cancel, quick>>

----------------------------------------------------------------------------
(* Queries and polling *)

\* useSkillExecutionRuns: fetched on mount, polled while it holds an active run.
\* What invalidates the list drops the fetch on its way, so that it can be
\* one step.
PollRuns ==
    /\ seen.list = << >> \/ HasActive(seen.list)
    /\ seen' = [seen EXCEPT !.list = run]
    /\ selected' = FollowActive(run, selected)
    /\ UNCHANGED <<run, flight, cancel, exec, quick>>


\* useSkillExecutionRun: fetched when a run is selected that is not cached or out of
\* date, polled while active.
FetchRun(r) ==
    /\ selected = r /\ r \in DOMAIN run /\ flight[r] = None
    /\ seen.run[r] \in ActiveStatuses \cup {None} \/ r \in seen.stale
    /\ flight' = [flight EXCEPT ![r] = run[r]]
    /\ UNCHANGED <<run, seen, selected, cancel, exec, quick>>

RunArrives(r) ==
    /\ flight[r] # None
    /\ \E status \in {flight[r], run[r]} :
          seen' = [seen EXCEPT !.run[r] = status, !.stale = @ \ {r}]
    /\ flight' = [flight EXCEPT ![r] = None]
    /\ UNCHANGED <<run, selected, cancel, exec, quick>>

\* A request that failed; the interval asks again while the data is active.
FetchFails(r) ==
    /\ flight[r] # None
    /\ flight' = [flight EXCEPT ![r] = None]
    /\ UNCHANGED <<run, seen, selected, cancel, exec, quick>>

----------------------------------------------------------------------------
(* The dialog.  Closed, it goes on like one whose user does nothing: the card keeps *)
(* its component mounted, with its queries, its selection and its requests. *)

\* A row of the history; the newest active run is selected again at once.
SelectRun(r) ==
    /\ r \in DOMAIN seen.list
    /\ selected' = FollowActive(seen.list, r)
    /\ UNCHANGED <<run, seen, flight, cancel, exec, quick>>

\* handleCancel, for the run on display.
PressCancel(r) ==
    /\ selected = r /\ r \in DOMAIN run /\ Shown(r) \in ActiveStatuses
    /\ cancel.pc = "idle"
    /\ cancel' = [pc |-> "sent", run |-> r]
    /\ UNCHANGED <<run, seen, flight, selected, exec, quick>>

ServerCancels ==
    /\ cancel.pc = "sent" /\ run[cancel.run] \in ActiveStatuses
    /\ run' = [run EXCEPT ![cancel.run] = "ended"]
    /\ cancel' = [cancel EXCEPT !.pc = "answered"]
    /\ UNCHANGED <<seen, flight, selected, exec, quick>>

\* A run that ended meanwhile answers 409; or the answer is lost.
CancelFails ==
    /\ cancel.pc \in {"sent", "answered"}
    /\ cancel' = NoCancel
    /\ UNCHANGED <<run, seen, flight, selected, exec, quick>>

\* Variant: the run's query is not invalidated.
CancelAnsweredKeepsFetch ==
    /\ cancel.pc = "answered"
    /\ cancel' = [cancel EXCEPT !.pc = "settling"]
    /\ seen' = [seen EXCEPT !.run[cancel.run] = "ended", !.stale = @ \ {cancel.run}]
    /\ UNCHANGED <<run, flight, selected, exec, quick>>

\* useCancelSkillExecutionRun puts the answer into the cache and invalidates the run's
\* query.  While the run is selected, a fetch that is under way is dropped and asked for
\* again; otherwise it goes on, and the result counts as out of date.
CancelAnswered ==
    LET r == cancel.run
    IN  /\ cancel.pc = "answered"
        /\ cancel' = [cancel EXCEPT !.pc = "settling"]
        /\ seen' = [seen EXCEPT !.run[r] = "ended",
                                !.stale = IF selected = r THEN @ \ {r} ELSE @ \cup {r}]
        /\ flight' = IF selected = r THEN [flight EXCEPT ![r] = run[r]] ELSE flight
        /\ UNCHANGED <<run, selected, exec, quick>>

\* The list has been fetched again, unless that failed, and so has the run.
CancelSettles ==
    /\ cancel.pc = "settling"
    /\ flight[cancel.run] = None \/ cancel.run \in seen.stale
    /\ cancel' = NoCancel
    /\ \E list \in {seen.list, run} :
          /\ seen' = [seen EXCEPT !.list = list]
          /\ selected' = FollowActive(list, selected)
    /\ UNCHANGED <<run, flight, exec, quick>>

----------------------------------------------------------------------------
(* Execute requests *)

Pending(from) ==
    \E k \in Requests : exec[k].pc \in {"sent", "answered"} /\ exec[k].from \in from
Main == {"button", "rerun"}

\* Which record a request takes does not matter.
Free(k) == \A j \in Requests : exec[j].pc = "idle" <=> j >= k

Call(k, pc, from) == exec' = [exec EXCEPT ![k] = [pc |-> pc, from |-> from, run |-> 0]]

\* The button "Run skill in sandbox".
PressRun(k) ==
    /\ Free(k)
    /\ ~Pending(Main) /\ ~HasActive(seen.list)
    /\ Call(k, "sent", "button")
    /\ UNCHANGED <<run, seen, flight, selected, cancel, quick>>

\* handleRerun calls the handleExecute of this render 50 ms later.
Rerun(k) ==
    /\ Free(k)
    /\ Shown(selected) # None /\ ~Pending(Main)
    /\ Call(k, "timer", "rerun")
    /\ UNCHANGED <<run, seen, flight, selected, cancel, quick>>

\* The inputs may be invalid, or gone when the dialog was closed meanwhile.
TimerFires(k) ==
    /\ exec[k].pc = "timer"
    /\ \/ exec' = [exec EXCEPT ![k].pc = "sent"]
       \/ exec' = [exec EXCEPT ![k] = Over]
    /\ UNCHANGED <<run, seen, flight, selected, cancel, quick>>

\* useExecuteSkill fetches the list again before the handler goes on and
\* selects the run; that fetch may fail.
Answered(k) ==
    /\ exec[k].pc = "answered" /\ exec[k].from \in Main
    /\ exec' = [exec EXCEPT ![k] = Over]
    /\ \E list \in {seen.list, run} :
          /\ seen' = [seen EXCEPT !.list = list]
          /\ selected' = FollowActive(list, exec[k].run)
    /\ UNCHANGED <<run, flight, cancel, quick>>

----------------------------------------------------------------------------
(* The quick test of the IDE *)

\* handleTestRun.
QuickTest(k) ==
    /\ Free(k)
    /\ ~Pending({"quick"}) /\ ~quick
    /\ Call(k, "sent", "quick")
    /\ UNCHANGED <<run, seen, flight, selected, cancel, quick>>

\* The effect of the answer starts to poll while the run is active.
QuickAnswered(k) ==
    /\ exec[k].pc = "answered" /\ exec[k].from = "quick"
    /\ exec' = [exec EXCEPT ![k] = Over]
    /\ quick' = (run[exec[k].run] \in ActiveStatuses)
    /\ \E list \in {seen.list, run} :
          /\ seen' = [seen EXCEPT !.list = list]
          /\ selected' = FollowActive(list, selected)
    /\ UNCHANGED <<run, flight, cancel>>

\* The poll asks /skills/<slug>/runs/<id> of the site, not of the API: what comes
\* back is no run, and the poll gives up.
QuickPollFails ==
    /\ quick
    /\ quick' = FALSE
    /\ UNCHANGED <<run, seen, flight, selected, cancel, exec>>

----------------------------------------------------------------------------

Next ==
    \/ PollRuns \/ QuickPollFails
    \/ ServerCancels \/ CancelFails \/ CancelAnswered \/ CancelSettles
    \/ \E r \in RunIds :
          \/ RunEnds(r) \/ FetchRun(r) \/ RunArrives(r) \/ FetchFails(r) \/ SelectRun(r)
          \/ PressCancel(r)
    \/ \E k \in Requests :
          \/ ServerExecutes(k) \/ ServerRefuses(k) \/ PressRun(k) \/ Rerun(k)
          \/ TimerFires(k) \/ Answered(k) \/ QuickTest(k) \/ QuickAnswered(k)

Spec == Init /\ [][Next]_vars

\* The browser's timers go on and the API answers in the end.
Fairness ==
    /\ WF_vars(PollRuns)
    /\ \A r \in RunIds : WF_vars(FetchRun(r)) /\ SF_vars(RunArrives(r))

FairSpec == Spec /\ Fairness

----------------------------------------------------------------------------
(* Properties *)


\* A run that the tab's own query has shown as ended is shown as active again only by the
\* one fetch that was under way when the cancel was answered while another run was selected:
\* no other poll brings back what it read before the run ended.
EndedStaysEnded ==
    [][\A r \in RunIds : seen.run[r] \in Ended =>
          seen'.run[r] \in Ended \/ (r \in seen.stale /\ r \notin seen'.stale)]_vars

=============================================================================
