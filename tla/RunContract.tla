---------------------------- MODULE RunContract ----------------------------
(***************************************************************************)
(* What the execution service promises about a run, without saying how:    *)
(* an immediate run is charged to one day's quota before anything of it is *)
(* executed, its secrets are released to at most one execution attempt,    *)
(* and its entrypoint is started at most once, by a job that was given     *)
(* them.  SkillExecution implements it.                                    *)
(***************************************************************************)
EXTENDS Integers, FiniteSets

CONSTANTS Runs, Days, Attempts, MaxRunsPerDay

VARIABLES
    chargedOn,  \* the day whose quota a run used, 0 when none
    released,   \* the attempts of a run that were given its secrets
    started     \* how often the run's entrypoint was started

contractVars == <<chargedOn, released, started>>

Init ==
    /\ chargedOn = [r \in Runs |-> 0]
    /\ released = [r \in Runs |-> {}]
    /\ started = [r \in Runs |-> 0]

\* A day's quota is charged for at most MaxRunsPerDay runs.
Charge(r, d) ==
    /\ chargedOn[r] = 0
    /\ Cardinality({q \in Runs : chargedOn[q] = d}) < MaxRunsPerDay
    /\ chargedOn' = [chargedOn EXCEPT ![r] = d]
    /\ UNCHANGED <<released, started>>

Release(r, a) ==
    /\ chargedOn[r] # 0
    /\ released[r] = {}
    /\ released' = [released EXCEPT ![r] = {a}]
    /\ UNCHANGED <<chargedOn, started>>

Start(r) ==
    /\ released[r] # {}
    /\ started[r] = 0
    /\ started' = [started EXCEPT ![r] = 1]
    /\ UNCHANGED <<chargedOn, released>>

Next ==
    \E r \in Runs :
        \/ \E d \in Days : Charge(r, d)
        \/ \E a \in Attempts : Release(r, a)
        \/ Start(r)

Spec == Init /\ [][Next]_contractVars

=============================================================================
