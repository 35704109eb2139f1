----------------------------- MODULE SandboxDialog -----------------------------
(***************************************************************************)
(* The sandbox dialog of a skill, put together from its three modules:     *)
(* SkillMiniIde, which this module extends, ExecutionDebugger and          *)
(* InputsForm.  They share no state: each behaviour is one of one of them, *)
(* named by part, while the others stay in one of their initial states.    *)
(***************************************************************************)
EXTENDS SkillMiniIde

CONSTANTS
    MaxRequests,                               \* of ExecutionDebugger
    Fields, Required, Extra, Default, Example, \* of InputsForm
    Scalar, Broken

VARIABLES part,
          run, known, flight, selected, cancel, exec, quick,
          described, mode, value, jsonText, jsonError, sent

debugger == <<run, known, flight, selected, cancel, exec, quick>>
form == <<described, mode, value, jsonText, jsonError, sent>>

Debugger == INSTANCE ExecutionDebugger WITH seen <- known

Form == INSTANCE InputsForm

DialogInit ==
    /\ Init /\ Debugger!Init /\ Form!Init
    /\ part \in {"debugger", "ide", "form"}
    /\ part # "ide" => spec = 1
    /\ part # "form" => described

DialogNext ==
    \/ part = "debugger" /\ Debugger!Next /\ UNCHANGED <<part, vars, form>>
    \/ part = "ide" /\ Next /\ UNCHANGED <<part, debugger, form>>
    \/ part = "form" /\ Form!Next /\ UNCHANGED <<part, debugger, vars>>

DialogSpec == DialogInit /\ [][DialogNext]_<<part, vars, debugger, form>>

DialogFairSpec == DialogSpec /\ Debugger!Fairness

----------------------------------------------------------------------------

\* The variables of the three modules have their types.
DialogTypeOK ==
    /\ part = "debugger" => Debugger!TypeOK
    /\ part = "ide" => TypeOK
    /\ part = "form" => Form!TypeOK


\* A run shown as ended is shown as active again by no poll but the one that was under way
\* when its cancel was answered with another run selected (ExecutionDebugger).
EndedStaysEnded == Debugger!EndedStaysEnded

\* Form and text of the inputs agree (InputsForm).
ViewsAgree == Form!ViewsAgree

\* What the form sends satisfies its schema (InputsForm).
FormPayloadValid == Form!FormPayloadValid

=============================================================================
