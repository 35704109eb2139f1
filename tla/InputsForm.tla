------------------------------ MODULE InputsForm ------------------------------
(***************************************************************************)
(* The inputs of a run (components/skills/execution/InputsForm.tsx): a     *)
(* form made from the input schema and a JSON text, two views of one value *)
(* that the user may switch between, and what serialize hands to the run.  *)
(*                                                                         *)
(* A field's value is reduced to what validation tells apart: absent, the  *)
(* empty string, good or bad for its kind.  A JSON text is an object, some *)
(* other JSON value (Scalar) or no JSON at all (Broken).  An object may    *)
(* have one key that the schema does not describe.                         *)
(***************************************************************************)
CONSTANTS
    Fields,     \* the properties of the input schema
    Required,   \* those it requires
    Extra,      \* a key it does not describe
    Default,    \* [Fields -> {"absent", "good"}]: the defaults
    Example,    \* [Fields -> {"absent", "empty", "good"}]: what buildExample gives
    Scalar, Broken,  \* texts that are no object
    None        \* nothing was sent

FieldValues == {"absent", "empty", "good", "bad"}
Keys == Fields \cup {Extra}
Objects == {o \in [Keys -> FieldValues] : o[Extra] \in {"absent", "good"}}
Texts == Objects \cup {Scalar, Broken}

VARIABLES
    described,  \* the schema describes fields (it is fetched again with the spec)
    mode,       \* "form" or "json"
    value,      \* the value of the form
    jsonText,
    jsonError,  \* an error is shown under the text
    sent        \* what serialize returned in this step, and the view it was read from

vars == <<described, mode, value, jsonText, jsonError, sent>>

Lift(f) == [k \in Keys |-> IF k = Extra THEN "absent" ELSE f[k]]
EmptyObject == [k \in Keys |-> "absent"]

Present(v) == v \notin {"absent", "empty"}

\* Variant: an empty string counts as a value.
ValidateEmptyToo(object) ==
    IF described
    THEN {f \in Fields : IF object[f] # "absent" THEN object[f] = "bad" ELSE f \in Required}
    ELSE {}

\* The fields with an error.  There is nothing to check without a schema.
ValidateAgainstSchema(object) ==
    IF described
    THEN {f \in Fields : IF Present(object[f]) THEN object[f] = "bad" ELSE f \in Required}
    ELSE {}

\* What the run button looks at.
HasErrors == IF mode = "json" THEN jsonError ELSE ValidateAgainstSchema(value) # {}

TypeOK ==
    /\ described \in BOOLEAN
    /\ mode \in {"form", "json"}
    /\ value \in Objects
    /\ jsonText \in Texts
    /\ jsonError \in BOOLEAN
    /\ sent = None \/ sent \in {"form", "json"} \X Objects

Init ==
    /\ described \in BOOLEAN
    /\ mode = IF described THEN "form" ELSE "json"
    /\ value = IF described THEN Lift(Default) ELSE EmptyObject
    /\ jsonText = value
    /\ jsonError = FALSE
    /\ sent = None

\* Most handlers set the value, show it as text and clear the error.
Put(object) ==
    /\ value' = object
    /\ jsonText' = object
    /\ jsonError' = FALSE

----------------------------------------------------------------------------
(* Handlers *)

\* The schema gains or loses its fields; what was entered stays.  Without fields
\* the effect drops into JSON mode.
SchemaChanges ==
    /\ described' = ~described
    /\ mode' = IF described' THEN mode ELSE "json"
    /\ UNCHANGED <<value, jsonText, jsonError>>
    /\ sent' = None

SetMode ==
    /\ described
    /\ mode' = IF mode = "form" THEN "json" ELSE "form"
    /\ UNCHANGED <<described, value, jsonText, jsonError>>
    /\ sent' = None

\* Variant: the text is left behind.
UpdateFieldOnly(f, v) ==
    /\ mode = "form" /\ described
    /\ value' = [value EXCEPT ![f] = v]
    /\ UNCHANGED <<described, mode, jsonText, jsonError>>
    /\ sent' = None

\* updateField leaves the error of the text alone.
UpdateField(f, v) ==
    /\ mode = "form" /\ described
    /\ value' = [value EXCEPT ![f] = v]
    /\ jsonText' = value'
    /\ UNCHANGED <<described, mode, jsonError>>
    /\ sent' = None

HandleJsonChange(text) ==
    /\ mode = "json"
    /\ jsonText' = text
    /\ jsonError' = (text \notin Objects)
    /\ value' = IF text \in Objects THEN text ELSE value
    /\ UNCHANGED <<described, mode>>
    /\ sent' = None

\* The error is cleared for any JSON, an object or not.
HandleFormatJson ==
    /\ mode = "json"
    /\ jsonError' = (jsonText = Broken)
    /\ UNCHANGED <<described, mode, value, jsonText>>
    /\ sent' = None

HandleLoadExample ==
    /\ Put(IF described THEN Lift(Example) ELSE EmptyObject)
    /\ UNCHANGED <<described, mode>>
    /\ sent' = None

HandleClear ==
    /\ Put(EmptyObject)
    /\ UNCHANGED <<described, mode>>
    /\ sent' = None

\* "Rerun" puts the inputs of an earlier run into the form.
SetValue(object) ==
    /\ Put(object)
    /\ UNCHANGED <<described, mode>>
    /\ sent' = None

----------------------------------------------------------------------------
(* serialize *)

\* Optional fields that are empty are left out, keys without a field, too.
Cleaned ==
    [k \in Keys |->
        IF k = Extra \/ (k \notin Required /\ value[k] = "empty")
        THEN "absent" ELSE value[k]]

SerializeText ==
    /\ mode = "json"
    /\ jsonError' = (jsonText \notin Objects \/ jsonError)
    /\ sent' = IF jsonText \in Objects THEN <<"json", jsonText>> ELSE None
    /\ UNCHANGED <<described, mode, value, jsonText>>

SerializeForm ==
    /\ mode = "form"
    /\ ValidateAgainstSchema(value) = {}
    /\ sent' = <<"form", Cleaned>>
    /\ UNCHANGED <<described, mode, value, jsonText, jsonError>>

Next ==
    \/ SchemaChanges \/ SetMode \/ HandleFormatJson \/ HandleLoadExample \/ HandleClear
    \/ SerializeText \/ SerializeForm
    \/ \E f \in Fields, v \in FieldValues : UpdateField(f, v)
    \/ \E text \in Texts : HandleJsonChange(text)
    \/ \E object \in Objects : SetValue(object)

Spec == Init /\ [][Next]_vars

----------------------------------------------------------------------------
(* Properties *)

\* Form and text never disagree: when the text is an object, it is the value of the form,
\* so that changing the view, then running, sends what was entered last.
ViewsAgree == jsonText \in Objects => jsonText = value

\* What the form sends has every required field, and no field of the wrong kind, though
\* serialize removes values after it has validated them.
FormPayloadValid ==
    sent # None /\ sent[1] = "form" =>
        \A f \in Fields : /\ sent[2][f] # "bad"
                          /\ f \in Required => sent[2][f] = "good"

=============================================================================
