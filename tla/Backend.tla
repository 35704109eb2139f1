-------------------------------- MODULE Backend --------------------------------
(***************************************************************************)
(* The writing side of the backend, put together: publishing and indexing  *)
(* (SkillPublishing), which this module extends, and the requests that     *)
(* write versions (SkillVersions).  They share no state: each behaviour is *)
(* one of one of them, named by part, while the other stays in an initial  *)
(* state.                                                                  *)
(***************************************************************************)
EXTENDS SkillPublishing

CONSTANTS Requests, Contents, Sanitized, Paths, Blobs,        \* of SkillVersions
          NoFile, NoRow, Unsubmitted

VARIABLES part, version, request

Writers == INSTANCE SkillVersions

writers == <<version, request>>

\* The assumptions of SkillVersions.
ASSUME WritersAssumption ==
    /\ Sanitized \in [Contents -> Contents]
    /\ NoFile \notin Blobs
    /\ NoRow \notin Blobs \cup {NoFile}
    /\ None \notin Requests \cup Contents
    /\ Unsubmitted \notin [Paths -> Blobs \cup {NoFile}]

BackendInit == Init /\ Writers!Init /\ part \in {"versions", "publishing"}

BackendNext ==
    \/ part = "versions" /\ Writers!Next /\ UNCHANGED <<part, vars>>
    \/ part = "publishing" /\ Next /\ UNCHANGED <<part, writers>>

BackendSpec == BackendInit /\ [][BackendNext]_<<part, vars, writers>>

\* The fairness of the two parts.
BackendFairness ==
    /\ \A r \in Requests : WF_writers(Writers!Proceed(r))
    /\ Fairness

----------------------------------------------------------------------------

\* The variables of the two modules have their types.
BackendTypeOK == TypeOK /\ Writers!TypeOK

\* Every transaction of a writer ends (SkillVersions).
EveryRequestEnds == Writers!EveryRequestEnds

=============================================================================
