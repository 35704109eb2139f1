-------------------------- MODULE MCSkillExecution --------------------------
(* Instances of SkillExecution for TLC. *)
EXTENDS SkillExecution, TLC

CONSTANTS r1, r2, r3, safe, risky, none

OneRun == {r1}
TwoRuns == {r1, r2}
ThreeRuns == {r1, r2, r3}

TwoVersions == {safe, risky}
RiskyVersions == {risky}
OneVersion == {safe}
NoVersions == {}

CloudRun == {"cloud_run_jobs"}
RecordOnly == {"record_only"}
AllBackends == {"cloud_run_jobs", "inline_echo", "record_only"}

\* The races of several requests are those of the local backends.  On Cloud Run there is
\* one request, of one day and before anything is published, that is neither cancelled nor
\* outlived by its token, with one callback at a time.
CloudRunIsAlone ==
    backend = "cloud_run_jobs" =>
        /\ Cardinality({r \in Runs : request[r] # NoRequest}) <= 1
        /\ today = 1 /\ current = safe
        /\ \A r \in Runs :
               /\ cancel[r] = NoCancel /\ token[r] # "expired"
               /\ Cardinality({s \in Attempts \X CallbackKinds :
                      callback[r][s[1]][s[2]].pc \in {"sent", "read"}}) <= 1

RunSymmetry == Permutations(Runs)

=============================================================================
