------------------------------ MODULE CiGate ------------------------------
(***************************************************************************)
(* Continuous integration of a pull request: the job graph of              *)
(* .github/workflows/ci.yml, the scripts of tools/ci that decide what a    *)
(* run has to do (classify_ci_scope), what its final status is             *)
(* (evaluate_ci_gate) and whether workflow, evaluator and repository       *)
(* settings still fit together (check_ci_economy_policy,                   *)
(* check_full_ci_environment, check_branch_protection_drift), and the      *)
(* pushes, cancellations, repeated runs and merges around them.            *)
(*                                                                         *)
(* A job reads what it depends on at one moment and is one step.  A run    *)
(* keeps the payload of the event that triggered it, and asks for the      *)
(* files of the pull request when its scope job runs.                      *)
(*                                                                         *)
(* Definitions whose name begins with Faulty are no part of the model:     *)
(* each is the definition beside it with one plausible programming   *)
(* error, kept to see which properties would notice it.                    *)
(***************************************************************************)
EXTENDS Integers, Sequences, FiniteSets

CONSTANTS
  TestJobs,    \* base jobs but scope and python-tooling: rust-core, ts-full, ...
  MainJobs,    \* fuzz-smoke, verify-script-smoke
  ExtraJobs,   \* jobs a commit may add to the workflow
  SafeNames,   \* file names under SAFE_PREFIXES or in SAFE_FILES
  OtherNames,  \* all other file names
  None,        \* null, an empty output, a missing context
  Commits,     \* what a push may bring
  Unstable,    \* expectations on the settings that somebody may break
  PageLimit,   \* files the pull request API lists at most
  MaxPushes,   \* bound: pushes to the pull request
  MaxRuns,     \* bound: workflow runs of the pull request
  MaxMainRuns, \* bound: workflow runs of the main branch
  MaxIncidents \* bound: jobs that fail for reasons of their own, runs that
               \* are started again, and changes of repository settings

APPROVAL_JOB == "full-ci-approval"
FullJobs == {"sdk-platform", "evidence-bundle"}
BaseJobs == {"scope", "python-tooling"} \cup TestJobs

(* The jobs of the workflow as the repository has it, without ci-gate.     *)
Upstream == BaseJobs \cup FullJobs \cup MainJobs \cup {APPROVAL_JOB}
Job == Upstream \cup ExtraJobs

KNOWN_RESULTS == {"success", "failure", "cancelled", "skipped"}

(* A row of the pull request's list of changed files.                      *)
Name == SafeNames \cup OtherNames
Row == [filename : Name, previous : Name \cup {None}]

(* What the policy scripts look for in the text of workflow and documents. *)
Contract ==
  {"job conditions", "upload retention", "hosted runners",
   "required context", "ruleset token", "owner settings"}

(* The constants of evaluate_ci_gate.py in a commit.                       *)
Evaluator ==
  [BASE_JOBS : SUBSET Job, FULL_JOBS : SUBSET Job, MAIN_JOBS : SUBSET Job]

Commit ==
  [files     : Seq(Row),        \* changed against the base branch
   jobs      : SUBSET Job,      \* jobs of its workflow
   needs     : SUBSET Job,      \* needs of ci-gate
   args      : SUBSET Job,      \* --job arguments of ci-gate
   evaluator : Evaluator,
   keeps     : SUBSET Contract]

(* What check_branch_protection_drift and check_full_ci_environment expect *)
(* of the settings.                                                        *)
RulesetExpectations ==
  {"one active ruleset", "default branch included", "no bypass actors",
   "active rules", "pull request parameters", "required checks", "strict",
   "enforced on create"}
EnvironmentExpectations ==
  {"name", "no branch restriction", "one reviewer rule", "no other rule",
   "self review", "reviewers"}
Settings == RulesetExpectations \cup EnvironmentExpectations

(* What the answers to the token of a run leave out: only who may write a  *)
(* ruleset is told of its bypass actors.                                   *)
Unseen == {"no bypass actors"}

(* The settings without which a head is merged whatever "CI gate" says.    *)
Enforcing ==
  {"one active ruleset", "default branch included", "active rules", "required checks"}

ASSUME CiConstants ==
  /\ Commits \subseteq Commit
  /\ \A c \in Commits : c.needs \subseteq c.jobs   \* or the workflow is invalid
  /\ None \notin Name /\ SafeNames \cap OtherNames = {}
  /\ ExtraJobs \cap Upstream = {}                  \* jobs are keys of a mapping
  /\ TestJobs \cap MainJobs = {}
  /\ (TestJobs \cup MainJobs)
       \cap ({"scope", "python-tooling", APPROVAL_JOB} \cup FullJobs) = {}
  /\ Unstable \subseteq Settings
  /\ PageLimit \in Nat
  /\ {MaxPushes, MaxRuns, MaxMainRuns, MaxIncidents} \subseteq Nat

VARIABLES
  history,   \* the heads of the pull request, oldest first
  runs,      \* workflow runs, oldest first
  context,   \* what "CI gate" says of each head
  merged,    \* the head that was merged, with what its context said
  settings,  \* expectations the repository's settings meet
  version,   \* how often the settings were changed
  incidents  \* failures, repeated runs and changed settings so far

vars == <<history, runs, context, merged, settings, version, incidents>>

Newest == Len(history)

Results == KNOWN_RESULTS \cup {"waiting", "absent"}
Events == {"pull_request", "push", "workflow_dispatch"}

Run ==
  [event     : Events,
   head      : 1..MaxPushes,         \* which head's commit it checks out
   count     : Nat,                  \* changed_files in the event's payload
   born      : 0..MaxIncidents,        \* version of the settings at the event
   cancelled : BOOLEAN,
   full      : BOOLEAN \cup {None},  \* output full_required of scope
   job       : [Job -> Results],
   gate      : {"waiting", "success", "failure"}]

Verdict ==
  [gate : {"success", "failure"},
   full : BOOLEAN \cup {None},
   job  : [Job -> Results]]

TypeOK ==
  /\ history \in Seq(Commits) /\ Newest \in 0..MaxPushes
  /\ runs \in Seq(Run)
  /\ \A r \in DOMAIN runs : runs[r].head <= Newest
  /\ context \in [1..MaxPushes -> Verdict \cup {None}]
  /\ \A h \in 1..MaxPushes : context[h] # None => h <= Newest
  /\ merged # None =>
       merged \in [head : 1..Newest, gated : BOOLEAN, seen : Verdict \cup {None}]
  /\ settings \subseteq Settings
  /\ version \in 0..MaxIncidents
  /\ incidents \in 0..MaxIncidents

-----------------------------------------------------------------------------
(* classify_ci_scope.py *)

(* pulls/N/files: the changed files, up to the limit of the API.           *)
Listed(files) ==
  SubSeq(files, 1, IF Len(files) <= PageLimit THEN Len(files) ELSE PageLimit)

(* extract_filenames raises on an empty list and on a list of another      *)
(* length than the payload's.                                              *)
FaultyExtractable(rows, expected_count) == Len(rows) > 0
Extractable(rows, expected_count) == Len(rows) > 0 /\ Len(rows) = expected_count

Filenames(rows) ==
  {rows[i].filename : i \in DOMAIN rows}
    \cup ({rows[i].previous : i \in DOMAIN rows} \ {None})

requires_full_ci(filenames) == \E f \in filenames : f \notin SafeNames

Classify(event, rows, expected_count) ==
  IF event # "pull_request" THEN TRUE
  ELSE IF Extractable(rows, expected_count) THEN requires_full_ci(Filenames(rows))
  ELSE None

-----------------------------------------------------------------------------
(* evaluate_ci_gate.py *)

ALLOWED_JOBS(e) == e.BASE_JOBS \cup e.FULL_JOBS \cup e.MAIN_JOBS \cup {APPROVAL_JOB}

(* parse_jobs takes what the step passes as --job; the result of a job     *)
(* ci-gate does not need would be the empty text.                          *)
parse_jobs(c) == c.args \subseteq ALLOWED_JOBS(c.evaluator) \cap c.needs

require_result(jobs, names, expected) ==
  \A j \in names : j \in DOMAIN jobs /\ jobs[j] = expected

Evaluate(e, event, full_required, jobs) ==
  /\ require_result(jobs, e.BASE_JOBS, "success")
  /\ IF event = "pull_request"
     THEN /\ require_result(jobs, e.FULL_JOBS \cup {APPROVAL_JOB},
                            IF full_required THEN "success" ELSE "skipped")
          /\ require_result(jobs, e.MAIN_JOBS, "skipped")
     ELSE /\ full_required
          /\ require_result(jobs, {APPROVAL_JOB}, "skipped")
          /\ require_result(jobs, e.FULL_JOBS \cup e.MAIN_JOBS, "success")

(* main of the evaluator, as the step of ci-gate calls it.                 *)
GatePasses(c, run) ==
  /\ run.full # None
  /\ parse_jobs(c)
  /\ Evaluate(c.evaluator, run.event, run.full, [j \in c.args |-> run.job[j]])

-----------------------------------------------------------------------------
(* The policy scripts of the python-tooling job *)

check_ci_workflow(c) == {"job conditions", "upload retention"} \subseteq c.keeps
check_no_self_hosted(c) == "hosted runners" \in c.keeps
check_required_context(c) == "required context" \in c.keeps
check_ruleset_token_contract(c) == "ruleset token" \in c.keeps
check_owner_settings_contract(c) == "owner settings" \in c.keeps

(* Workflow, needs, arguments and evaluator name the same jobs.            *)
FaultyParity(c) ==
  \A jobs \in {c.jobs, c.needs, c.args} : ALLOWED_JOBS(c.evaluator) \subseteq jobs
check_ci_gate_job_parity(c) ==
  \A jobs \in {c.jobs, c.needs, c.args} : jobs = ALLOWED_JOBS(c.evaluator)

EconomyPolicy(c) ==
  /\ check_ci_workflow(c)
  /\ check_ci_gate_job_parity(c)
  /\ check_no_self_hosted(c)
  /\ check_ruleset_token_contract(c)
  /\ check_owner_settings_contract(c)
  /\ check_required_context(c)

(* A ruleset without the field bypass_actors passes, as one with no actors.*)
check_branch_protection_drift == RulesetExpectations \ Unseen \subseteq settings
validate_environment == EnvironmentExpectations \subseteq settings

(* The action of the job asks for the settings on pushes to main only; the *)
(* owner-only settings are left to the script that applies them.           *)
FaultyPolicyPasses(c, event) ==
  /\ EconomyPolicy(c)
  /\ event = "push" => validate_environment
PolicyPasses(c, event) ==
  /\ EconomyPolicy(c)
  /\ event = "push" => check_branch_protection_drift /\ validate_environment

-----------------------------------------------------------------------------
(* The job graph of ci.yml *)

Needs(c, j) ==
  c.jobs \cap
    CASE j \in MainJobs          -> {"scope"}
      [] j = APPROVAL_JOB        -> BaseJobs
      [] j = "sdk-platform"      -> {"scope", APPROVAL_JOB}
      [] j = "evidence-bundle"   -> BaseJobs \cup {"sdk-platform"}
      [] OTHER                   -> {}

(* The if of a job, once its needs have ended.  A commit that gives the    *)
(* conditions up leaves the default: all needs succeeded.                  *)
JobCondition(c, run, j) ==
  LET succeeded(jobs) == \A k \in jobs \cap c.jobs : run.job[k] = "success"
      pr == run.event = "pull_request"
      kept == "job conditions" \in c.keeps
  IN  CASE kept /\ j \in MainJobs      -> succeeded({"scope"}) /\ ~pr
        [] kept /\ j = APPROVAL_JOB    ->
             pr /\ succeeded(BaseJobs) /\ run.full = TRUE
        [] kept /\ j = "sdk-platform"  ->
             /\ succeeded({"scope"})
             /\ pr => run.full = TRUE /\ succeeded({APPROVAL_JOB})
        [] kept /\ j = "evidence-bundle" ->
             succeeded((BaseJobs \ {"scope"}) \cup {"sdk-platform"})
        [] OTHER                       -> succeeded(Needs(c, j))

Ended(run) ==
  run.gate # "waiting" /\ \A j \in Job : run.job[j] # "waiting"
Started(run) ==
  run.gate # "waiting" \/ \E j \in Job : run.job[j] \in KNOWN_RESULTS

(* The concurrency group of the pull request runs one workflow at a time.  *)
Turn(r) ==
  runs[r].event = "pull_request" =>
    \A q \in DOMAIN runs \ {r} :
      runs[q].event = "pull_request" => Ended(runs[q]) \/ ~Started(runs[q])

(* cancel-in-progress: a new run cancels what the group has not finished.  *)
CancelGroup(all) ==
  [r \in DOMAIN all |->
     IF all[r].event = "pull_request" /\ ~Ended(all[r])
     THEN [all[r] EXCEPT !.cancelled = TRUE] ELSE all[r]]

RunsOf(pr) == {r \in DOMAIN runs : (runs[r].event = "pull_request") = pr}
MayTrigger(pr) ==
  Cardinality(RunsOf(pr)) < IF pr THEN MaxRuns ELSE MaxMainRuns

FaultyNewRun(c, event, h) ==
  [event |-> event, head |-> h + 1, count |-> Len(c.files), born |-> version,
   cancelled |-> FALSE, full |-> None,
   job |-> [j \in Job |-> IF j \in c.jobs THEN "waiting" ELSE "absent"],
   gate |-> "waiting"]
NewRun(c, event, h) ==
  [event |-> event, head |-> h, count |-> Len(c.files), born |-> version,
   cancelled |-> FALSE, full |-> None,
   job |-> [j \in Job |-> IF j \in c.jobs THEN "waiting" ELSE "absent"],
   gate |-> "waiting"]

-----------------------------------------------------------------------------
Init ==
  /\ history = <<>> /\ runs = <<>> /\ merged = None
  /\ context = [h \in 1..MaxPushes |-> None]
  /\ settings = Settings /\ version = 0
  /\ incidents = 0

(* The pull request is opened, or synchronised by a push.                  *)
Push(c) ==
  /\ merged = None /\ Newest < MaxPushes /\ MayTrigger(TRUE)
  /\ history' = Append(history, c)
  /\ runs' = Append(CancelGroup(runs), NewRun(c, "pull_request", Newest + 1))
  /\ UNCHANGED <<context, merged, settings, version, incidents>>

(* reopened: the same head again.                                          *)
Reopen ==
  /\ merged = None /\ Newest > 0 /\ MayTrigger(TRUE)
  /\ runs' = Append(CancelGroup(runs),
                    NewRun(history[Newest], "pull_request", Newest))
  /\ UNCHANGED <<history, context, merged, settings, version, incidents>>

(* Merging needs the context "CI gate" on the head, as long as the ruleset *)
(* of apply_branch_protection.sh is in force; a bypass actor needs nothing.*)
Merge(gated) ==
  LET required == Enforcing \subseteq settings
  IN  /\ merged = None /\ Newest > 0 /\ MayTrigger(FALSE)
      /\ gated => required /\ context[Newest] # None /\ context[Newest].gate = "success"
      /\ required /\ "no bypass actors" \in settings => gated
      /\ merged' = [head |-> Newest, gated |-> gated, seen |-> context[Newest]]
      /\ runs' = Append(runs, NewRun(history[Newest], "push", Newest))
      /\ UNCHANGED <<history, context, settings, version, incidents>>

(* The workflow is started by hand on main (bound: when no run goes on).   *)
Dispatch ==
  /\ merged # None /\ MayTrigger(FALSE)
  /\ \A r \in DOMAIN runs : Ended(runs[r])
  /\ runs' = Append(runs, NewRun(history[merged.head], "workflow_dispatch",
                                 merged.head))
  /\ UNCHANGED <<history, context, merged, settings, version, incidents>>

Incident == incidents < MaxIncidents /\ incidents' = incidents + 1

(* All jobs of a finished run are started again, with the payload of then. *)
Rerun(r) ==
  /\ Ended(runs[r]) /\ Incident
  /\ runs' = [IF runs[r].event = "pull_request" THEN CancelGroup(runs) ELSE runs
                EXCEPT
                ![r] = [NewRun(history[runs[r].head], runs[r].event, runs[r].head)
                        EXCEPT !.born = runs[r].born]]
  /\ UNCHANGED <<history, context, merged, settings, version>>

(* The settings are changed by hand.                                       *)
ChangeSettings ==
  /\ Incident
  /\ version' = version + 1
  /\ settings' \in {settings \ {e} : e \in Unstable} \cup {Settings}
  /\ settings' # settings
  /\ UNCHANGED <<history, runs, context, merged>>

-----------------------------------------------------------------------------
(* Jobs *)

CommitOf(r) == history[runs[r].head]
Waiting(r, j) == runs[r].job[j] = "waiting"
NeedsEnded(r, j) == \A k \in Needs(CommitOf(r), j) : ~Waiting(r, k)
Runnable(r, j) ==
  /\ Waiting(r, j) /\ Turn(r) /\ NeedsEnded(r, j)
  /\ JobCondition(CommitOf(r), runs[r], j)

JobEnds(r, j, result) ==
  /\ runs' = [runs EXCEPT ![r].job[j] = result]
  /\ UNCHANGED <<history, context, merged, settings, version>>

(* scope lists the files of the pull request as it is now, and compares    *)
(* their number with the event's.                                          *)
RunScope(r) ==
  LET event == runs[r].event
      full == Classify(event, Listed(history[Newest].files), runs[r].count)
  IN  /\ Runnable(r, "scope")
      /\ runs' = [runs EXCEPT
                    ![r].full = full,
                    ![r].job["scope"] = IF full = None THEN "failure" ELSE "success"]
      /\ UNCHANGED <<history, context, merged, settings, version, incidents>>

RunPolicy(r) ==
  /\ Runnable(r, "python-tooling")
  /\ JobEnds(r, "python-tooling",
             IF PolicyPasses(CommitOf(r), runs[r].event) THEN "success"
             ELSE "failure")
  /\ UNCHANGED incidents

(* Builds, tests, and the approval of a reviewer.                          *)
RunJob(r, j) ==
  /\ j \notin {"scope", "python-tooling"} /\ Runnable(r, j)
  /\ JobEnds(r, j, "success")
  /\ UNCHANGED incidents

SkipJob(r, j) ==
  /\ Waiting(r, j) /\ Turn(r) /\ NeedsEnded(r, j)
  /\ ~JobCondition(CommitOf(r), runs[r], j)
  /\ JobEnds(r, j, "skipped")
  /\ UNCHANGED incidents

(* A test fails, a reviewer declines, or a call of gh fails or times out.  *)
FailJob(r, j) ==
  /\ Runnable(r, j) /\ Incident
  /\ JobEnds(r, j, "failure")

(* The cancellation of a superseded run arrives; until then it goes on.    *)
Cancel(r) ==
  /\ runs[r].cancelled /\ Turn(r) /\ \E j \in Job : Waiting(r, j)
  /\ runs' = [runs EXCEPT
                ![r].job = [j \in Job |->
                              IF Waiting(r, j) THEN "cancelled" ELSE runs[r].job[j]]]
  /\ UNCHANGED <<history, context, merged, settings, version, incidents>>

(* ci-gate runs always, once the jobs it needs have ended, and the status  *)
(* of a pull request's run becomes the context of the commit it ran for.   *)
Gate(r) ==
  LET run == runs[r]
      gate == IF GatePasses(CommitOf(r), run) THEN "success" ELSE "failure"
  IN  /\ run.gate = "waiting" /\ Turn(r)
      /\ \A j \in CommitOf(r).needs : ~Waiting(r, j)
      /\ runs' = [runs EXCEPT ![r].gate = gate]
      /\ context' =
           IF run.event = "pull_request"
           THEN [context EXCEPT
                   ![run.head] = [gate |-> gate, full |-> run.full, job |-> run.job]]
           ELSE context
      /\ UNCHANGED <<history, merged, settings, version, incidents>>

(* What a run does of its own, without failures and cancellations.         *)
Proceed(r) ==
  \/ RunScope(r) \/ RunPolicy(r) \/ Gate(r)
  \/ \E j \in Job : RunJob(r, j) \/ SkipJob(r, j)

(* Nothing is left to do until the next event.  Every other state without  *)
(* a step is a deadlock: a gate that waits for a job that never ends, or   *)
(* runs of one group that wait for each other.                             *)
Idle == (\A r \in DOMAIN runs : Ended(runs[r])) /\ UNCHANGED vars

Next ==
  \/ \E c \in Commits : Push(c)
  \/ Reopen \/ Dispatch \/ ChangeSettings \/ Idle
  \/ \E gated \in BOOLEAN : Merge(gated)
  \/ \E r \in DOMAIN runs :
       \/ Rerun(r) \/ Proceed(r) \/ Cancel(r)
       \/ \E j \in Job : FailJob(r, j)

Spec == Init /\ [][Next]_vars

-----------------------------------------------------------------------------
Verified(c, seen) ==
  /\ \A j \in c.evaluator.BASE_JOBS : seen.job[j] = "success"
  /\ requires_full_ci(Filenames(c.files)) =>
       \A j \in c.evaluator.FULL_JOBS \cup {APPROVAL_JOB} : seen.job[j] = "success"

(* A pull request that is merged through the required context has passed   *)
(* every base job and, when its own change asks for them (old names of     *)
(* renamed files included), the approval and the full jobs, although a     *)
(* scope job lists the files of whatever head there is when it runs, runs  *)
(* are superseded, cancelled and repeated, and the list may be cut short.  *)
MergedIsVerified ==
  merged # None /\ merged.gated => Verified(history[merged.head], merged.seen)

(* No job of a commit's workflow, added, renamed or forgotten in one of    *)
(* four places, is left out of a successful gate, as long as the evaluator *)
(* asks for the job that runs the policy scripts.                          *)
NothingUngated ==
  \A h \in 1..Newest :
    LET c == history[h] IN
    /\ context[h] # None /\ context[h].gate = "success"
    /\ "python-tooling" \in c.evaluator.BASE_JOBS
    => \A j \in c.jobs :
         \/ context[h].job[j] = "success"
         \/ context[h].job[j] = "skipped" /\ j \notin c.evaluator.BASE_JOBS

(* A push to main, the one of a merge that went around the gate included,  *)
(* has a successful run only when every setting its token can read is as   *)
(* it should be, unless settings were changed after the push.  (A list of  *)
(* bypass actors is not among them: check_branch_protection_drift takes an *)
(* answer without the field, and a merge by such an actor stays unnoticed.)*)
DriftIsReported ==
  \A r \in DOMAIN runs :
    /\ runs[r].event = "push" /\ runs[r].gate = "success"
    /\ runs[r].born = version
    /\ "python-tooling" \in CommitOf(r).evaluator.BASE_JOBS
    => Settings \ Unseen \subseteq settings
=============================================================================
