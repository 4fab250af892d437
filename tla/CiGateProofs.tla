--------------------------- MODULE CiGateProofs ---------------------------
(***************************************************************************)
(* Theorems about CiGate, for any commits, jobs, names of files, limit of  *)
(* the list of files, and numbers of pushes, runs and incidents.           *)
(***************************************************************************)
EXTENDS CiGate, SequenceTheorems, TLAPS

-----------------------------------------------------------------------------
(* What is true of a run for a commit c of head h, when n is the newest    *)
(* head and the settings are s in version v: its payload is the commit's,  *)
(* its scope is right if it is the newest head's, and its policy job and   *)
(* its gate mean what they say.                                            *)
ScopeIsRight(run, c) ==
  run.full # None => run.full = requires_full_ci(Filenames(c.files))

PolicyIsRight(run, c, v, s) ==
  run.job["python-tooling"] = "success" =>
    /\ EconomyPolicy(c)
    /\ run.event = "push" /\ run.born = v => Settings \ Unseen \subseteq s

GateIsRight(run, c) ==
  /\ run.gate = "success"
  /\ "python-tooling" \in c.evaluator.BASE_JOBS
  => run.job["python-tooling"] = "success"

RunIsRight(run, c, n, v, s) ==
  /\ run.count = Len(c.files)
  /\ run.born <= v
  /\ run.event = "pull_request" /\ run.head = n => ScopeIsRight(run, c)
  /\ PolicyIsRight(run, c, v, s)
  /\ GateIsRight(run, c)

RunsAreRight ==
  \A r \in DOMAIN runs :
    RunIsRight(runs[r], history[runs[r].head], Newest, version, settings)

(* A successful context was computed by the evaluator of its commit from   *)
(* results of jobs that mean what they say.                                *)
ContextIsRight(c, seen) ==
  /\ seen.full # None
  /\ parse_jobs(c)
  /\ Evaluate(c.evaluator, "pull_request", seen.full, [j \in c.args |-> seen.job[j]])
  /\ seen.job["python-tooling"] = "success" => EconomyPolicy(c)

Passed(seen) == seen # None /\ seen.gate = "success"

ContextsAreRight ==
  /\ \A h \in 1..Newest :
       Passed(context[h]) => ContextIsRight(history[h], context[h])
  /\ Newest > 0 /\ Passed(context[Newest]) =>
       ScopeIsRight(context[Newest], history[Newest])

MergeIsRight ==
  merged # None =>
    /\ Newest > 0 /\ merged.head = Newest
    /\ merged.gated =>
         /\ Passed(merged.seen)
         /\ ContextIsRight(history[Newest], merged.seen)
         /\ ScopeIsRight(merged.seen, history[Newest])

(* TypeOK in two parts.                                                    *)
RunsTyped ==
  runs \in Seq(Run) /\ \A r \in DOMAIN runs : runs[r].head <= Newest

OthersTyped ==
  /\ history \in Seq(Commits) /\ Newest \in 0..MaxPushes
  /\ context \in [1..MaxPushes -> Verdict \cup {None}]
  /\ \A h \in 1..MaxPushes : context[h] # None => h <= Newest
  /\ merged # None =>
       merged \in [head : 1..Newest, gated : BOOLEAN, seen : Verdict \cup {None}]
  /\ settings \subseteq Settings
  /\ version \in 0..MaxIncidents /\ incidents \in 0..MaxIncidents

CiInv ==
  /\ TypeOK /\ version <= incidents
  /\ RunsAreRight /\ ContextsAreRight /\ MergeIsRight

-----------------------------------------------------------------------------
(* Types *)

(* What a push, a merge or a dispatch starts is a run (on).                *)
LEMMA NewRunType ==
  ASSUME TypeOK, NEW c \in Commits, NEW e \in Events, NEW h \in 1..MaxPushes
  PROVE  /\ NewRun(c, e, h) \in Run
         /\ NewRun(c, e, h).head = h
BY CiConstants DEF NewRun, Run, TypeOK, Results, Commit

(* cancel-in-progress changes nothing of a run but its cancellation.       *)
LEMMA CancelGroupType ==
  ASSUME TypeOK
  PROVE  /\ CancelGroup(runs) \in Seq(Run)
         /\ DOMAIN CancelGroup(runs) = DOMAIN runs
         /\ \A r \in DOMAIN runs :
              /\ CancelGroup(runs)[r] \in Run
              /\ \E b \in BOOLEAN : CancelGroup(runs)[r] = [runs[r] EXCEPT !.cancelled = b]
<1>1. runs \in [1..Len(runs) -> Run] /\ Len(runs) \in Nat /\ DOMAIN runs = 1..Len(runs)
  BY LenProperties DEF TypeOK
<1>2. ASSUME NEW r \in DOMAIN runs
      PROVE  /\ CancelGroup(runs)[r] \in Run
             /\ \E b \in BOOLEAN : CancelGroup(runs)[r] = [runs[r] EXCEPT !.cancelled = b]
  <2>1. runs[r] \in Run
    BY <1>1, <1>2
  <2>2. runs[r] = [runs[r] EXCEPT !.cancelled = runs[r].cancelled]
    BY <2>1 DEF Run
  <2>3. CASE runs[r].event = "pull_request" /\ ~Ended(runs[r])
    BY <2>1, <2>3 DEF CancelGroup, Run
  <2>4. CASE ~(runs[r].event = "pull_request" /\ ~Ended(runs[r]))
    <3>1. CancelGroup(runs)[r] = runs[r]
      BY <2>4 DEF CancelGroup
    <3>2. runs[r].cancelled \in BOOLEAN
      BY <2>1 DEF Run
    <3>3. QED
      BY <2>1, <2>2, <3>1, <3>2
  <2>5. QED
    BY <2>3, <2>4
<1>3. DOMAIN CancelGroup(runs) = DOMAIN runs
  BY DEF CancelGroup
<1>4. CancelGroup(runs) \in [1..Len(runs) -> Run]
  BY <1>1, <1>2, <1>3 DEF CancelGroup
<1>5. CancelGroup(runs) \in Seq(Run)
  BY <1>1, <1>4, SeqDef
<1>6. QED
  BY <1>2, <1>3, <1>5

(* The sequence of runs with one of them replaced.                         *)
LEMMA OneRun ==
  ASSUME TypeOK, NEW r \in DOMAIN runs, NEW x \in Run
  PROVE  /\ [runs EXCEPT ![r] = x] \in Seq(Run)
         /\ DOMAIN [runs EXCEPT ![r] = x] = DOMAIN runs
         /\ [runs EXCEPT ![r] = x][r] = x
         /\ \A q \in DOMAIN runs \ {r} : [runs EXCEPT ![r] = x][q] = runs[q]
<1>1. runs \in Seq(Run) /\ DOMAIN runs = 1..Len(runs)
  BY LenProperties DEF TypeOK
<1>2. QED
  BY <1>1, ExceptSeq

-----------------------------------------------------------------------------
(* How the sequence of runs changes *)

(* TypeOK, split into what an event that adds a run proves of the runs and  *)
(* the rest.                                                                *)
LEMMA TypeParts == TypeOK <=> RunsTyped /\ OthersTyped
BY DEF TypeOK, RunsTyped, OthersTyped

(* A run that starts says nothing yet.                                     *)
LEMMA NewRunIsRight ==
  ASSUME TypeOK, NEW c \in Commits, NEW e \in Events, NEW h \in 1..MaxPushes,
         NEW n
  PROVE  RunIsRight(NewRun(c, e, h), c, n, version, settings)
<1>1. /\ NewRun(c, e, h).count = Len(c.files) /\ NewRun(c, e, h).born = version
      /\ NewRun(c, e, h).full = None /\ NewRun(c, e, h).gate = "waiting"
      /\ NewRun(c, e, h).job["python-tooling"] # "success"
      /\ version <= version
  BY CiConstants DEF NewRun, TypeOK, Job, Upstream, BaseJobs
<1>2. QED
  BY <1>1 DEF RunIsRight, ScopeIsRight, PolicyIsRight, GateIsRight

(* The same of one that is started again, with its old payload.            *)
LEMMA RepeatedRunIsRight ==
  ASSUME TypeOK, NEW c \in Commits, NEW e \in Events, NEW h \in 1..MaxPushes,
         NEW n, NEW b \in 0..MaxIncidents, b <= version
  PROVE  /\ RunIsRight([NewRun(c, e, h) EXCEPT !.born = b], c, n, version, settings)
         /\ [NewRun(c, e, h) EXCEPT !.born = b] \in Run
         /\ [NewRun(c, e, h) EXCEPT !.born = b].head = h
<1>1. /\ NewRun(c, e, h).count = Len(c.files) /\ NewRun(c, e, h).born = version
      /\ NewRun(c, e, h).full = None /\ NewRun(c, e, h).gate = "waiting"
      /\ NewRun(c, e, h).job["python-tooling"] # "success"
      /\ version <= version
  BY CiConstants DEF NewRun, TypeOK, Job, Upstream, BaseJobs
<1> DEFINE x == [NewRun(c, e, h) EXCEPT !.born = b]
<1>2. /\ x.count = Len(c.files) /\ x.born = b /\ x.full = None /\ x.gate = "waiting"
      /\ x.job["python-tooling"] # "success" /\ x.head = h
  BY <1>1 DEF NewRun
<1>3. x \in Run
  BY NewRunType DEF Run, NewRun
<1>4. QED
  BY <1>2, <1>3 DEF RunIsRight, ScopeIsRight, PolicyIsRight, GateIsRight

(* Appending a run of a head that is there (on, Push included).            *)
LEMMA AddRun ==
  ASSUME CiInv, NEW base, base \in {runs, CancelGroup(runs)},
         NEW e \in Events, NEW h \in 1..MaxPushes, NEW c \in Commits,
         history' \in Seq(Commits), Newest' \in {Newest, Newest + 1},
         \A g \in 1..Newest : history'[g] = history[g],
         h <= Newest', history'[h] = c,
         UNCHANGED <<version, settings>>,
         runs' = Append(base, NewRun(c, e, h))
  PROVE  RunsTyped' /\ RunsAreRight'
<1>1. TypeOK /\ RunsAreRight
  BY DEF CiInv
<1>2. base \in Seq(Run) /\ DOMAIN base = DOMAIN runs
  BY <1>1, CancelGroupType DEF TypeOK
<1>3. NewRun(c, e, h) \in Run /\ NewRun(c, e, h).head = h
  BY <1>1, NewRunType
<1>4. /\ runs' \in Seq(Run) /\ Len(runs') = Len(base) + 1
      /\ \A q \in 1..Len(base) : runs'[q] = base[q]
      /\ runs'[Len(base) + 1] = NewRun(c, e, h)
      /\ DOMAIN runs' = 1..(Len(base) + 1) /\ DOMAIN base = 1..Len(base)
      /\ Len(base) \in Nat
  BY <1>2, <1>3, LenProperties, AppendProperties
<1>5. ASSUME NEW q \in DOMAIN runs'
      PROVE  /\ runs'[q].head <= Newest'
             /\ RunIsRight(runs'[q], history'[runs'[q].head], Newest', version', settings')
  <2>1. CASE q = Len(base) + 1
    <3>1. RunIsRight(NewRun(c, e, h), c, Newest', version, settings)
      BY <1>1, NewRunIsRight DEF TypeOK
    <3>2. QED
      BY <1>3, <1>4, <2>1, <3>1
  <2>2. CASE q \in DOMAIN base
    <3>1. /\ runs[q] \in Run /\ runs[q].head <= Newest /\ Newest \in Nat
          /\ RunIsRight(runs[q], history[runs[q].head], Newest, version, settings)
      BY <1>1, <1>2, <2>2, LenProperties DEF TypeOK, RunsAreRight
    <3>2. PICK b \in BOOLEAN : base[q] = [runs[q] EXCEPT !.cancelled = b]
      <4>1. CASE base = runs
        <5>1. runs[q].cancelled \in BOOLEAN /\ runs[q] = [runs[q] EXCEPT !.cancelled = runs[q].cancelled]
          BY <3>1 DEF Run
        <5>2. QED
          BY <4>1, <5>1
      <4>2. CASE base = CancelGroup(runs)
        BY <1>1, <1>2, <2>2, <4>2, CancelGroupType
      <4>3. QED
        BY <4>1, <4>2
    <3>3. DEFINE x == runs'[q]
    <3>4. /\ x.count = runs[q].count /\ x.born = runs[q].born /\ x.event = runs[q].event
          /\ x.head = runs[q].head /\ x.full = runs[q].full /\ x.job = runs[q].job
          /\ x.gate = runs[q].gate
      BY <1>4, <2>2, <3>1, <3>2 DEF Run
    <3>5. runs[q].head \in 1..Newest
      BY <3>1 DEF Run
    <3>6. history'[x.head] = history[runs[q].head] /\ x.head <= Newest'
      BY <1>1, <3>1, <3>4, <3>5
    <3>7. x.head = Newest' => runs[q].head = Newest
      BY <3>1, <3>4, <3>5
    <3>8. QED
      BY <3>1, <3>4, <3>6, <3>7 DEF RunIsRight, ScopeIsRight, PolicyIsRight, GateIsRight
  <2>3. QED
    BY <1>4, <2>1, <2>2
<1>6. QED
  BY <1>4, <1>5 DEF RunsTyped, RunsAreRight

(* One run goes on.                                                        *)
LEMMA ChangeRun ==
  ASSUME CiInv, NEW r \in DOMAIN runs, NEW x \in Run, x.head = runs[r].head,
         RunIsRight(x, history[x.head], Newest, version, settings),
         UNCHANGED <<history, version, settings>>,
         runs' = [runs EXCEPT ![r] = x]
  PROVE  RunsTyped' /\ RunsAreRight'
<1>1. TypeOK /\ RunsAreRight
  BY DEF CiInv
<1>2. /\ runs' \in Seq(Run) /\ DOMAIN runs' = DOMAIN runs /\ runs'[r] = x
      /\ \A q \in DOMAIN runs \ {r} : runs'[q] = runs[q]
  BY <1>1, OneRun
<1>3. Newest' = Newest
  BY DEF Newest
<1>4. \A q \in DOMAIN runs' : runs'[q].head <= Newest
  BY <1>1, <1>2 DEF TypeOK
<1>5. QED
  BY <1>1, <1>2, <1>3, <1>4 DEF RunsTyped, RunsAreRight

-----------------------------------------------------------------------------
(* What the steps of a run keep *)

(* Everything but the runs is as it was, incidents aside.                  *)
LEMMA RestKept ==
  ASSUME CiInv, RunsTyped', RunsAreRight',
         UNCHANGED <<history, context, merged, settings, version>>,
         incidents' \in 0..MaxIncidents, incidents <= incidents'
  PROVE  CiInv'
<1>1. OthersTyped'
  BY TypeParts DEF CiInv, OthersTyped, Newest
<1>2. TypeOK'
  BY <1>1 DEF TypeOK, RunsTyped, OthersTyped
<1>3. ContextsAreRight' /\ MergeIsRight'
  BY DEF CiInv, ContextsAreRight, MergeIsRight, Newest
<1>4. version' <= incidents'
  BY CiConstants DEF CiInv, TypeOK
<1>5. QED
  BY <1>2, <1>3, <1>4 DEF CiInv

(* Incidents are counted up to their bound (on, FailJob included).          *)
LEMMA IncidentKept ==
  ASSUME CiInv, Incident \/ UNCHANGED incidents
  PROVE  incidents' \in 0..MaxIncidents /\ incidents <= incidents'
BY CiConstants DEF CiInv, TypeOK, Incident

(* A list with as many rows as there are changed files is whole            *)
(* (extract_filenames).                                                    *)
LEMMA ExtractableIsWhole ==
  ASSUME NEW files \in Seq(Row), Extractable(Listed(files), Len(files))
  PROVE  Listed(files) = files
<1>1. Len(files) \in Nat /\ PageLimit \in Nat
  BY CiConstants, LenProperties
<1>2. CASE Len(files) <= PageLimit
  BY <1>1, <1>2, SubSeqFull DEF Listed
<1>3. CASE Len(files) > PageLimit
  <2>1. Listed(files) = SubSeq(files, 1, PageLimit)
    BY <1>1, <1>3 DEF Listed
  <2>2. \A i \in 1..PageLimit : files[i] \in Row
    BY <1>1, <1>3, ElementOfSeq
  <2>3. Len(SubSeq(files, 1, PageLimit)) = IF 1 <= PageLimit THEN PageLimit - 1 + 1 ELSE 0
    BY <1>1, <2>2, SubSeqProperties
  <2>4. QED
    BY <1>1, <1>3, <2>1, <2>3 DEF Extractable
<1>4. QED
  BY <1>1, <1>2, <1>3

(* A run and its commit.                                                   *)
LEMMA RunFacts ==
  ASSUME CiInv, NEW r \in DOMAIN runs
  PROVE  /\ runs[r] \in Run /\ runs[r].head \in 1..Newest
         /\ Newest \in Nat /\ Newest <= MaxPushes
         /\ CommitOf(r) \in Commits /\ CommitOf(r).files \in Seq(Row)
         /\ CommitOf(r) = history[runs[r].head]
         /\ RunIsRight(runs[r], CommitOf(r), Newest, version, settings)
         /\ history[Newest] \in Commits /\ history[Newest].files \in Seq(Row)
<1>1. /\ runs \in Seq(Run) /\ runs[r].head <= Newest /\ history \in Seq(Commits)
      /\ Newest \in 0..MaxPushes /\ MaxPushes \in Nat
  BY CiConstants DEF CiInv, TypeOK
<1>2. runs[r] \in Run
  BY <1>1, LenProperties
<1>3. runs[r].head \in 1..Newest
  BY <1>1, <1>2 DEF Run
<1>4. history[runs[r].head] \in Commits /\ history[Newest] \in Commits
  BY <1>1, <1>3, ElementOfSeq DEF Newest
<1>5. \A c \in Commits : c.files \in Seq(Row)
  BY CiConstants DEF Commit
<1>6. QED
  BY <1>1, <1>2, <1>3, <1>4, <1>5 DEF CiInv, RunsAreRight, CommitOf

(* scope (classify_ci_scope.py).                                           *)
LEMMA RunScopeStep ==
  ASSUME CiInv, NEW r \in DOMAIN runs, RunScope(r)
  PROVE  CiInv'
<1> DEFINE full == Classify(runs[r].event, Listed(history[Newest].files), runs[r].count)
           result == IF full = None THEN "failure" ELSE "success"
           x == [runs[r] EXCEPT !.full = full, !.job["scope"] = result]
<1>1. runs[r] \in Run /\ RunIsRight(runs[r], CommitOf(r), Newest, version, settings)
  BY RunFacts
<1>2. runs' = [runs EXCEPT ![r] = x]
  BY DEF RunScope
<1>3. full \in BOOLEAN \cup {None}
  BY DEF Classify, requires_full_ci
<1>4. result \in Results /\ "scope" \in Job
  BY DEF Results, KNOWN_RESULTS, Job, Upstream, BaseJobs
<1>5. x \in Run
  BY <1>1, <1>3, <1>4 DEF Run
<1>6. /\ x.head = runs[r].head /\ x.count = runs[r].count /\ x.born = runs[r].born
      /\ x.event = runs[r].event /\ x.gate = runs[r].gate /\ x.full = full
      /\ x.job["python-tooling"] = runs[r].job["python-tooling"]
  BY <1>1 DEF Run
<1>7. x.event = "pull_request" /\ x.head = Newest => ScopeIsRight(x, CommitOf(r))
  <2>1. SUFFICES ASSUME runs[r].event = "pull_request", runs[r].head = Newest, full # None
                 PROVE  full = requires_full_ci(Filenames(CommitOf(r).files))
    BY <1>6 DEF ScopeIsRight
  <2>2. history[Newest] = CommitOf(r) /\ CommitOf(r).files \in Seq(Row)
    BY <2>1, RunFacts
  <2>3. runs[r].count = Len(CommitOf(r).files)
    BY <1>1 DEF RunIsRight
  <2>4. /\ Extractable(Listed(CommitOf(r).files), Len(CommitOf(r).files))
        /\ full = requires_full_ci(Filenames(Listed(CommitOf(r).files)))
    BY <2>1, <2>2, <2>3 DEF Classify
  <2>5. QED
    BY <2>2, <2>4, ExtractableIsWhole
<1>8. RunIsRight(x, CommitOf(r), Newest, version, settings)
  BY <1>1, <1>6, <1>7 DEF RunIsRight, PolicyIsRight, GateIsRight
<1>9. RunIsRight(x, history[x.head], Newest, version, settings)
  BY <1>6, <1>8 DEF CommitOf
<1>10. UNCHANGED <<history, context, merged, settings, version, incidents>>
  BY DEF RunScope
<1>11. RunsTyped' /\ RunsAreRight'
  BY <1>2, <1>5, <1>6, <1>9, <1>10, ChangeRun
<1>12. QED
  BY <1>10, <1>11, IncidentKept, RestKept

(* A job ends; the policy job with success only if its scripts pass.       *)
LEMMA JobEndsStep ==
  ASSUME CiInv, NEW r \in DOMAIN runs, NEW j \in Job, NEW result \in KNOWN_RESULTS,
         Waiting(r, j), JobEnds(r, j, result), Incident \/ UNCHANGED incidents,
         j = "python-tooling" /\ result = "success" =>
           PolicyPasses(CommitOf(r), runs[r].event)
  PROVE  CiInv'
<1> DEFINE x == [runs[r] EXCEPT !.job[j] = result]
<1>1. runs[r] \in Run /\ RunIsRight(runs[r], CommitOf(r), Newest, version, settings)
  BY RunFacts
<1>2. runs' = [runs EXCEPT ![r] = x]
  BY DEF JobEnds
<1>3. x \in Run
  BY <1>1 DEF Run, Results
<1>4. /\ x.head = runs[r].head /\ x.count = runs[r].count /\ x.born = runs[r].born
      /\ x.event = runs[r].event /\ x.gate = runs[r].gate /\ x.full = runs[r].full
      /\ j = "python-tooling" => x.job["python-tooling"] = result
      /\ j # "python-tooling" => x.job["python-tooling"] = runs[r].job["python-tooling"]
  BY <1>1 DEF Run
<1>5. PolicyIsRight(x, CommitOf(r), version, settings)
  <2>1. PolicyPasses(CommitOf(r), runs[r].event) =>
          /\ EconomyPolicy(CommitOf(r))
          /\ runs[r].event = "push" => Settings \ Unseen \subseteq settings
    BY DEF PolicyPasses, check_branch_protection_drift, validate_environment, Settings
  <2>2. QED
    BY <1>1, <1>4, <2>1 DEF RunIsRight, PolicyIsRight
<1>6. GateIsRight(x, CommitOf(r))
  <2>1. j = "python-tooling" => runs[r].job["python-tooling"] # "success"
    BY DEF Waiting
  <2>2. QED
    BY <1>1, <1>4, <2>1 DEF RunIsRight, GateIsRight
<1>7. RunIsRight(x, history[x.head], Newest, version, settings)
  BY <1>1, <1>4, <1>5, <1>6 DEF RunIsRight, ScopeIsRight, CommitOf
<1>8. UNCHANGED <<history, context, merged, settings, version>>
  BY DEF JobEnds
<1>9. RunsTyped' /\ RunsAreRight'
  BY <1>2, <1>3, <1>4, <1>7, <1>8, ChangeRun
<1>10. QED
  BY <1>8, <1>9, IncidentKept, RestKept

(* python-tooling succeeds only if workflow, evaluator and, for a push, the *)
(* settings fit together (check_ci_economy_policy.py and the checks beside  *)
(* it).                                                                     *)
LEMMA RunPolicyStep ==
  ASSUME CiInv, NEW r \in DOMAIN runs, RunPolicy(r)
  PROVE  CiInv'
<1> DEFINE result == IF PolicyPasses(CommitOf(r), runs[r].event) THEN "success" ELSE "failure"
<1>1. /\ Waiting(r, "python-tooling") /\ JobEnds(r, "python-tooling", result)
      /\ UNCHANGED incidents
  BY DEF RunPolicy, Runnable
<1>2. "python-tooling" \in Job /\ result \in KNOWN_RESULTS
  BY DEF Job, Upstream, BaseJobs, KNOWN_RESULTS
<1>3. QED
  BY <1>1, <1>2, JobEndsStep

(* The jobs that build, test, fail or are skipped say nothing of scope,     *)
(* policy and gate.                                                         *)
LEMMA OtherJobStep ==
  ASSUME CiInv, NEW r \in DOMAIN runs, NEW j \in Job,
         RunJob(r, j) \/ SkipJob(r, j) \/ FailJob(r, j)
  PROVE  CiInv'
<1>1. CASE RunJob(r, j)
  BY <1>1, JobEndsStep DEF RunJob, Runnable, KNOWN_RESULTS
<1>2. CASE SkipJob(r, j)
  BY <1>2, JobEndsStep DEF SkipJob, KNOWN_RESULTS
<1>3. CASE FailJob(r, j)
  BY <1>3, JobEndsStep DEF FailJob, Runnable, KNOWN_RESULTS
<1>4. QED
  BY <1>1, <1>2, <1>3

(* A cancelled run ends with jobs that did not succeed (cancel-in-          *)
(* progress).                                                               *)
LEMMA CancelStep ==
  ASSUME CiInv, NEW r \in DOMAIN runs, Cancel(r)
  PROVE  CiInv'
<1> DEFINE jobs == [j \in Job |-> IF Waiting(r, j) THEN "cancelled" ELSE runs[r].job[j]]
           x == [runs[r] EXCEPT !.job = jobs]
<1>1. runs[r] \in Run /\ RunIsRight(runs[r], CommitOf(r), Newest, version, settings)
  BY RunFacts
<1>2. runs' = [runs EXCEPT ![r] = x]
  BY DEF Cancel
<1>3. jobs \in [Job -> Results]
  BY <1>1 DEF Run, Results, KNOWN_RESULTS
<1>4. x \in Run
  BY <1>1, <1>3 DEF Run
<1>5. /\ x.head = runs[r].head /\ x.count = runs[r].count /\ x.born = runs[r].born
      /\ x.event = runs[r].event /\ x.gate = runs[r].gate /\ x.full = runs[r].full
      /\ x.job = jobs
  BY <1>1 DEF Run
<1>6. jobs["python-tooling"] = "success" <=> runs[r].job["python-tooling"] = "success"
  BY DEF Job, Upstream, BaseJobs, Waiting
<1>7. RunIsRight(x, history[x.head], Newest, version, settings)
  BY <1>1, <1>5, <1>6 DEF RunIsRight, ScopeIsRight, PolicyIsRight, GateIsRight, CommitOf
<1>8. UNCHANGED <<history, context, merged, settings, version, incidents>>
  BY DEF Cancel
<1>9. RunsTyped' /\ RunsAreRight'
  BY <1>2, <1>4, <1>5, <1>7, <1>8, ChangeRun
<1>10. QED
  BY <1>8, <1>9, IncidentKept, RestKept

(* ci-gate (evaluate_ci_gate.py): the only step that writes a context.     *)
LEMMA GateStep ==
  ASSUME CiInv, NEW r \in DOMAIN runs, Gate(r)
  PROVE  CiInv'
<1> DEFINE c == CommitOf(r)
           run == runs[r]
           gate == IF GatePasses(c, run) THEN "success" ELSE "failure"
           x == [runs[r] EXCEPT !.gate = gate]
           seen == [gate |-> gate, full |-> run.full, job |-> run.job]
<1>1. /\ run \in Run /\ RunIsRight(run, c, Newest, version, settings)
      /\ run.head \in 1..Newest /\ Newest \in Nat /\ Newest <= MaxPushes
      /\ c = history[run.head]
  BY RunFacts
<1>2. runs' = [runs EXCEPT ![r] = x]
  BY DEF Gate
<1>3. x \in Run
  BY <1>1 DEF Run
<1>4. /\ x.head = run.head /\ x.count = run.count /\ x.born = run.born
      /\ x.event = run.event /\ x.gate = gate /\ x.full = run.full /\ x.job = run.job
  BY <1>1 DEF Run
<1>5. GatePasses(c, run) =>
        /\ run.full # None /\ parse_jobs(c)
        /\ Evaluate(c.evaluator, run.event, run.full, [j \in c.args |-> run.job[j]])
  BY DEF GatePasses
<1>6. GateIsRight(x, c)
  <2>1. SUFFICES ASSUME GatePasses(c, run), "python-tooling" \in c.evaluator.BASE_JOBS
                 PROVE  run.job["python-tooling"] = "success"
    BY <1>4 DEF GateIsRight
  <2>2. require_result([j \in c.args |-> run.job[j]], c.evaluator.BASE_JOBS, "success")
    BY <1>5, <2>1 DEF Evaluate
  <2>3. QED
    BY <2>1, <2>2 DEF require_result
<1>7. RunIsRight(x, history[x.head], Newest, version, settings)
  BY <1>1, <1>4, <1>6 DEF RunIsRight, ScopeIsRight, PolicyIsRight
<1>8. UNCHANGED <<history, merged, settings, version, incidents>>
  BY DEF Gate
<1>9. RunsTyped' /\ RunsAreRight'
  BY <1>2, <1>3, <1>4, <1>7, <1>8, ChangeRun
<1>10. CASE run.event # "pull_request"
  <2>1. context' = context
    BY <1>10 DEF Gate
  <2>2. QED
    BY <1>8, <1>9, <2>1, IncidentKept, RestKept
<1>11. CASE run.event = "pull_request"
  <2>1. context' = [context EXCEPT ![run.head] = seen]
    BY <1>11 DEF Gate
  <2>2. seen \in Verdict
    BY <1>1 DEF Run, Verdict
  <2>3. /\ context \in [1..MaxPushes -> Verdict \cup {None}]
        /\ \A h \in 1..MaxPushes : context[h] # None => h <= Newest
    BY DEF CiInv, TypeOK
  <2>4. run.head \in 1..MaxPushes
    BY <1>1 DEF Run
  <2>5. /\ context' \in [1..MaxPushes -> Verdict \cup {None}]
        /\ context'[run.head] = seen
        /\ \A h \in (1..MaxPushes) \ {run.head} : context'[h] = context[h]
    BY <2>1, <2>2, <2>3, <2>4
  <2>6. Newest' = Newest
    BY <1>8 DEF Newest
  <2>7. TypeOK'
    <3>1. \A h \in 1..MaxPushes : context'[h] # None => h <= Newest
      BY <1>1, <2>3, <2>5
    <3>2. OthersTyped'
      BY <1>8, <2>5, <2>6, <3>1 DEF CiInv, TypeOK, OthersTyped
    <3>3. QED
      BY <1>9, <3>2 DEF TypeOK, RunsTyped, OthersTyped
  <2>8. Passed(seen) => ContextIsRight(c, seen)
    <3>1. SUFFICES ASSUME GatePasses(c, run) PROVE ContextIsRight(c, seen)
      BY DEF Passed
    <3>2. run.job["python-tooling"] = "success" => EconomyPolicy(c)
      BY <1>1 DEF RunIsRight, PolicyIsRight
    <3>3. QED
      BY <1>5, <1>11, <3>1, <3>2 DEF ContextIsRight
  <2>9. run.head = Newest => ScopeIsRight(seen, c)
    BY <1>1, <1>11 DEF RunIsRight, ScopeIsRight
  <2>10. ContextsAreRight'
    <3>1. \A h \in 1..Newest : Passed(context'[h]) => ContextIsRight(history[h], context'[h])
      <4>1. TAKE h \in 1..Newest
      <4>2. CASE h = run.head
        BY <1>1, <2>5, <2>8, <4>2, Zenon
      <4>3. CASE h # run.head
        <5>1. h \in (1..MaxPushes) \ {run.head}
          BY <1>1, <4>3, CiConstants
        <5>2. context'[h] = context[h]
          BY <2>5, <5>1
        <5>3. QED
          BY <5>2, Zenon DEF CiInv, ContextsAreRight
      <4>4. QED
        BY <4>2, <4>3
    <3>2. Newest > 0 /\ Passed(context'[Newest]) =>
            ScopeIsRight(context'[Newest], history[Newest])
      BY <1>1, <2>5, <2>9 DEF CiInv, ContextsAreRight
    <3>3. Newest' = Newest /\ history' = history
      BY <1>8, <2>6
    <3>4. QED
      BY <3>1, <3>2, <3>3 DEF ContextsAreRight
  <2>11. MergeIsRight'
    BY <1>8, <2>6 DEF CiInv, MergeIsRight
  <2>12. QED
    BY <1>8, <1>9, <2>7, <2>10, <2>11 DEF CiInv
<1>12. QED
  BY <1>10, <1>11

-----------------------------------------------------------------------------
(* Events *)

(* A push adds a head without a context and a run that says nothing yet;    *)
(* contexts of earlier heads stay those of their commits.                   *)
LEMMA PushStep ==
  ASSUME CiInv, NEW c \in Commits, Push(c)
  PROVE  CiInv'
<1>1. /\ history \in Seq(Commits) /\ Newest \in Nat /\ Newest + 1 <= MaxPushes
      /\ MaxPushes \in Nat /\ merged = None
  BY CiConstants DEF CiInv, TypeOK, Push
<1>2. /\ history' \in Seq(Commits) /\ Newest' = Newest + 1
      /\ \A g \in 1..Newest : history'[g] = history[g]
      /\ history'[Newest + 1] = c
  BY <1>1, AppendProperties DEF Push, Newest
<1>3. UNCHANGED <<context, merged, settings, version, incidents>>
  BY DEF Push
<1>4. runs' = Append(CancelGroup(runs), NewRun(c, "pull_request", Newest + 1))
  BY DEF Push
<1>5. RunsTyped' /\ RunsAreRight'
  BY <1>1, <1>2, <1>3, <1>4, AddRun DEF Events
<1>6. \A h \in 1..MaxPushes : context[h] # None => h <= Newest
  BY DEF CiInv, TypeOK
<1>7. OthersTyped'
  BY <1>1, <1>2, <1>3, <1>6 DEF CiInv, TypeOK, OthersTyped
<1>8. TypeOK'
  BY <1>5, <1>7 DEF TypeOK, RunsTyped, OthersTyped
<1>9. context[Newest + 1] = None
  BY <1>1, <1>6
<1>10. ContextsAreRight'
  <2>1. \A h \in 1..(Newest + 1) :
          Passed(context[h]) => ContextIsRight(history'[h], context[h])
    <3>1. TAKE h \in 1..(Newest + 1)
    <3>2. CASE h = Newest + 1
      BY <1>9, <3>2 DEF Passed
    <3>3. CASE h # Newest + 1
      <4>1. h \in 1..Newest
        BY <1>1, <3>3
      <4>2. QED
        BY <1>2, <4>1 DEF CiInv, ContextsAreRight
    <3>4. QED
      BY <3>2, <3>3
  <2>2. ~Passed(context[Newest + 1])
    BY <1>9 DEF Passed
  <2>3. QED
    BY <1>2, <1>3, <2>1, <2>2 DEF ContextsAreRight
<1>11. MergeIsRight'
  BY <1>1, <1>3 DEF MergeIsRight
<1>12. QED
  BY <1>3, <1>5, <1>8, <1>10, <1>11 DEF CiInv

(* reopened: one more run of the newest head.                               *)
LEMMA ReopenStep == ASSUME CiInv, Reopen PROVE CiInv'
<1>1. /\ history \in Seq(Commits) /\ Newest \in 1..MaxPushes /\ MaxPushes \in Nat
  BY CiConstants DEF CiInv, TypeOK, Reopen
<1>2. history[Newest] \in Commits
  BY <1>1, ElementOfSeq DEF Newest
<1>3. UNCHANGED <<history, context, merged, settings, version, incidents>> /\ Newest' = Newest
  BY DEF Reopen, Newest
<1>4. runs' = Append(CancelGroup(runs), NewRun(history[Newest], "pull_request", Newest))
  BY DEF Reopen
<1>5. RunsTyped' /\ RunsAreRight'
  BY <1>1, <1>2, <1>3, <1>4, AddRun DEF Events
<1>6. QED
  BY <1>3, <1>5, IncidentKept, RestKept

(* workflow_dispatch: one more run of the merged head.                      *)
LEMMA DispatchStep == ASSUME CiInv, Dispatch PROVE CiInv'
<1>1. merged # None
  BY DEF Dispatch
<1>2. /\ history \in Seq(Commits) /\ Newest \in 1..MaxPushes /\ merged.head = Newest
      /\ MaxPushes \in Nat
  BY <1>1, CiConstants DEF CiInv, TypeOK, MergeIsRight
<1>3. history[Newest] \in Commits
  BY <1>2, ElementOfSeq DEF Newest
<1>4. UNCHANGED <<history, context, merged, settings, version, incidents>> /\ Newest' = Newest
  BY DEF Dispatch, Newest
<1>5. runs' = Append(runs, NewRun(history[Newest], "workflow_dispatch", Newest))
  BY <1>2 DEF Dispatch
<1>6. RunsTyped' /\ RunsAreRight'
  BY <1>2, <1>3, <1>4, <1>5, AddRun DEF Events
<1>7. QED
  BY <1>4, <1>6, IncidentKept, RestKept

(* A merge through the ruleset finds a successful context on the newest     *)
(* head (apply_branch_protection.sh).                                       *)
LEMMA MergeStep == ASSUME CiInv, NEW gated \in BOOLEAN, Merge(gated) PROVE CiInv'
<1>1. /\ history \in Seq(Commits) /\ Newest \in 1..MaxPushes /\ MaxPushes \in Nat
      /\ context[Newest] \in Verdict \cup {None}
  <2>1. Newest > 0
    BY DEF Merge
  <2>2. /\ history \in Seq(Commits) /\ Newest \in 0..MaxPushes
        /\ context \in [1..MaxPushes -> Verdict \cup {None}]
    BY DEF CiInv, TypeOK
  <2>3. MaxPushes \in Nat
    BY CiConstants
  <2>4. Newest \in 1..MaxPushes
    BY <2>1, <2>2, <2>3
  <2>5. QED
    BY <2>2, <2>3, <2>4
<1>2. history[Newest] \in Commits
  BY <1>1, ElementOfSeq DEF Newest
<1>3. UNCHANGED <<history, context, settings, version, incidents>> /\ Newest' = Newest
  BY DEF Merge, Newest
<1>4. runs' = Append(runs, NewRun(history[Newest], "push", Newest))
  BY DEF Merge
<1>5. RunsTyped' /\ RunsAreRight'
  BY <1>1, <1>2, <1>3, <1>4, AddRun DEF Events
<1>6. /\ merged' = [head |-> Newest, gated |-> gated, seen |-> context[Newest]]
      /\ gated => Passed(context[Newest])
  BY DEF Merge, Passed
<1>7. merged' \in [head : 1..Newest, gated : BOOLEAN, seen : Verdict \cup {None}]
  <2>1. Newest \in 1..Newest /\ gated \in BOOLEAN
    BY <1>1
  <2>2. QED
    BY <1>1, <1>6, <2>1, Zenon
<1>8. OthersTyped'
  BY <1>3, <1>7 DEF CiInv, TypeOK, OthersTyped
<1>9. TypeOK'
  BY <1>5, <1>8 DEF TypeOK, RunsTyped, OthersTyped
<1>10. ContextsAreRight'
  BY <1>3 DEF CiInv, ContextsAreRight
<1>11. MergeIsRight'
  <2>1. gated => /\ Passed(context[Newest])
                 /\ ContextIsRight(history[Newest], context[Newest])
                 /\ ScopeIsRight(context[Newest], history[Newest])
    <3>1. Newest \in 1..Newest /\ Newest > 0
      BY <1>1
    <3>2. QED
      BY <1>6, <3>1, Zenon DEF CiInv, ContextsAreRight
  <2>2. /\ merged'.head = Newest /\ merged'.gated = gated /\ merged'.seen = context[Newest]
    BY <1>6
  <2>3. Newest > 0
    BY <1>1
  <2>4. QED
    BY <1>3, <2>1, <2>2, <2>3, Zenon DEF MergeIsRight
<1>12. QED
  BY <1>3, <1>5, <1>9, <1>10, <1>11 DEF CiInv

(* A repeated run starts again with the payload of its event.               *)
LEMMA RerunStep ==
  ASSUME CiInv, NEW r \in DOMAIN runs, Rerun(r)
  PROVE  CiInv'
<1> DEFINE x == [NewRun(history[runs[r].head], runs[r].event, runs[r].head)
                   EXCEPT !.born = runs[r].born]
           base == IF runs[r].event = "pull_request" THEN CancelGroup(runs) ELSE runs
<1>1. /\ runs[r] \in Run /\ history[runs[r].head] \in Commits
      /\ RunIsRight(runs[r], history[runs[r].head], Newest, version, settings)
  BY RunFacts
<1>2. /\ runs[r].event \in Events /\ runs[r].head \in 1..MaxPushes
      /\ runs[r].born \in 0..MaxIncidents /\ runs[r].born <= version
  BY <1>1 DEF Run, RunIsRight
<1>3. /\ x \in Run /\ x.head = runs[r].head
      /\ RunIsRight(x, history[runs[r].head], Newest, version, settings)
  BY <1>1, <1>2, RepeatedRunIsRight DEF CiInv
<1>4. runs' = [base EXCEPT ![r] = x]
  BY DEF Rerun
<1>5. UNCHANGED <<history, context, merged, settings, version>> /\ Newest' = Newest
  BY DEF Rerun, Newest
<1>6. /\ base \in Seq(Run) /\ DOMAIN base = DOMAIN runs
      /\ \A q \in DOMAIN runs : \E b \in BOOLEAN : base[q] = [runs[q] EXCEPT !.cancelled = b]
  <2>1. ASSUME NEW q \in DOMAIN runs
        PROVE  \E b \in BOOLEAN : runs[q] = [runs[q] EXCEPT !.cancelled = b]
    <3>1. runs[q] \in Run
      BY RunFacts
    <3>2. runs[q].cancelled \in BOOLEAN /\ runs[q] = [runs[q] EXCEPT !.cancelled = runs[q].cancelled]
      BY <3>1 DEF Run
    <3>3. QED
      BY <3>2
  <2>2. TypeOK /\ runs \in Seq(Run)
    BY DEF CiInv, TypeOK
  <2>3. CASE runs[r].event = "pull_request"
    BY <2>2, <2>3, CancelGroupType
  <2>4. CASE runs[r].event # "pull_request"
    BY <2>1, <2>2, <2>4
  <2>5. QED
    BY <2>3, <2>4
<1>7. /\ runs' \in Seq(Run) /\ DOMAIN runs' = DOMAIN runs /\ runs'[r] = x
      /\ \A q \in DOMAIN runs \ {r} : runs'[q] = base[q]
  <2>1. DOMAIN base = 1..Len(base)
    BY <1>6, LenProperties
  <2>2. QED
    BY <1>3, <1>4, <1>6, <2>1, ExceptSeq
<1>8. ASSUME NEW q \in DOMAIN runs'
      PROVE  /\ runs'[q].head <= Newest
             /\ RunIsRight(runs'[q], history[runs'[q].head], Newest, version, settings)
  <2>1. /\ runs[q] \in Run /\ runs[q].head \in 1..Newest /\ Newest \in Nat
        /\ RunIsRight(runs[q], history[runs[q].head], Newest, version, settings)
    BY <1>7, <1>8, RunFacts
  <2>2. CASE q = r
    <3>1. runs'[q] = x /\ x.head = runs[q].head
      BY <1>3, <1>7, <2>2
    <3>2. RunIsRight(x, history[runs[q].head], Newest, version, settings)
      BY <1>3, <2>2, Zenon
    <3>3. runs[q].head <= Newest
      BY <2>1
    <3>4. QED
      BY <3>1, <3>2, <3>3, Zenon
  <2>3. CASE q # r
    <3>1. PICK b \in BOOLEAN : runs'[q] = [runs[q] EXCEPT !.cancelled = b]
      BY <1>6, <1>7, <1>8, <2>3
    <3> DEFINE y == runs'[q]
    <3>2. /\ y.count = runs[q].count /\ y.born = runs[q].born /\ y.event = runs[q].event
          /\ y.head = runs[q].head /\ y.full = runs[q].full /\ y.job = runs[q].job
          /\ y.gate = runs[q].gate
      BY <2>1, <3>1 DEF Run
    <3>3. QED
      BY <2>1, <3>2 DEF RunIsRight, ScopeIsRight, PolicyIsRight, GateIsRight
  <2>4. QED
    BY <2>2, <2>3
<1>9. RunsTyped' /\ RunsAreRight'
  BY <1>5, <1>7, <1>8 DEF RunsTyped, RunsAreRight
<1>10. Incident
  BY DEF Rerun
<1>11. QED
  BY <1>5, <1>9, <1>10, IncidentKept, RestKept

(* No run was born in the version the settings get.                        *)
LEMMA ChangeSettingsStep == ASSUME CiInv, ChangeSettings PROVE CiInv'
<1>1. /\ UNCHANGED <<history, runs, context, merged>> /\ Newest' = Newest
      /\ version' = version + 1 /\ incidents' = incidents + 1 /\ incidents < MaxIncidents
      /\ settings' \subseteq Settings
  BY DEF ChangeSettings, Incident, Newest, CiInv, TypeOK
<1>2. version \in 0..MaxIncidents /\ incidents \in 0..MaxIncidents /\ MaxIncidents \in Nat
      /\ version <= incidents
  BY CiConstants DEF CiInv, TypeOK
<1>3. /\ version' \in 0..MaxIncidents /\ incidents' \in 0..MaxIncidents
      /\ version' <= incidents'
  BY <1>1, <1>2
<1>4. TypeOK'
  BY <1>1, <1>3 DEF CiInv, TypeOK
<1>5. RunsAreRight'
  <2>1. SUFFICES ASSUME NEW r \in DOMAIN runs
                 PROVE  RunIsRight(runs[r], history[runs[r].head], Newest, version + 1, settings')
    BY <1>1 DEF RunsAreRight
  <2>2. runs[r] \in Run /\ RunIsRight(runs[r], history[runs[r].head], Newest, version, settings)
    BY RunFacts
  <2>3. runs[r].born \in Nat /\ runs[r].born <= version
    BY <2>2 DEF Run, RunIsRight
  <2>4. runs[r].born # version + 1 /\ runs[r].born <= version + 1
    BY <1>2, <2>3
  <2>5. QED
    BY <2>2, <2>4 DEF RunIsRight, PolicyIsRight
<1>6. ContextsAreRight' /\ MergeIsRight'
  BY <1>1 DEF CiInv, ContextsAreRight, MergeIsRight
<1>7. QED
  BY <1>3, <1>4, <1>5, <1>6 DEF CiInv

-----------------------------------------------------------------------------
(* The theorems *)

(* Before the first push there is nothing to be right about.                *)
LEMMA Start == Init => CiInv
<1> SUFFICES ASSUME Init PROVE CiInv
  OBVIOUS
<1>1. /\ {MaxPushes, MaxIncidents} \subseteq Nat /\ Newest = 0
      /\ history \in Seq(Commits) /\ runs \in Seq(Run) /\ DOMAIN runs = {}
  BY CiConstants, EmptySeq DEF Init, Newest
<1>2. TypeOK
  BY <1>1 DEF Init, TypeOK
<1>3. RunsAreRight /\ ContextsAreRight /\ MergeIsRight /\ version <= incidents
  BY <1>1 DEF Init, RunsAreRight, ContextsAreRight, MergeIsRight, Passed
<1>4. QED
  BY <1>2, <1>3 DEF CiInv

(* Every step of events, jobs and gate keeps the invariant.                 *)
LEMMA Preserved == CiInv /\ [Next]_vars => CiInv'
<1> SUFFICES ASSUME CiInv, [Next]_vars PROVE CiInv'
  OBVIOUS
<1>1. CASE UNCHANGED vars
  BY <1>1 DEF vars, CiInv, TypeOK, RunsAreRight, ContextsAreRight, MergeIsRight, Newest
<1>2. ASSUME NEW c \in Commits, Push(c) PROVE CiInv'
  BY <1>2, PushStep
<1>3. CASE Reopen \/ (\E gated \in BOOLEAN : Merge(gated)) \/ Dispatch \/ ChangeSettings
  BY <1>3, ReopenStep, MergeStep, DispatchStep, ChangeSettingsStep
<1>4. ASSUME NEW r \in DOMAIN runs, Rerun(r) \/ Cancel(r) PROVE CiInv'
  BY <1>4, RerunStep, CancelStep
<1>5. ASSUME NEW r \in DOMAIN runs, Proceed(r) PROVE CiInv'
  BY <1>5, RunScopeStep, RunPolicyStep, GateStep, OtherJobStep DEF Proceed
<1>6. ASSUME NEW r \in DOMAIN runs, NEW j \in Job, FailJob(r, j) PROVE CiInv'
  BY <1>6, OtherJobStep
<1>7. CASE Idle
  BY <1>1, <1>7 DEF Idle
<1>8. QED
  BY <1>1, <1>2, <1>3, <1>4, <1>5, <1>6, <1>7 DEF Next

(* The inductive invariant: every run, every context and the merge mean    *)
(* what they say (scope, python-tooling and ci-gate of ci.yml).            *)
THEOREM CiInvCorrect == Spec => []CiInv
BY Start, Preserved, PTL DEF Spec

(* Every reachable state is well typed (the job graph of ci.yml).          *)
THEOREM CiTypeCorrect == Spec => []TypeOK
<1>1. CiInv => TypeOK
  BY DEF CiInv
<1>2. QED
  BY <1>1, CiInvCorrect, PTL

(* What is merged through the gate has passed all base jobs and, when its  *)
(* change asks for it, approval and full jobs (evaluate_ci_gate.py,        *)
(* classify_ci_scope.py), however long the list of files may be.           *)
THEOREM MergesAreVerified == Spec => []MergedIsVerified
<1>1. CiInv => MergedIsVerified
  <2>1. SUFFICES ASSUME CiInv, merged # None, merged.gated
                 PROVE  Verified(history[Newest], merged.seen)
    BY DEF MergedIsVerified, CiInv, MergeIsRight
  <2> DEFINE c == history[Newest]
             seen == merged.seen
             jobs == [j \in c.args |-> seen.job[j]]
  <2>2. /\ seen.full # None /\ Evaluate(c.evaluator, "pull_request", seen.full, jobs)
        /\ seen.full = requires_full_ci(Filenames(c.files))
    BY <2>1 DEF CiInv, MergeIsRight, ContextIsRight, ScopeIsRight
  <2>3. \A names, expected : require_result(jobs, names, expected) =>
          \A j \in names : seen.job[j] = expected
    BY DEF require_result
  <2>4. \A j \in c.evaluator.BASE_JOBS : seen.job[j] = "success"
    BY <2>2, <2>3 DEF Evaluate
  <2>5. requires_full_ci(Filenames(c.files)) =>
          \A j \in c.evaluator.FULL_JOBS \cup {APPROVAL_JOB} : seen.job[j] = "success"
    BY <2>2, <2>3 DEF Evaluate
  <2>6. QED
    BY <2>4, <2>5 DEF Verified
<1>2. QED
  BY <1>1, CiInvCorrect, PTL

(* A successful gate has judged every job of the workflow                  *)
(* (check_ci_gate_job_parity and evaluate).                                *)
THEOREM GatesAreComplete == Spec => []NothingUngated
<1>1. CiInv => NothingUngated
  <2>1. SUFFICES ASSUME CiInv, NEW h \in 1..Newest,
                        context[h] # None, context[h].gate = "success",
                        "python-tooling" \in history[h].evaluator.BASE_JOBS,
                        NEW j \in history[h].jobs
                 PROVE  \/ context[h].job[j] = "success"
                        \/ /\ context[h].job[j] = "skipped"
                           /\ j \notin history[h].evaluator.BASE_JOBS
    BY DEF NothingUngated
  <2> DEFINE c == history[h]
             seen == context[h]
             jobs == [k \in c.args |-> seen.job[k]]
  <2>2. ContextIsRight(c, seen)
    BY <2>1 DEF CiInv, ContextsAreRight, Passed
  <2>3. \A names, expected : require_result(jobs, names, expected) =>
          \A k \in names : seen.job[k] = expected
    BY DEF require_result
  <2>4. Evaluate(c.evaluator, "pull_request", seen.full, jobs)
    BY <2>2 DEF ContextIsRight
  <2>5. /\ \A k \in c.evaluator.BASE_JOBS : seen.job[k] = "success"
        /\ \/ \A k \in c.evaluator.FULL_JOBS \cup {APPROVAL_JOB} : seen.job[k] = "success"
           \/ \A k \in c.evaluator.FULL_JOBS \cup {APPROVAL_JOB} : seen.job[k] = "skipped"
        /\ \A k \in c.evaluator.MAIN_JOBS : seen.job[k] = "skipped"
    BY <2>3, <2>4 DEF Evaluate
  <2>6. c.jobs = ALLOWED_JOBS(c.evaluator)
    BY <2>1, <2>2, <2>5 DEF ContextIsRight, EconomyPolicy, check_ci_gate_job_parity
  <2>7. j \in c.evaluator.BASE_JOBS \cup c.evaluator.FULL_JOBS
                \cup c.evaluator.MAIN_JOBS \cup {APPROVAL_JOB}
    BY <2>6 DEF ALLOWED_JOBS
  <2>8. QED
    BY <2>5, <2>7
<1>2. QED
  BY <1>1, CiInvCorrect, PTL

(* A successful run of a push to main vouches for every setting that its   *)
(* token can read: all but the bypass actors of the ruleset                *)
(* (check_branch_protection_drift.py, check_full_ci_environment.py).       *)
THEOREM DriftsAreReported == Spec => []DriftIsReported
<1>1. CiInv => DriftIsReported
  <2>1. SUFFICES ASSUME CiInv, NEW r \in DOMAIN runs,
                        runs[r].event = "push", runs[r].gate = "success",
                        runs[r].born = version,
                        "python-tooling" \in CommitOf(r).evaluator.BASE_JOBS
                 PROVE  Settings \ Unseen \subseteq settings
    BY Zenon DEF DriftIsReported
  <2>2. RunIsRight(runs[r], CommitOf(r), Newest, version, settings)
    BY <2>1, RunFacts
  <2>3. QED
    BY <2>1, <2>2 DEF RunIsRight, GateIsRight, PolicyIsRight
<1>2. QED
  BY <1>1, CiInvCorrect, PTL

-----------------------------------------------------------------------------
(* No run waits for ever *)

(* A run that is under way.                                                *)
Running(run) == Started(run) /\ ~Ended(run)

(* The concurrency group of the pull request runs one workflow at a time.  *)
OneAtATime ==
  \A r, q \in DOMAIN runs :
    /\ r # q
    /\ runs[r].event = "pull_request" /\ runs[q].event = "pull_request"
    => ~Running(runs[r]) \/ ~Running(runs[q])

(* A run that has not ended may take its next step: a job whose needs have *)
(* ended runs or is skipped, or the gate judges.                           *)
CanGoOn(r) ==
  /\ Turn(r)
  /\ \/ \E j \in Job : Waiting(r, j) /\ NeedsEnded(r, j)
     \/ runs[r].gate = "waiting" /\ \A j \in CommitOf(r).needs : ~Waiting(r, j)
NoRunWaits ==
  (\E r \in DOMAIN runs : ~Ended(runs[r])) =>
    \E r \in DOMAIN runs : ~Ended(runs[r]) /\ CanGoOn(r)

(* Whether a run is under way is a matter of its gate and its jobs.        *)
LEMMA RunningSame ==
  ASSUME NEW x, NEW y, x.gate = y.gate, x.job = y.job
  PROVE  Running(x) = Running(y)
BY DEF Running, Started, Ended

(* A new run has not started.                                              *)
LEMMA NewRunWaits ==
  ASSUME NEW c, NEW e, NEW h, NEW b
  PROVE  /\ ~Running(NewRun(c, e, h))
         /\ ~Running([NewRun(c, e, h) EXCEPT !.born = b])
<1>1. /\ NewRun(c, e, h).gate = "waiting"
      /\ \A j \in Job : NewRun(c, e, h).job[j] \in {"waiting", "absent"}
  BY DEF NewRun
<1>2. ~Running(NewRun(c, e, h))
  BY <1>1 DEF Running, Started, KNOWN_RESULTS
<1> DEFINE x == [NewRun(c, e, h) EXCEPT !.born = b]
<1>3. x.gate = NewRun(c, e, h).gate /\ x.job = NewRun(c, e, h).job
  BY DEF NewRun
<1>4. ~Running(x)
  BY <1>2, <1>3, RunningSame
<1>5. QED
  BY <1>2, <1>4

(* A run that joins the others, some of them cancelled.                    *)
LEMMA GroupJoined ==
  ASSUME TypeOK, OneAtATime, NEW c \in Commits, NEW e \in Events,
         NEW h \in 1..MaxPushes, NEW base, base \in {runs, CancelGroup(runs)},
         runs' = Append(base, NewRun(c, e, h))
  PROVE  OneAtATime'
<1>1. base \in Seq(Run) /\ DOMAIN base = DOMAIN runs
  BY CancelGroupType DEF TypeOK
<1>2. /\ \A q \in DOMAIN base : runs'[q] = base[q]
      /\ DOMAIN runs' = DOMAIN base \cup {Len(base) + 1}
      /\ runs'[Len(base) + 1] = NewRun(c, e, h)
  BY <1>1, NewRunType, LenProperties, AppendProperties
<1>3. ASSUME NEW q \in DOMAIN runs
      PROVE  base[q].event = runs[q].event /\ Running(base[q]) = Running(runs[q])
  <2>1. runs[q] \in Run
    BY LenProperties DEF TypeOK
  <2>2. /\ base[q].event = runs[q].event /\ base[q].gate = runs[q].gate
        /\ base[q].job = runs[q].job
    BY <2>1, CancelGroupType DEF Run
  <2>3. QED
    BY <2>2, RunningSame
<1>4. ~Running(NewRun(c, e, h))
  BY NewRunWaits
<1>5. QED
  BY <1>1, <1>2, <1>3, <1>4 DEF OneAtATime

(* A run is started again, and cancels the others of its group.            *)
LEMMA GroupRerun ==
  ASSUME CiInv, OneAtATime, NEW r \in DOMAIN runs, Rerun(r)
  PROVE  OneAtATime'
<1> DEFINE base == IF runs[r].event = "pull_request" THEN CancelGroup(runs) ELSE runs
           new == [NewRun(history[runs[r].head], runs[r].event, runs[r].head)
                     EXCEPT !.born = runs[r].born]
<1>1. TypeOK /\ runs' = [base EXCEPT ![r] = new]
  BY DEF Rerun, CiInv
<1>2. base \in Seq(Run) /\ DOMAIN base = DOMAIN runs
  BY <1>1, CancelGroupType DEF TypeOK
<1>3. /\ DOMAIN runs' = DOMAIN runs /\ runs'[r] = new
      /\ \A q \in DOMAIN runs \ {r} : runs'[q] = base[q]
  BY <1>1, <1>2, LenProperties, ExceptSeq
<1>4. ASSUME NEW q \in DOMAIN runs
      PROVE  base[q].event = runs[q].event /\ Running(base[q]) = Running(runs[q])
  <2>1. runs[q] \in Run
    BY <1>1, LenProperties DEF TypeOK
  <2>2. /\ base[q].event = runs[q].event /\ base[q].gate = runs[q].gate
        /\ base[q].job = runs[q].job
    BY <1>1, <2>1, CancelGroupType DEF Run
  <2>3. QED
    BY <2>2, RunningSame
<1>5. ~Running(new)
  BY NewRunWaits
<1>6. QED
  BY <1>3, <1>4, <1>5 DEF OneAtATime

(* Every step keeps the group at one run at a time.                        *)
LEMMA GroupStep == CiInv /\ OneAtATime /\ [Next]_vars => OneAtATime'
<1> SUFFICES ASSUME CiInv, OneAtATime, [Next]_vars PROVE OneAtATime'
  OBVIOUS
<1>1. TypeOK
  BY DEF CiInv
<1>2. CASE UNCHANGED runs
  BY <1>2 DEF OneAtATime
<1>3. ASSUME NEW c \in Commits, Push(c) PROVE OneAtATime'
  <2>1. Newest + 1 \in 1..MaxPushes /\ "pull_request" \in Events
    BY <1>1, <1>3, CiConstants DEF Push, TypeOK, Events
  <2>2. QED
    BY <1>1, <1>3, <2>1, GroupJoined DEF Push
<1>4. CASE Reopen \/ \E gated \in BOOLEAN : Merge(gated)
  <2>1. Newest \in 1..MaxPushes /\ history[Newest] \in Commits
    <3>1. Newest > 0 /\ Newest \in 0..MaxPushes /\ MaxPushes \in Nat
      BY <1>1, <1>4, CiConstants DEF Reopen, Merge, TypeOK
    <3>2. history \in Seq(Commits) /\ Newest \in 1..Len(history)
      BY <1>1, <3>1 DEF TypeOK, Newest
    <3>3. QED
      BY <3>1, <3>2, ElementOfSeq
  <2>2. QED
    BY <1>1, <1>4, <2>1, GroupJoined DEF Reopen, Merge, Events
<1>5. CASE Dispatch
  <2>1. merged.head \in 1..Newest /\ Newest \in 0..MaxPushes /\ MaxPushes \in Nat
    BY <1>1, <1>5, CiConstants DEF Dispatch, TypeOK
  <2>2. merged.head \in 1..MaxPushes /\ history[merged.head] \in Commits
    BY <1>1, <2>1, ElementOfSeq DEF TypeOK, Newest
  <2>3. QED
    BY <1>1, <1>5, <2>2, GroupJoined DEF Dispatch, Events
<1>6. ASSUME NEW r \in DOMAIN runs, Rerun(r) PROVE OneAtATime'
  BY <1>6, GroupRerun
<1>7. ASSUME NEW r \in DOMAIN runs, Cancel(r) \/ Proceed(r)
                \/ \E j \in Job : FailJob(r, j)
      PROVE  OneAtATime'
  <2>1. Turn(r)
    BY <1>7 DEF Cancel, Proceed, FailJob, RunScope, RunPolicy, Gate, RunJob,
       SkipJob, Runnable
  <2>2. /\ runs[r] \in Run
        /\ DOMAIN runs' = DOMAIN runs /\ runs'[r].event = runs[r].event
        /\ \A q \in DOMAIN runs \ {r} : runs'[q] = runs[q]
    <3>1. runs[r] \in Run
      BY <1>1, LenProperties DEF TypeOK
    <3>2. runs \in [DOMAIN runs -> Run]
      BY <1>1, LenProperties DEF TypeOK
    <3>3. CASE Cancel(r)
      BY <3>1, <3>2, <3>3 DEF Cancel, Run
    <3>4. CASE RunScope(r)
      BY <3>1, <3>2, <3>4 DEF RunScope, Run
    <3>5. CASE Gate(r)
      BY <3>1, <3>2, <3>5 DEF Gate, Run
    <3>6. CASE \E j, result : JobEnds(r, j, result)
      BY <3>1, <3>2, <3>6 DEF JobEnds, Run
    <3>7. QED
      BY <1>7, <3>1, <3>3, <3>4, <3>5, <3>6
      DEF Proceed, RunPolicy, RunJob, SkipJob, FailJob
  <2>3. ASSUME NEW p \in DOMAIN runs, NEW q \in DOMAIN runs, p # q,
               runs'[p].event = "pull_request", runs'[q].event = "pull_request"
        PROVE  ~Running(runs'[p]) \/ ~Running(runs'[q])
    <3>1. CASE p = r
      BY <2>1, <2>2, <2>3, <3>1 DEF Turn, Running
    <3>2. CASE q = r
      BY <2>1, <2>2, <2>3, <3>2 DEF Turn, Running
    <3>3. CASE p # r /\ q # r
      BY <2>2, <2>3, <3>3 DEF OneAtATime
    <3>4. QED
      BY <3>1, <3>2, <3>3
  <2>4. QED
    BY <2>2, <2>3 DEF OneAtATime
<1>8. QED
  BY <1>2, <1>3, <1>4, <1>5, <1>6, <1>7 DEF Next, ChangeSettings, Idle, vars

(* Among the waiting jobs of a run there is one whose needs have ended.    *)
LEMMA JobGraph ==
  ASSUME NEW r, NEW j \in Job, Waiting(r, j)
  PROVE  \E k \in Job : Waiting(r, k) /\ NeedsEnded(r, k)
<1> DEFINE c == CommitOf(r)
<1>1. /\ \A k \in BaseJobs \cup ExtraJobs : Needs(c, k) = {}
      /\ \A k \in MainJobs : Needs(c, k) \subseteq {"scope"}
      /\ Needs(c, APPROVAL_JOB) \subseteq BaseJobs
      /\ Needs(c, "sdk-platform") \subseteq {"scope", APPROVAL_JOB}
      /\ Needs(c, "evidence-bundle") \subseteq BaseJobs \cup {"sdk-platform"}
  BY CiConstants DEF Needs, BaseJobs, FullJobs, Upstream, APPROVAL_JOB
<1>2. Job = BaseJobs \cup ExtraJobs \cup MainJobs
              \cup {APPROVAL_JOB, "sdk-platform", "evidence-bundle"}
  BY DEF Job, Upstream, FullJobs
<1>3. "scope" \in BaseJobs
  BY DEF BaseJobs
<1>4. CASE \E k \in BaseJobs \cup ExtraJobs : Waiting(r, k)
  BY <1>1, <1>2, <1>4 DEF NeedsEnded
<1>5. CASE \A k \in BaseJobs \cup ExtraJobs : ~Waiting(r, k)
  <2>1. \A k \in MainJobs \cup {APPROVAL_JOB} : NeedsEnded(r, k)
    BY <1>1, <1>3, <1>5 DEF NeedsEnded
  <2>2. CASE \E k \in MainJobs \cup {APPROVAL_JOB} : Waiting(r, k)
    BY <1>2, <2>1, <2>2
  <2>3. CASE \A k \in MainJobs \cup {APPROVAL_JOB} : ~Waiting(r, k)
    <3>1. NeedsEnded(r, "sdk-platform")
      BY <1>1, <1>3, <1>5, <2>3 DEF NeedsEnded
    <3>2. CASE Waiting(r, "sdk-platform")
      BY <1>2, <3>1, <3>2
    <3>3. CASE ~Waiting(r, "sdk-platform")
      <4>1. NeedsEnded(r, "evidence-bundle")
        BY <1>1, <1>5, <3>3 DEF NeedsEnded
      <4>2. Waiting(r, "evidence-bundle")
        BY <1>2, <1>5, <2>3, <3>3
      <4>3. QED
        BY <1>2, <4>1, <4>2
    <3>4. QED
      BY <3>2, <3>3
  <2>4. QED
    BY <2>2, <2>3
<1>6. QED
  BY <1>4, <1>5

(* A run that has not ended goes on once it is its turn.                   *)
LEMMA TurnGoesOn ==
  ASSUME CiInv, NEW r \in DOMAIN runs, ~Ended(runs[r]), Turn(r)
  PROVE  CanGoOn(r)
<1>1. CASE \E j \in Job : Waiting(r, j)
  BY <1>1, JobGraph DEF CanGoOn
<1>2. CASE \A j \in Job : ~Waiting(r, j)
  <2>1. CommitOf(r).needs \subseteq Job
    BY RunFacts, CiConstants DEF Commit
  <2>2. runs[r].gate = "waiting"
    BY <1>2 DEF Ended, Waiting
  <2>3. QED
    BY <1>2, <2>1, <2>2 DEF CanGoOn
<1>3. QED
  BY <1>1, <1>2

(* Two runs of the pull request are never under way together, whatever is  *)
(* pushed, reopened, cancelled and started again (concurrency of ci.yml).  *)
THEOREM OneRunAtATime == Spec => []OneAtATime
<1>1. Init => OneAtATime
  BY DEF Init, OneAtATime
<1>2. QED
  BY <1>1, CiInvCorrect, GroupStep, PTL DEF Spec

(* As long as a run has not ended some run can take its next step: no jobs *)
(* wait for each other, no gate for a job that never ends, and no two runs *)
(* of the group for each other (needs and concurrency of ci.yml).          *)
THEOREM RunsGoOn == Spec => []NoRunWaits
<1>1. CiInv /\ OneAtATime => NoRunWaits
  <2>1. SUFFICES ASSUME CiInv, OneAtATime, NEW r \in DOMAIN runs, ~Ended(runs[r])
                 PROVE  \E q \in DOMAIN runs : ~Ended(runs[q]) /\ CanGoOn(q)
    BY DEF NoRunWaits
  <2>2. CASE Turn(r)
    BY <2>1, <2>2, TurnGoesOn
  <2>3. CASE ~Turn(r)
    <3>1. PICK q \in DOMAIN runs : runs[q].event = "pull_request" /\ Running(runs[q])
      BY <2>3 DEF Turn, Running
    <3>2. Turn(q)
      BY <2>1, <3>1 DEF OneAtATime, Turn, Running
    <3>3. QED
      BY <3>1, <3>2, <2>1, TurnGoesOn DEF Running
  <2>4. QED
    BY <2>2, <2>3
<1>2. QED
  BY <1>1, CiInvCorrect, OneRunAtATime, PTL
=============================================================================
