----------------------------- MODULE MCCiGate -----------------------------
(* Constants for checking CiGate with TLC. *)
EXTENDS CiGate

CONSTANT none

Docs == [filename |-> "docs", previous |-> None]
Code == [filename |-> "code", previous |-> None]
Moved == [filename |-> "docs", previous |-> "code"]

Standard ==
  [BASE_JOBS |-> BaseJobs, FULL_JOBS |-> FullJobs, MAIN_JOBS |-> MainJobs]

(* A change that leaves continuous integration as it is. *)
Change(files) ==
  [files |-> files, jobs |-> Upstream, needs |-> Upstream, args |-> Upstream,
   evaluator |-> Standard, keeps |-> Contract]

(* The workflow has a job that its author forgot in the needs and the      *)
(* arguments of ci-gate and in the evaluator.                              *)
Forgotten(job) ==
  [Change(<<Code>>) EXCEPT
     !.needs = Upstream \ {job},
     !.args = Upstream \ {job},
     !.evaluator.FULL_JOBS = FullJobs \ {job}]

Changes ==
  {Change(<<Docs>>), Change(<<Moved>>), Change(<<Docs, Docs, Code>>)}
Edits == {Forgotten("evidence-bundle")}
AllCommits == Changes \cup Edits
=============================================================================
