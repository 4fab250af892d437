--------------------------- MODULE Stabilization ---------------------------
(***************************************************************************)
(* tools/stabilization/run_rc_stab.py: a campaign of attack cases, mutated *)
(* vectors, property tests, the reproduction of a baseline's evidence in a *)
(* clean clone, and a rehearsal of the rollback; composed with the certi-  *)
(* fication in the same workspace and the one the campaign runs in its     *)
(* clone.  Whatever the two runners answer to a case is possible.          *)
(***************************************************************************)
EXTENDS Certification, Sequences

CONSTANTS
  AttackCases,   \* sequence of [kind |-> "vector" or "replay"]
  FuzzCases,     \* sequence of the names of mutated vectors
  Baseline,      \* the commit of the baseline tag
  BaselineNode   \* the version of node its evidence was made with

Modes == {"smoke", "deep"}
BaselineSha == Expected(Baseline, BaselineNode)

ASSUME StabilizationConstants ==
  /\ Baseline \in Commits /\ BaselineNode \in Nodes
  /\ AttackCases \in Seq([kind : {"vector", "replay"}]) /\ FuzzCases \in Seq(STRING)

VARIABLES
  camp,  \* the campaign: its number and step, what it has found, and, apart from
         \* what its cleanup says, whether its clone is left on the disk
  out    \* its output directory, kept from one campaign to the next: evidence
         \* and findings, and of which campaign each minimized case is

vars == <<certVars, camp, out>>

Phases ==
  {"idle", "attack", "fuzz", "properties", "repro", "reproducing", "rollback", "zip", "report",
   "done", "aborted"}

NoCampaign ==
  [number |-> 0, step |-> "idle", mode |-> None, case |-> 1, attack |-> {}, fuzz |-> {},
   saved |-> {}, trouble |-> FALSE, properties |-> FALSE, repro |-> None, cleanup |-> "not_run",
   left |-> FALSE, rollback |-> None, exit |-> None]

StabTypeOK ==
  /\ camp.number \in 0..started
  /\ camp.step \in Phases
  /\ camp.mode \in Modes \cup {None}
  /\ camp.case \in 1..(Len(AttackCases) + Len(FuzzCases) + 1)
  /\ camp.attack \subseteq DOMAIN AttackCases
  /\ camp.fuzz \subseteq camp.saved /\ camp.saved \subseteq DOMAIN FuzzCases
  /\ camp.step = "attack" => camp.fuzz = {} /\ camp.case <= Len(AttackCases) + 1
  /\ camp.cleanup \in {"not_run", "ok", "failed"} /\ camp.left \in BOOLEAN
  /\ camp.exit \in {None, 0, 1}
  /\ out.minimized \cup out.zip \subseteq (1..camp.number) \X DOMAIN FuzzCases
  /\ \A f, g \in out.minimized : f[2] = g[2] => f = g      \* a file for each case

TypeOK == CertTypeOK /\ StabTypeOK

Init ==
  /\ CertInit /\ head["clone"] = Baseline
  /\ camp = NoCampaign
  /\ out = [evidence |-> None, findings |-> None, minimized |-> {}, zip |-> {}]

Active == camp.step \notin {"idle", "done", "aborted"}

-----------------------------------------------------------------------------
(* invoke_runner: a runner's output either parses or not; a runner that is *)
(* too slow is stopped.  The exit code does not count.                     *)
Outputs == {"met", "other", "unmet"}        \* pass, pass with another out, no pass
Replies == Outputs \cup {"silent"}          \* no output in time, or none that parses

(* A runner that prints nothing has no output.                             *)
ASSUME SilenceIsNoOutput == None \notin Replies

Crashed(r) == r = "silent"
Passes(r) == r \in {"met", "other"}

VectorFinding(rust, ts) ==
  \/ Crashed(rust) \/ Crashed(ts)
  \/ ~(Passes(rust) /\ Passes(ts))
  \/ rust # ts

(* The output of a crash is empty, and so is as stable as any other.       *)
Output(r) == IF Crashed(r) THEN None ELSE r
ReplayFinding(rust, ts) ==
  LET outputs(runs) == {Output(runs[i]) : i \in DOMAIN runs}
  IN  ~(/\ Cardinality(outputs(rust)) = 1 /\ Cardinality(outputs(ts)) = 1
        /\ Output(rust[1]) = Output(ts[1])
        /\ Passes(rust[1]) /\ Passes(ts[1]))

(* evaluate_mutation_case: a mutated vector expects to be rejected.        *)
MutationReplies == {"rejects", "accepts", "silent"}

FaultyMutationVerdict(rust, ts) ==
  IF rust # ts THEN "FOUND_BUG"
  ELSE IF rust = "rejects" THEN "INTENTIONALLY_REJECTED" ELSE "INTERESTING_ACCEPT"
MutationVerdict(rust, ts) ==
  IF Crashed(rust) \/ Crashed(ts) \/ rust # ts THEN "FOUND_BUG"
  ELSE IF rust = "rejects" THEN "INTENTIONALLY_REJECTED" ELSE "INTERESTING_ACCEPT"

(* The verdicts whose vectors are kept for somebody to look at.            *)
FaultyKeep(verdict) == verdict = "INTERESTING_ACCEPT"
Keep(verdict) == verdict \in {"FOUND_BUG", "INTERESTING_ACCEPT"}

-----------------------------------------------------------------------------
(* Directory, build of the runner, baseline commit: a failure ends the     *)
(* campaign before it has written anything.                                *)
StartCampaign(mode) ==
  /\ ~Active /\ started < MaxRuns /\ started' = started + 1
  /\ camp' = [NoCampaign EXCEPT !.number = camp.number + 1, !.mode = mode, !.step = "attack"]
  /\ run' = [run EXCEPT !["clone"] = NoRun]
  /\ bundle' = [bundle EXCEPT !["clone"] = Empty]
  /\ results' = [results EXCEPT !["clone"] = Empty]
  /\ UNCHANGED <<head, incidents, out>>

Finds(i, found, trouble) ==
  camp' = [camp EXCEPT !.case = i + 1, !.attack = IF found THEN @ \cup {i} ELSE @,
                       !.trouble = @ \/ trouble]

AttackVector(rust, ts) ==
  LET i == camp.case IN
  /\ camp.step = "attack" /\ i <= Len(AttackCases) /\ AttackCases[i].kind = "vector"
  /\ Finds(i, VectorFinding(rust, ts), {rust, ts} \notin {{"met"}, {"other"}})
  /\ UNCHANGED <<certVars, out>>

AttackReplay(rust, ts) ==
  LET i == camp.case
      seen == {rust[j] : j \in DOMAIN rust} \cup {ts[j] : j \in DOMAIN ts}
  IN  /\ camp.step = "attack" /\ i <= Len(AttackCases) /\ AttackCases[i].kind = "replay"
      /\ Finds(i, ReplayFinding(rust, ts), seen \notin {{"met"}, {"other"}})
      /\ UNCHANGED <<certVars, out>>

BeginFuzz ==
  /\ camp.step = "attack" /\ camp.case > Len(AttackCases)
  /\ camp' = [camp EXCEPT !.step = "fuzz", !.case = 1]
  /\ UNCHANGED <<certVars, out>>

FuzzCase(rust, ts) ==
  LET i == camp.case
      verdict == MutationVerdict(rust, ts)
      saved == IF Keep(verdict) THEN {i} ELSE {}
  IN  /\ camp.step = "fuzz" /\ i <= Len(FuzzCases)
      /\ camp' = [camp EXCEPT !.case = i + 1,
                              !.fuzz = IF verdict = "FOUND_BUG" THEN @ \cup {i} ELSE @,
                              !.saved = @ \cup saved,
                              !.trouble = @ \/ {rust, ts} \notin {{"rejects"}, {"accepts"}}]
      /\ out' = [out EXCEPT !.minimized =
                    {f \in @ : f[2] \notin saved} \cup ({camp.number} \X saved)]
      /\ UNCHANGED certVars

BeginProperties ==
  /\ camp.step = "fuzz" /\ camp.case > Len(FuzzCases)
  /\ camp' = [camp EXCEPT !.step = "properties"]
  /\ UNCHANGED <<certVars, out>>

-----------------------------------------------------------------------------
(* run_properties: of the Rust core with cargo, in a container, or not at  *)
(* all; and those of the runner, which leave their results beside it.      *)
RunProperties(toolchain) ==
  /\ camp.step = "properties"
  /\ camp' = [camp EXCEPT !.properties = toolchain /\ Content[head["workspace"]].lawful,
                          !.step = IF camp.mode = "deep" THEN "repro" ELSE "zip"]
  /\ results' = TestProperties("workspace")
  /\ UNCHANGED <<head, run, bundle, started, incidents, out>>

(* Removing the clone, whose files may be owned by the user of a container.*)
(* _rmtree_onerror swallows what cannot be removed, so that rmtree returns *)
(* and the status is "ok" whether or not anything is left; it is "failed"  *)
(* only when rmtree itself raises (a tree too deep for it), and the second *)
(* attempt meets the same.                                                 *)
safe_rmtree ==
  {c \in [status : {"ok", "failed"}, left : BOOLEAN] : c.status = "failed" => c.left}

(* run_repro_check: the baseline is certified in a clean clone ...         *)
StartRepro(node) ==
  /\ camp.step = "repro"
  /\ StartIn("clone", Baseline, node, Empty)
  /\ camp' = [camp EXCEPT !.step = "reproducing"]
  /\ UNCHANGED <<head, results, started, incidents, out>>

CloneFails(cleanup) ==
  /\ camp.step = "repro" /\ Incident
  /\ camp' = [camp EXCEPT !.repro = FALSE, !.cleanup = cleanup.status, !.left = cleanup.left,
                          !.step = "rollback"]
  /\ UNCHANGED <<head, run, bundle, results, started, out>>

(* ... and the clone is removed, as far as it can be.  (What was in it     *)
(* stays in run and bundle until the next campaign begins.)                *)
Observed ==
  /\ run["clone"].step = "done"
  /\ bundle["clone"]["evidence.sha256"] = BaselineSha

EndRepro(cleanup) ==
  /\ camp.step = "reproducing" /\ ~Running("clone")
  /\ camp' = [camp EXCEPT !.repro = Observed, !.cleanup = cleanup.status, !.left = cleanup.left,
                          !.step = "rollback"]
  /\ UNCHANGED <<certVars, out>>

(* run_rollback_rehearsal: what git and the release say of the baseline; a *)
(* release that is not found has no assets and is no prerelease.           *)
RollbackFacts == {"tag", "candidate", "lookup", "assets", "prerelease"}
RollbackAnswers ==
  {facts \in SUBSET RollbackFacts :
     "lookup" \notin facts => facts \cap {"assets", "prerelease"} = {}}

Rehearse(facts) ==
  /\ camp.step = "rollback"
  /\ camp' = [camp EXCEPT !.rollback = (facts = RollbackFacts \ {"candidate"}), !.step = "zip"]
  /\ UNCHANGED <<certVars, out>>

(* All minimized cases of the directory, those of earlier campaigns too.   *)
Zip ==
  /\ camp.step = "zip"
  /\ out' = [out EXCEPT !.zip = out.minimized]
  /\ camp' = [camp EXCEPT !.step = "report"]
  /\ UNCHANGED certVars

StabGates(c) ==
  [attack_matrix_pass |-> c.attack = {},
   fuzz_no_crash_or_divergence |-> c.fuzz = {},
   properties_pass |-> c.properties,
   repro_pass |-> c.mode = "smoke" \/ c.repro,
   rollback_rehearsal_pass |-> c.mode = "smoke" \/ c.rollback]

(* The evidence is written last but for the findings, which are written    *)
(* only when there are any.                                                *)
Report ==
  LET verdict == Verdict(StabGates(camp))
      evidence == [number |-> camp.number, verdict |-> verdict,
                   warning |-> camp.cleanup = "failed"]
  IN  /\ camp.step = "report"
      /\ out' = [out EXCEPT !.evidence = evidence,
                            !.findings = IF camp.attack \cup camp.fuzz = {} THEN @ ELSE camp.number]
      /\ camp' = [camp EXCEPT !.step = "done", !.exit = IF verdict = "PASS" THEN 0 ELSE 1]
      /\ UNCHANGED certVars

(* What nothing catches: a container or a tool that takes too long, a      *)
(* failing build, a missing tag; or somebody stops the campaign.  What it  *)
(* has found is lost; a clone is stopped, and may be left.                 *)
Abort ==
  /\ Active /\ Incident
  /\ \E left \in IF camp.step \in {"repro", "reproducing"} THEN BOOLEAN ELSE {camp.left} :
       camp' = [NoCampaign EXCEPT !.number = camp.number, !.step = "aborted", !.exit = 1,
                                  !.left = left]
  /\ IF camp.step = "reproducing" THEN run' = [run EXCEPT !["clone"] = NoRun] ELSE UNCHANGED run
  /\ UNCHANGED <<head, bundle, results, started, out>>

CampaignStep ==
  \/ \E mode \in Modes : StartCampaign(mode)
  \/ \E rust, ts \in Replies : AttackVector(rust, ts)
  \/ \E rust, ts \in [1..2 -> Replies] : AttackReplay(rust, ts)
  \/ \E rust, ts \in MutationReplies : FuzzCase(rust, ts)
  \/ \E toolchain \in BOOLEAN : RunProperties(toolchain)
  \/ \E node \in Nodes : StartRepro(node)
  \/ \E cleanup \in safe_rmtree : CloneFails(cleanup) \/ EndRepro(cleanup)
  \/ \E facts \in RollbackAnswers : Rehearse(facts)
  \/ BeginFuzz \/ BeginProperties \/ Zip \/ Report \/ Abort

(* Another commit is checked out (bound: while nothing runs there).        *)
Checkout(c) ==
  /\ c # head["workspace"] /\ ~Running("workspace") /\ ~Active
  /\ head' = [head EXCEPT !["workspace"] = c]
  /\ run' = [run EXCEPT !["workspace"] = NoRun]
  /\ UNCHANGED <<bundle, results, started, incidents, camp, out>>

CertificationStep ==
  \/ \E node \in Nodes : StartCertification(node)
  \/ \E w \in Places : CertStep(w)

Next ==
  \/ CertificationStep /\ UNCHANGED <<camp, out>>
  \/ CampaignStep
  \/ \E c \in Commits : Checkout(c)

Spec == Init /\ [][Next]_vars

-----------------------------------------------------------------------------
(* A campaign that ends passes, and exits with 0, exactly if both runners  *)
(* gave every case an answer that parses, in time and the same, as the     *)
(* attack cases expect it; if the property tests ran and passed; and, in a *)
(* deep campaign, if the clone ended with the certification of the base-   *)
(* line in the baseline's environment and the release is as the rollback   *)
(* needs it.  Neither a clone that is left, reported or not, nor what an   *)
(* earlier campaign left in the directory changes that; the evidence is of *)
(* this campaign, and every mutated vector it reports can be found in its  *)
(* archive.                                                                *)
Sound ==
  /\ ~camp.trouble /\ camp.properties
  /\ camp.mode = "deep" =>
       /\ run["clone"].step = "done" /\ run["clone"].node = BaselineNode
       /\ camp.rollback

VerdictIsHonest ==
  camp.step = "done" =>
    /\ camp.exit = 0 <=> Sound
    /\ out.evidence.number = camp.number
    /\ out.evidence.verdict = "PASS" <=> Sound
    /\ ({camp.number} \X camp.saved) \subseteq out.zip
    /\ camp.trouble => out.findings = camp.number

(* "cleanup runs as best-effort and emits STAB_CLEANUP_WARN on failure"    *)
(* (tools/stabilization/README.md:9-11): the evidence of a campaign that   *)
(* leaves its clone behind has the warning.  It is not so: see safe_rmtree.*)
CleanupFailureIsReported == camp.step = "done" /\ camp.left => out.evidence.warning
=============================================================================
