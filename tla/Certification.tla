--------------------------- MODULE Certification ---------------------------
(***************************************************************************)
(* tools/interop_certify.sh with the scripts it calls one after another.   *)
(* Each writes its file into the output directory, which may hold those of *)
(* an earlier run, and the first that fails ends the run.  There are two   *)
(* places it is run in: the workspace, and a clean clone that the          *)
(* stabilization campaign makes (module Stabilization).                    *)
(***************************************************************************)
EXTENDS ConformanceVectors

CONSTANTS
  Nodes,        \* versions of node
  MaxRuns,      \* bound: certifications and campaigns started
  MaxIncidents  \* bound: timeouts, failing tools, killed runs

ASSUME CertificationBounds == {MaxRuns, MaxIncidents} \subseteq Nat

Places == {"workspace", "clone"}

Steps ==
  {"idle", "check", "rust", "ts", "diverge", "properties", "collect", "summary", "seal",
   "done", "failed"}

SealedNames ==
  {"divergence-c01.json", "divergence-full.json", "inputs-hashes.json",
   "interop-evidence.json", "interop-report.md", "invariants-audit.json",
   "property-tests.json", "suite-run-rust.json", "suite-run-ts.json",
   "vector-manifest.json"}
BundleNames == SealedNames \cup {"evidence.sha256"}

VARIABLES
  head,       \* the commit checked out in a place
  run,        \* the run of interop_certify.sh there
  bundle,     \* its output directory, [names of files -> contents]
  results,    \* what the runner's scripts left beside the runner
  started,    \* certifications and campaigns started
  incidents

certVars == <<head, run, bundle, results, started, incidents>>

With(d, n, content) == [m \in DOMAIN d \cup {n} |-> IF m = n THEN content ELSE d[m]]

NoRun == [step |-> "idle", commit |-> None, node |-> None]
Empty == [n \in {} |-> None]

CertTypeOK ==
  /\ head \in [Places -> Commits]
  /\ \A w \in Places :
       /\ run[w].step \in Steps
       /\ run[w].commit \in Commits \cup {None} /\ run[w].node \in Nodes \cup {None}
       /\ run[w].step \notin {"idle", "failed"} => run[w].commit = head[w]
       /\ DOMAIN bundle[w] \subseteq BundleNames
       /\ \A n \in {"suite-run-rust.json", "suite-run-ts.json"} \cap DOMAIN bundle[w] :
            LET s == bundle[w][n] IN s.total = s.passed + Cardinality(s.failures)
  /\ started \in 0..MaxRuns /\ incidents \in 0..MaxIncidents

CertInit ==
  /\ head \in [Places -> Commits]
  /\ run = [w \in Places |-> NoRun]
  /\ bundle = [w \in Places |-> Empty]
  /\ results = [w \in Places |-> Empty]
  /\ started = 0 /\ incidents = 0

-----------------------------------------------------------------------------
Running(w) == run[w].step \notin {"idle", "done", "failed"}

Incident == incidents < MaxIncidents /\ incidents' = incidents + 1

StartIn(w, c, node, dir) ==
  /\ run' = [run EXCEPT ![w] = [step |-> "check", commit |-> c, node |-> node]]
  /\ bundle' = [bundle EXCEPT ![w] = dir]

(* In the workspace the output directory of the last run is used again.    *)
StartCertification(node) ==
  /\ ~Running("workspace") /\ started < MaxRuns
  /\ StartIn("workspace", head["workspace"], node, bundle["workspace"])
  /\ started' = started + 1
  /\ UNCHANGED <<head, results, incidents>>

(* A step of the script writes a file; then the next one runs, or none.    *)
Advance(w, ok, next) ==
  run' = [run EXCEPT ![w].step = IF ok THEN next ELSE "failed"]
Write(w, n, content) == bundle' = [bundle EXCEPT ![w] = With(bundle[w], n, content)]

(* The checks before anything is built.                                    *)
CheckSources(w) ==
  LET c == head[w] IN
  /\ run[w].step = "check"
  /\ Advance(w, /\ validate_vectors(Vectors(c))
                /\ check_runner_contract_compat(c)
                /\ Content[c].policies, "rust")
  /\ UNCHANGED <<head, bundle, results, started, incidents>>

(* A suite of one runner, some vector of which may take too long.  Where   *)
(* cargo is missing or does not build, the Rust suite runs in a container, *)
(* and its summary is copied only after a suite without failures.          *)
Suite(w, n, answer, container, next) ==
  LET s == run_suite(Vectors(head[w]), answer, run[w].commit)
      ok == s.failures = {}
  IN  /\ Advance(w, ok, next)
      /\ IF container /\ ~ok THEN UNCHANGED bundle ELSE Write(w, n, s)
      /\ UNCHANGED <<head, results, started>>

Late(answer, slow) == [n \in DOMAIN answer |-> IF n \in slow THEN "timeout" ELSE answer[n]]

RustSuite(w, container) ==
  /\ run[w].step = "rust"
  /\ Suite(w, "suite-run-rust.json", RustAnswer(head[w]), container, "ts")
  /\ UNCHANGED incidents

TsSuite(w) ==
  /\ run[w].step = "ts"
  /\ Suite(w, "suite-run-ts.json", TsAnswer(head[w]), FALSE, "diverge")
  /\ UNCHANGED incidents

SlowSuite(w, n) ==
  /\ Incident
  /\ \/ run[w].step = "rust" /\ Suite(w, "suite-run-rust.json", Late(RustAnswer(head[w]), {n}), FALSE, "ts")
     \/ run[w].step = "ts" /\ Suite(w, "suite-run-ts.json", Late(TsAnswer(head[w]), {n}), FALSE, "diverge")

(* The runner's own scripts write beside the runner, and fail by           *)
(* themselves.                                                             *)
Waves(vs) == {v \in vs : v.form = "wave"}

Diverge(w) ==
  LET c == head[w]
      c01 == divergence(c, Waves(Vectors(c)))
      full == divergence(c, Vectors(c))
  IN  /\ run[w].step = "diverge"
      /\ results' = [results EXCEPT ![w] =
                        IF c01.mismatches # {} THEN With(@, "c01", c01)
                        ELSE With(With(@, "c01", c01), "full", full)]
      /\ Advance(w, full.mismatches = {}, "properties")
      /\ UNCHANGED <<head, bundle, started, incidents>>

TestProperties(w) == [results EXCEPT ![w] = With(@, "properties", Content[head[w]].lawful)]

PropertyTests(w) ==
  /\ run[w].step = "properties"
  /\ results' = TestProperties(w)
  /\ Advance(w, Content[head[w]].lawful, "collect")
  /\ UNCHANGED <<head, bundle, started, incidents>>

(* Copies of those results, the manifest of the vectors, the hashes of the *)
(* inputs and the audit.                                                   *)
vector_manifest(c) == {<<v.vector_id, v.stem, v>> : v \in Vectors(c)}
inputs_hashes(c, node) == [locks |-> c, node_version |-> node]

Collect(w) ==
  LET c == head[w]
      files ==
        [n \in BundleNames |->
           CASE n = "divergence-c01.json" -> results[w]["c01"]
             [] n = "divergence-full.json" -> results[w]["full"]
             [] n = "property-tests.json" -> results[w]["properties"]
             [] n = "vector-manifest.json" -> vector_manifest(c)
             [] n = "inputs-hashes.json" -> inputs_hashes(c, run[w].node)
             [] n = "invariants-audit.json" -> audit(c)
             [] OTHER -> None]
      new == {n \in BundleNames : files[n] # None}
  IN  /\ run[w].step = "collect"
      /\ bundle' = [bundle EXCEPT ![w] =
                       [n \in DOMAIN @ \cup new |-> IF n \in new THEN files[n] ELSE @[n]]]
      /\ Advance(w, audit(c).status = "PASS", "summary")
      /\ UNCHANGED <<head, results, started, incidents>>

(* build_interop_summary.py: evidence and report are written with either   *)
(* verdict.                                                                *)
Gates(d) ==
  [rust_suite_pass |-> d["suite-run-rust.json"].failures = {},
   ts_suite_pass |-> d["suite-run-ts.json"].failures = {},
   divergence_c01_zero |-> d["divergence-c01.json"].mismatches = {},
   divergence_full_zero |-> d["divergence-full.json"].mismatches = {},
   property_tests_pass |-> d["property-tests.json"],
   invariants_audit_pass |-> d["invariants-audit.json"].status = "PASS"]

Verdict(gates) == IF \A g \in DOMAIN gates : gates[g] THEN "PASS" ELSE "FAIL"

Metrics(d) ==
  LET counts(n) == [total |-> d[n].total, passed |-> d[n].passed]
      total(n) == d[n].total
  IN  [rust_suite |-> counts("suite-run-rust.json"), ts_suite |-> counts("suite-run-ts.json"),
       divergence_c01 |-> total("divergence-c01.json"),
       divergence_full |-> total("divergence-full.json"),
       invariants |-> d["invariants-audit.json"].invariants_total]

Summarize(w) ==
  LET d == bundle[w]
      verdict == Verdict(Gates(d))
      evidence == [commit_sha |-> run[w].commit, verdict |-> verdict, metrics |-> Metrics(d)]
      report == <<run[w].commit, verdict>>
  IN  /\ run[w].step = "summary"
      /\ bundle' = [bundle EXCEPT ![w] =
                       With(With(d, "interop-evidence.json", evidence), "interop-report.md", report)]
      /\ Advance(w, verdict = "PASS", "seal")
      /\ UNCHANGED <<head, results, started, incidents>>

(* compute_evidence_sha.py: the hash of all files, by name.                *)
Hash(d) == [n \in SealedNames |-> d[n]]

Seal(w) ==
  LET whole == SealedNames \subseteq DOMAIN bundle[w] IN
  /\ run[w].step = "seal"
  /\ Advance(w, whole, "done")
  /\ bundle' = [bundle EXCEPT ![w] = IF whole THEN With(@, "evidence.sha256", Hash(@)) ELSE @]
  /\ UNCHANGED <<head, results, started, incidents>>

(* A tool fails, or somebody stops the script.                             *)
StopRun(w) ==
  /\ Running(w) /\ Incident
  /\ Advance(w, FALSE, "done")
  /\ UNCHANGED <<head, bundle, results, started>>

CertStep(w) ==
  \/ CheckSources(w) \/ TsSuite(w) \/ Diverge(w) \/ PropertyTests(w) \/ Collect(w)
  \/ Summarize(w) \/ Seal(w) \/ StopRun(w)
  \/ \E container \in BOOLEAN : RustSuite(w, container)
  \/ \E n \in Stems(Vectors(head[w])) : SlowSuite(w, n)

-----------------------------------------------------------------------------
(* What a certification of a commit must have found, with every vector     *)
(* answered as expected by both runners and no difference between them.    *)
Expected(c, node) ==
  LET n == Cardinality(Vectors(c))
      suite == [commit_sha |-> c, total |-> n, passed |-> n, failures |-> {}]
      waves == Cardinality(Waves(Vectors(c)))
      counts == [total |-> n, passed |-> n]
  IN  [file \in SealedNames |->
         CASE file \in {"suite-run-rust.json", "suite-run-ts.json"} -> suite
           [] file = "divergence-c01.json" -> [total |-> waves, mismatches |-> {}]
           [] file = "divergence-full.json" -> [total |-> n, mismatches |-> {}]
           [] file = "property-tests.json" -> TRUE
           [] file = "inputs-hashes.json" -> inputs_hashes(c, node)
           [] file = "vector-manifest.json" -> vector_manifest(c)
           [] file = "invariants-audit.json" -> [audit(c) EXCEPT !.status = "PASS"]
           [] file = "interop-report.md" -> <<c, "PASS">>
           [] OTHER -> [commit_sha |-> c, verdict |-> "PASS",
                        metrics |-> [rust_suite |-> counts, ts_suite |-> counts,
                                     divergence_c01 |-> waves, divergence_full |-> n,
                                     invariants |-> Cardinality(Content[c].invariants)]]]

(* What is expected of a file is never that there is none.                 *)
ASSUME NoneIsNoFile ==
  \A c \in Commits, node \in Nodes : \A n \in SealedNames : Expected(c, node)[n] # None

Certifiable(c) ==
  /\ Covers(c) /\ Content[c].lawful
  /\ Content[c].rust \cup Content[c].ts \cup Content[c].differ = {}

(* An evidence hash stands for one complete certification that passed: of  *)
(* every vector of one commit, by both runners, in one environment.  It is *)
(* a function of the two, whichever toolchain built the runner and what-   *)
(* ever the directory held before, and a run that says it is done has left *)
(* the hash of the files that are there.                                   *)
SealedIsWhole ==
  \A w \in Places :
    /\ "evidence.sha256" \in DOMAIN bundle[w] =>
         \E c \in Commits, node \in Nodes :
           Certifiable(c) /\ bundle[w]["evidence.sha256"] = Expected(c, node)
    /\ run[w].step = "done" =>
         /\ "evidence.sha256" \in DOMAIN bundle[w]
         /\ bundle[w]["evidence.sha256"] = Expected(run[w].commit, run[w].node)
         /\ Hash(bundle[w]) = bundle[w]["evidence.sha256"]
=============================================================================
