------------------------ MODULE StabilizationProofs ------------------------
(***************************************************************************)
(* Theorems about Stabilization, with the certification in the workspace   *)
(* and the one in the campaign's clone, for any commits, vectors, cases    *)
(* and bounds.                                                             *)
(***************************************************************************)
EXTENDS Stabilization, FiniteSetTheorems, TLAPS

-----------------------------------------------------------------------------
(* The invariant of a certification in one place: h is the commit checked  *)
(* out there, r the run, d its directory, s the results beside the runner. *)

RunType == [step : Steps, commit : Commits \cup {None}, node : Nodes \cup {None}]

Suites == {"suite-run-rust.json", "suite-run-ts.json"}
Results == {"divergence-c01.json", "divergence-full.json", "property-tests.json"}
Collected ==
  Results \cup {"inputs-hashes.json", "invariants-audit.json", "vector-manifest.json"}
Summaries == {"interop-evidence.json", "interop-report.md"}

AfterCheck ==
  {"rust", "ts", "diverge", "properties", "collect", "summary", "seal", "done"}
AfterRust == AfterCheck \ {"rust"}
AfterTs == AfterRust \ {"ts"}
AfterDiverge == AfterTs \ {"diverge"}
AfterProperties == AfterDiverge \ {"properties"}
AfterCollect == AfterProperties \ {"collect"}
AfterSummary == AfterCollect \ {"summary"}

Judged(c) == validate_vectors(Vectors(c)) /\ check_runner_contract_compat(c)

(* These files are there as a certification of the commit must make them.  *)
Right(d, c, node, names) ==
  names \subseteq DOMAIN d /\ \A n \in names : d[n] = Expected(c, node)[n]

SuiteAdds(d) ==
  \A n \in Suites \cap DOMAIN d : d[n].total = d[n].passed + Cardinality(d[n].failures)

HashIsWhole(d) ==
  "evidence.sha256" \in DOMAIN d =>
    \E c \in Commits, node \in Nodes :
      Certifiable(c) /\ d["evidence.sha256"] = Expected(c, node)

DirOK(d) == DOMAIN d \subseteq BundleNames /\ SuiteAdds(d) /\ HashIsWhole(d)

(* How far a run is, and what it has established by then.                  *)
Progress(r, d, s) ==
  LET c == r.commit node == r.node IN
  /\ r.step \in AfterCheck => Judged(c)
  /\ r.step \in AfterRust => Content[c].rust = {} /\ Right(d, c, node, {"suite-run-rust.json"})
  /\ r.step \in AfterTs => Content[c].ts = {} /\ Right(d, c, node, {"suite-run-ts.json"})
  /\ r.step \in AfterDiverge =>
       /\ Content[c].differ = {} /\ {"c01", "full"} \subseteq DOMAIN s
       /\ s["c01"] = Expected(c, node)["divergence-c01.json"]
       /\ s["full"] = Expected(c, node)["divergence-full.json"]
  /\ r.step \in AfterProperties => Content[c].lawful /\ s["properties"] = TRUE
  /\ r.step \in AfterCollect => audit(c).status = "PASS" /\ Right(d, c, node, Collected)
  /\ r.step \in AfterSummary => Right(d, c, node, Summaries)
  /\ r.step = "done" =>
       /\ "evidence.sha256" \in DOMAIN d /\ d["evidence.sha256"] = Hash(d)

PlaceOK(h, r, d, s) ==
  /\ r.step \notin {"idle", "failed"} => r.commit = h /\ r.node \in Nodes
  /\ DirOK(d) /\ Progress(r, d, s)

CertInv ==
  /\ head \in [Places -> Commits] /\ head["clone"] = Baseline
  /\ run \in [Places -> RunType]
  /\ bundle = [w \in Places |-> bundle[w]] /\ results = [w \in Places |-> results[w]]
  /\ started \in 0..MaxRuns /\ incidents \in 0..MaxIncidents
  /\ \A w \in Places : PlaceOK(head[w], run[w], bundle[w], results[w])

-----------------------------------------------------------------------------
(* The invariant of the campaign.                                          *)

CampType ==
  [number : Nat, step : Phases, mode : Modes \cup {None}, case : Nat,
   attack : SUBSET (DOMAIN AttackCases), fuzz : SUBSET (DOMAIN FuzzCases),
   saved : SUBSET (DOMAIN FuzzCases), trouble : BOOLEAN, properties : BOOLEAN,
   repro : BOOLEAN \cup {None}, cleanup : {"not_run", "ok", "failed"}, left : BOOLEAN,
   rollback : BOOLEAN \cup {None}, exit : {None, 0, 1}]

(* Cases: a finding is what is no good answer.                             *)
CasesOK(c) ==
  /\ c.step # "idle" => c.number >= 1
  /\ c.case \in 1..(Len(AttackCases) + Len(FuzzCases) + 1)
  /\ c.step = "attack" => c.case <= Len(AttackCases) + 1 /\ c.fuzz = {} /\ c.saved = {}
  /\ c.fuzz \subseteq c.saved
  /\ c.trouble <=> c.attack \cup c.fuzz # {}
  /\ c.step \in Phases \ {"idle", "aborted"} => c.mode \in Modes
  /\ c.step \in {"repro", "reproducing", "rollback"} => c.mode = "deep"

(* The clone: r is the run there.                                          *)
CloneOK(c, r) ==
  /\ r.step \notin {"idle", "done", "failed"} => c.step = "reproducing"
  /\ c.step \in {"attack", "fuzz", "properties", "repro"} => r.step = "idle"
  /\ c.step \in {"rollback", "zip", "report", "done"} /\ c.mode = "deep" =>
       /\ c.repro \in BOOLEAN
       /\ c.repro <=> r.step = "done" /\ r.node = BaselineNode
  /\ c.step \in {"zip", "report", "done"} /\ c.mode = "deep" => c.rollback \in BOOLEAN

(* The directory: every case this campaign has kept, once.                 *)
OutOK(c, o) ==
  /\ o = [evidence |-> o.evidence, findings |-> o.findings,
          minimized |-> o.minimized, zip |-> o.zip]
  /\ o.minimized \cup o.zip \subseteq (1..c.number) \X DOMAIN FuzzCases
  /\ \A f, g \in o.minimized : f[2] = g[2] => f = g
  /\ c.step \notin {"idle", "done", "aborted"} =>
       \A i \in c.saved : <<c.number, i>> \in o.minimized
  /\ c.step \in {"report", "done"} => \A i \in c.saved : <<c.number, i>> \in o.zip

StabInv ==
  /\ CertInv
  /\ camp \in CampType /\ camp.number <= started
  /\ CasesOK(camp) /\ CloneOK(camp, run["clone"]) /\ OutOK(camp, out)
  /\ VerdictIsHonest

-----------------------------------------------------------------------------
(* Vectors, their verdicts and their suites.                               *)

(* Vectors have as many names as there are vectors, if no two share one.   *)
LEMMA NamesCount ==
  ASSUME NEW S, IsFiniteSet(S), NEW f \in [S -> {v.stem : v \in S}],
         \A v \in S : f[v] = v.stem,
         \A v, w \in S : v.stem = w.stem => v = w
  PROVE  /\ IsFiniteSet(Stems(S)) /\ Cardinality(Stems(S)) = Cardinality(S)
<1>1. f \in Bijection(S, Stems(S))
  BY DEF Bijection, Injection, Surjection, IsInjective, Stems
<1>2. QED
  BY <1>1, FS_Bijection DEF ExistsBijection

LEMMA IdsCount ==
  ASSUME NEW S, IsFiniteSet(S), NEW f \in [S -> {v.vector_id : v \in S}],
         \A v \in S : f[v] = v.vector_id,
         \A v, w \in S : v.vector_id = w.vector_id => v = w
  PROVE  Cardinality({v.vector_id : v \in S}) = Cardinality(S)
<1>1. f \in Bijection(S, {v.vector_id : v \in S})
  BY DEF Bijection, Injection, Surjection, IsInjective
<1>2. QED
  BY <1>1, FS_Bijection DEF ExistsBijection

(* Every vector of a commit is a file of its own (the checkout).           *)
LEMMA StemsFacts ==
  ASSUME NEW c \in Commits
  PROVE  /\ IsFiniteSet(Vectors(c)) /\ IsFiniteSet(Stems(Vectors(c)))
         /\ Cardinality(Stems(Vectors(c))) = Cardinality(Vectors(c))
         /\ Cardinality(Vectors(c)) \in Nat
<1>1. PICK S : S = Vectors(c)
  OBVIOUS
<1>2. IsFiniteSet(S) /\ \A v, w \in S : v.stem = w.stem => v = w
  BY <1>1, ContentIsRead DEF Vectors
<1>3. PICK f : f = [v \in S |-> v.stem]
  OBVIOUS
<1>4. f \in [S -> {v.stem : v \in S}] /\ \A v \in S : f[v] = v.stem
  BY <1>3
<1>5. IsFiniteSet(Stems(S)) /\ Cardinality(Stems(S)) = Cardinality(S)
  BY <1>2, <1>4, NamesCount
<1>6. Cardinality(S) \in Nat
  BY <1>2, FS_CardinalityType
<1>7. QED
  BY <1>1, <1>2, <1>5, <1>6

(* What validate_vectors.py, the contract check and the audit accept is    *)
(* what a certification has to cover.                                      *)
LEMMA CoversFacts ==
  ASSUME NEW c \in Commits, Judged(c), audit(c).status = "PASS"
  PROVE  Covers(c)
<1>1. PICK S : S = Vectors(c)
  OBVIOUS
<1>2. /\ \A v \in S : ValidIdentity(v, S) /\ ValidSelector(v)
      /\ TypedTypes \subseteq PositiveTypes(S) /\ SelectorIds \subseteq SelectorsSeen(S)
      /\ OpsOf(S) = Content[c].ops
  BY <1>1 DEF Judged, validate_vectors, check_runner_contract_compat, Vectors
<1>3. \A op \in Content[c].ops : \E v \in S : v.op = op
  BY <1>2 DEF OpsOf
<1>4. \A t \in TypedTypes : \E v \in S : v.object_type = t /\ v.pass
  BY <1>2 DEF PositiveTypes
<1>5. \A i \in SelectorIds : \E v \in S : v.stem = i /\ ~v.pass
  <2>1. SUFFICES ASSUME NEW i \in SelectorIds PROVE \E v \in S : v.stem = i /\ ~v.pass
    OBVIOUS
  <2>2. PICK v \in S : v.vector_id = i
    BY <1>2 DEF SelectorsSeen
  <2>3. v.stem = i /\ ~v.pass
    BY <1>2, <2>2 DEF ValidIdentity, ValidSelector
  <2>4. QED
    BY <2>3
<1>6. Cardinality({v.vector_id : v \in S}) = Cardinality(S)
  <2>1. PICK f : f = [v \in S |-> v.vector_id]
    OBVIOUS
  <2>2. f \in [S -> {v.vector_id : v \in S}] /\ \A v \in S : f[v] = v.vector_id
    BY <2>1
  <2>3. \A v, w \in S : v.vector_id = w.vector_id => v = w
    BY <1>2 DEF ValidIdentity
  <2>4. IsFiniteSet(S)
    BY <1>1, StemsFacts
  <2>5. QED
    BY <2>2, <2>3, <2>4, IdsCount
<1>7. \A i \in Content[c].invariants :
        i.exception \/ i.statics \cap Content[c].statics # {} \/ i.vectors \cap Stems(S) # {}
  <2>1. Missing(c) \cup Uncovered(c) = {}
    BY DEF audit
  <2>2. SUFFICES ASSUME NEW i \in Content[c].invariants, ~i.exception
                 PROVE  i.statics \cap Content[c].statics # {} \/ i.vectors \cap Stems(S) # {}
    OBVIOUS
  <2>3. i.vectors \subseteq Stems(S) /\ i.statics \subseteq Content[c].statics
    BY <1>1, <2>1 DEF Missing
  <2>4. i.vectors # {} \/ i.statics # {}
    BY <2>1, <2>2 DEF Uncovered
  <2>5. QED
    BY <2>3, <2>4
<1>8. QED
  BY <1>1, <1>3, <1>4, <1>5, <1>6, <1>7 DEF Covers

SuiteIs(c, answer, k, s) ==
  /\ s.total = s.passed + Cardinality(s.failures)
  /\ s.failures = {} =>
       /\ s = [commit_sha |-> k, total |-> Cardinality(Vectors(c)),
               passed |-> Cardinality(Vectors(c)), failures |-> {}]
       /\ \A n \in Stems(Vectors(c)) : answer[n] = "pass"

(* A suite counts every vector once; without a failure every vector has    *)
(* been answered as expected (run_runner_suite.py).                        *)
LEMMA SuiteFacts ==
  ASSUME NEW c \in Commits, NEW answer, NEW k, NEW s, s = run_suite(Vectors(c), answer, k)
  PROVE  SuiteIs(c, answer, k, s)
<1>1. PICK N, P, F : /\ N = Stems(Vectors(c)) /\ P = {n \in N : answer[n] = "pass"}
                     /\ F = {n \in N : answer[n] # "pass"}
  OBVIOUS
<1>2. s = [commit_sha |-> k, total |-> Cardinality(Vectors(c)), passed |-> Cardinality(P),
           failures |-> F]
  BY <1>1 DEF run_suite
<1>3. IsFiniteSet(N) /\ Cardinality(N) = Cardinality(Vectors(c))
  BY <1>1, StemsFacts
<1>4. P = N \ F /\ F = N \cap F
  BY <1>1
<1>5. IsFiniteSet(F) /\ Cardinality(P) = Cardinality(N) - Cardinality(F)
  <2>1. Cardinality(P) = Cardinality(N) - Cardinality(N \cap F)
    BY <1>3, <1>4, FS_Difference
  <2>2. IsFiniteSet(F)
    BY <1>3, <1>4, FS_Intersection
  <2>3. QED
    BY <1>4, <2>1, <2>2
<1>6. Cardinality(N) \in Nat /\ Cardinality(F) \in Nat
  BY <1>3, <1>5, FS_CardinalityType
<1>7. s.total = s.passed + Cardinality(s.failures)
  BY <1>2, <1>3, <1>5, <1>6
<1>8. ASSUME F = {}
      PROVE  P = N /\ \A n \in N : answer[n] = "pass"
  BY <1>1, <1>8
<1>9. QED
  BY <1>1, <1>2, <1>3, <1>7, <1>8 DEF SuiteIs

(* A vector that an engine gets wrong fails the suite, in time or not.     *)
LEMMA AnswerFacts ==
  ASSUME NEW c \in Commits, NEW wrong \in SUBSET Stems(Vectors(c)), NEW slow,
         NEW a, a = Answer(c, wrong) \/ a = Late(Answer(c, wrong), slow),
         \A n \in Stems(Vectors(c)) : a[n] = "pass"
  PROVE  wrong = {}
<1>1. SUFFICES ASSUME NEW n \in wrong PROVE FALSE
  OBVIOUS
<1>2. Answer(c, wrong)[n] = "fail" /\ n \in DOMAIN Answer(c, wrong)
  BY <1>1 DEF Answer
<1>3. a[n] = "pass"
  BY <1>1
<1>4. a[n] # "pass"
  BY <1>2 DEF Late
<1>5. QED
  BY <1>3, <1>4

LEMMA ContentFacts ==
  ASSUME NEW c \in Commits
  PROVE  /\ Content[c].rust \in SUBSET Stems(Vectors(c))
         /\ Content[c].ts \in SUBSET Stems(Vectors(c))
         /\ Content[c].differ \in SUBSET Stems(Vectors(c))
         /\ Content[c].lawful \in BOOLEAN
BY ContentIsRead DEF Vectors

(* Two runners that agree on every vector agree on those of the waves.     *)
LEMMA DivergenceFacts ==
  ASSUME NEW c \in Commits, divergence(c, Vectors(c)).mismatches = {}
  PROVE  /\ Content[c].differ = {}
         /\ divergence(c, Vectors(c)) = [total |-> Cardinality(Vectors(c)), mismatches |-> {}]
         /\ divergence(c, Waves(Vectors(c)))
              = [total |-> Cardinality(Waves(Vectors(c))), mismatches |-> {}]
<1>1. \A n \in Stems(Vectors(c)) :
        ~(n \in Content[c].differ \/ RustAnswer(c)[n] # TsAnswer(c)[n])
  BY DEF divergence
<1>2. Content[c].differ = {}
  BY <1>1, ContentFacts
<1>3. Stems(Waves(Vectors(c))) \subseteq Stems(Vectors(c))
  BY DEF Stems, Waves
<1>4. {n \in Stems(Waves(Vectors(c))) :
         n \in Content[c].differ \/ RustAnswer(c)[n] # TsAnswer(c)[n]} = {}
  BY <1>1, <1>3
<1>5. {n \in Stems(Vectors(c)) :
         n \in Content[c].differ \/ RustAnswer(c)[n] # TsAnswer(c)[n]} = {}
  BY <1>1
<1>6. QED
  BY <1>2, <1>4, <1>5 DEF divergence

ExpectedIs(e, c, node, n, waves) ==
  /\ e = [f \in SealedNames |-> e[f]]
  /\ \A f \in Suites :
       e[f] = [commit_sha |-> c, total |-> n, passed |-> n, failures |-> {}]
  /\ e["divergence-c01.json"] = [total |-> waves, mismatches |-> {}]
  /\ e["divergence-full.json"] = [total |-> n, mismatches |-> {}]
  /\ e["property-tests.json"] = TRUE
  /\ e["inputs-hashes.json"] = inputs_hashes(c, node)
  /\ e["vector-manifest.json"] = vector_manifest(c)
  /\ e["invariants-audit.json"] = [audit(c) EXCEPT !.status = "PASS"]
  /\ e["interop-report.md"] = <<c, "PASS">>
  /\ e["interop-evidence.json"] =
       [commit_sha |-> c, verdict |-> "PASS",
        metrics |-> [rust_suite |-> [total |-> n, passed |-> n],
                     ts_suite |-> [total |-> n, passed |-> n],
                     divergence_c01 |-> waves, divergence_full |-> n,
                     invariants |-> Cardinality(Content[c].invariants)]]

(* The files a certification must make, one by one.                        *)
LEMMA ExpectedFacts ==
  ASSUME NEW c, NEW node, NEW e, e = Expected(c, node), NEW n, n = Cardinality(Vectors(c)),
         NEW waves, waves = Cardinality(Waves(Vectors(c)))
  PROVE  ExpectedIs(e, c, node, n, waves)
<1>1. e = [f \in SealedNames |-> e[f]]
  BY DEF Expected
<1>2. \A f \in Suites :
        e[f] = [commit_sha |-> c, total |-> n, passed |-> n, failures |-> {}]
  BY DEF Expected, SealedNames, Suites
<1>3. e["divergence-c01.json"] = [total |-> waves, mismatches |-> {}]
  BY DEF Expected, SealedNames
<1>4. e["divergence-full.json"] = [total |-> n, mismatches |-> {}]
  BY DEF Expected, SealedNames
<1>5. e["property-tests.json"] = TRUE
  BY DEF Expected, SealedNames
<1>6. e["inputs-hashes.json"] = inputs_hashes(c, node)
  BY DEF Expected, SealedNames
<1>7. e["vector-manifest.json"] = vector_manifest(c)
  BY DEF Expected, SealedNames
<1>8. e["invariants-audit.json"] = [audit(c) EXCEPT !.status = "PASS"]
  BY DEF Expected, SealedNames
<1>9. e["interop-report.md"] = <<c, "PASS">>
  BY DEF Expected, SealedNames
<1>10. e["interop-evidence.json"] =
         [commit_sha |-> c, verdict |-> "PASS",
          metrics |-> [rust_suite |-> [total |-> n, passed |-> n],
                       ts_suite |-> [total |-> n, passed |-> n],
                       divergence_c01 |-> waves, divergence_full |-> n,
                       invariants |-> Cardinality(Content[c].invariants)]]
  BY DEF Expected, SealedNames
<1>11. QED
  BY <1>1, <1>2, <1>3, <1>4, <1>5, <1>6, <1>7, <1>8, <1>9, <1>10 DEF ExpectedIs

-----------------------------------------------------------------------------
(* Directories.                                                            *)

LEMMA RightWith ==
  ASSUME NEW d, NEW c, NEW node, NEW names, Right(d, c, node, names),
         NEW n, n \notin names, NEW x, NEW f, f = With(d, n, x)
  PROVE  Right(f, c, node, names)
<1>1. DOMAIN d \subseteq DOMAIN f /\ \A k \in DOMAIN d : k # n => f[k] = d[k]
  BY DEF With
<1>2. QED
  BY <1>1 DEF Right

LEMMA DirWith ==
  ASSUME NEW d, DirOK(d), NEW n \in SealedNames, NEW x, NEW f, f = With(d, n, x),
         n \in Suites => x.total = x.passed + Cardinality(x.failures)
  PROVE  DirOK(f)
<1>1. /\ DOMAIN f = DOMAIN d \cup {n} /\ f[n] = x
      /\ \A k \in DOMAIN d : k # n => f[k] = d[k]
  BY DEF With
<1>2. n # "evidence.sha256" /\ n \in BundleNames
  BY DEF SealedNames, BundleNames
<1>3. SuiteAdds(f)
  BY <1>1 DEF DirOK, SuiteAdds
<1>4. HashIsWhole(f)
  BY <1>1, <1>2 DEF DirOK, HashIsWhole
<1>5. QED
  BY <1>1, <1>2, <1>3, <1>4 DEF DirOK

LEMMA EmptyOK == DirOK(Empty) /\ DOMAIN Empty = {}
BY DEF DirOK, SuiteAdds, HashIsWhole, Empty

-----------------------------------------------------------------------------
(* Places.                                                                 *)

(* A run that has failed or not begun has established nothing.             *)
LEMMA NothingDone ==
  ASSUME NEW h, NEW r, NEW d, NEW s, r.step \in {"idle", "failed"}, DirOK(d)
  PROVE  PlaceOK(h, r, d, s)
BY DEF PlaceOK, Progress, AfterCheck, AfterRust, AfterTs, AfterDiverge, AfterProperties,
       AfterCollect, AfterSummary

LEMMA PlaceAfter ==
  ASSUME CertInv, NEW w \in Places, NEW r \in RunType, NEW d, NEW s,
         run' = [run EXCEPT ![w] = r], bundle' = [bundle EXCEPT ![w] = d],
         results' = [results EXCEPT ![w] = s],
         head' \in [Places -> Commits], head'["clone"] = Baseline,
         \A q \in Places : q # w => head'[q] = head[q],
         started' \in 0..MaxRuns, incidents' \in 0..MaxIncidents,
         PlaceOK(head'[w], r, d, s)
  PROVE  CertInv'
<1>1. /\ DOMAIN run = Places /\ DOMAIN bundle = Places /\ DOMAIN results = Places
      /\ run \in [Places -> RunType]
  BY DEF CertInv
<1>2. /\ run' \in [Places -> RunType] /\ run'[w] = r
      /\ bundle' = [q \in Places |-> bundle'[q]] /\ bundle'[w] = d
      /\ results' = [q \in Places |-> results'[q]] /\ results'[w] = s
  BY <1>1
<1>3. \A q \in Places : q # w =>
        run'[q] = run[q] /\ bundle'[q] = bundle[q] /\ results'[q] = results[q]
  BY <1>1
<1>4. \A q \in Places : PlaceOK(head[q], run[q], bundle[q], results[q])
  BY DEF CertInv
<1>5. \A q \in Places : PlaceOK(head'[q], run'[q], bundle'[q], results'[q])
  BY <1>2, <1>3, <1>4
<1>6. QED
  BY <1>2, <1>5 DEF CertInv

LEMMA SameFun ==
  ASSUME CertInv, NEW w \in Places
  PROVE  /\ bundle = [bundle EXCEPT ![w] = bundle[w]]
         /\ results = [results EXCEPT ![w] = results[w]]
         /\ head[w] \in Commits /\ run[w] \in RunType
         /\ PlaceOK(head[w], run[w], bundle[w], results[w])
<1>1. bundle = [q \in Places |-> bundle[q]] /\ results = [q \in Places |-> results[q]]
  BY DEF CertInv
<1>2. bundle = [bundle EXCEPT ![w] = bundle[w]]
  BY <1>1
<1>3. results = [results EXCEPT ![w] = results[w]]
  BY <1>1
<1>4. QED
  BY <1>2, <1>3 DEF CertInv

LEMMA StepTo ==
  ASSUME CertInv, NEW w \in Places, NEW step \in Steps,
         run' = [run EXCEPT ![w].step = step]
  PROVE  \E r \in RunType : /\ run' = [run EXCEPT ![w] = r] /\ r.step = step
                            /\ r.commit = run[w].commit /\ r.node = run[w].node
<1>1. run \in [Places -> RunType] /\ run[w] \in RunType
  BY DEF CertInv
<1>2. PICK r : r = [run[w] EXCEPT !.step = step]
  OBVIOUS
<1>3. r \in RunType /\ r.step = step /\ r.commit = run[w].commit /\ r.node = run[w].node
  BY <1>1, <1>2 DEF RunType
<1>4. run' = [run EXCEPT ![w] = r]
  BY <1>1, <1>2
<1>5. QED
  BY <1>3, <1>4

(* A step of a run that goes on has to establish what the next step needs. *)
LEMMA StepKeeps ==
  ASSUME CertInv, NEW w \in Places, NEW r \in RunType, NEW d, NEW s,
         run[w].step \notin {"idle", "failed"},
         r.commit = run[w].commit, r.node = run[w].node,
         run' = [run EXCEPT ![w] = r], bundle' = [bundle EXCEPT ![w] = d],
         results' = [results EXCEPT ![w] = s], head' = head, started' = started,
         incidents' \in 0..MaxIncidents, DirOK(d),
         r.step # "failed" => Progress(r, d, s)
  PROVE  CertInv'
<1>1. r.commit = head[w] /\ r.node \in Nodes
  BY SameFun DEF PlaceOK
<1>2. PlaceOK(head[w], r, d, s)
  <2>1. CASE r.step = "failed"
    BY <2>1, NothingDone
  <2>2. CASE r.step # "failed"
    BY <1>1, <2>2 DEF PlaceOK
  <2>3. QED
    BY <2>1, <2>2
<1>3. /\ head' \in [Places -> Commits] /\ head'["clone"] = Baseline
      /\ started' \in 0..MaxRuns /\ head'[w] = head[w]
  BY DEF CertInv
<1>4. \A q \in Places : q # w => head'[q] = head[q]
  OBVIOUS
<1>5. QED
  BY <1>2, <1>3, <1>4, PlaceAfter

(* What is known while a run is at a step.                                 *)
LEMMA AtStep ==
  ASSUME CertInv, NEW w \in Places, run[w].step \notin {"idle", "failed"}
  PROVE  /\ run[w].commit = head[w] /\ head[w] \in Commits /\ run[w].node \in Nodes
         /\ DirOK(bundle[w]) /\ Progress(run[w], bundle[w], results[w])
BY SameFun DEF PlaceOK

LEMMA CheckSourcesKeeps ==
  ASSUME CertInv, NEW w \in Places, CheckSources(w)
  PROVE  CertInv'
<1>1. PICK ok \in BOOLEAN : ok <=> Judged(head[w]) /\ Content[head[w]].policies
  OBVIOUS
<1>2. PICK step \in Steps : step = IF ok THEN "rust" ELSE "failed"
  BY DEF Steps
<1>3. run' = [run EXCEPT ![w].step = step]
  BY <1>1, <1>2 DEF CheckSources, Advance, Judged
<1>4. /\ run[w].step = "check" /\ UNCHANGED <<head, bundle, results, started, incidents>>
  BY DEF CheckSources
<1>5. /\ bundle' = [bundle EXCEPT ![w] = bundle[w]] /\ results' = [results EXCEPT ![w] = results[w]]
      /\ DirOK(bundle[w]) /\ incidents' \in 0..MaxIncidents
  BY <1>4, SameFun DEF PlaceOK, CertInv
<1>6. PICK r \in RunType : /\ run' = [run EXCEPT ![w] = r] /\ r.step = step
                           /\ r.commit = run[w].commit /\ r.node = run[w].node
  BY <1>3, StepTo
<1>7. r.commit = head[w]
  BY <1>4, <1>6, AtStep
<1>8. ASSUME r.step # "failed"
      PROVE  Progress(r, bundle[w], results[w])
  BY <1>1, <1>2, <1>6, <1>7, <1>8 DEF Progress, AfterCheck, AfterRust, AfterTs, AfterDiverge, AfterProperties,
       AfterCollect, AfterSummary
<1>9. run[w].step \notin {"idle", "failed"}
  BY <1>4
<1>10. QED
  BY <1>4, <1>5, <1>6, <1>8, <1>9, StepKeeps

LEMMA SuiteKeeps ==
  ASSUME CertInv, NEW w \in Places, NEW a, NEW container \in BOOLEAN, NEW n, NEW next, NEW wrong,
         \/ run[w].step = "rust" /\ n = "suite-run-rust.json" /\ next = "ts"
              /\ wrong = Content[head[w]].rust
         \/ run[w].step = "ts" /\ n = "suite-run-ts.json" /\ next = "diverge"
              /\ wrong = Content[head[w]].ts,
         \/ a = Answer(head[w], wrong)
         \/ \E slow : a = Late(Answer(head[w], wrong), slow),
         Suite(w, n, a, container, next), incidents' \in 0..MaxIncidents
  PROVE  CertInv'
<1>1. /\ run[w].commit = head[w] /\ head[w] \in Commits /\ run[w].node \in Nodes
      /\ DirOK(bundle[w]) /\ Progress(run[w], bundle[w], results[w])
  BY AtStep
<1>2. PICK c, k, s : c = head[w] /\ k = run[w].commit /\ s = run_suite(Vectors(c), a, k)
  OBVIOUS
<1>3. /\ s.total = s.passed + Cardinality(s.failures)
      /\ s.failures = {} =>
           /\ s = [commit_sha |-> head[w], total |-> Cardinality(Vectors(head[w])),
                   passed |-> Cardinality(Vectors(head[w])), failures |-> {}]
           /\ \A i \in Stems(Vectors(head[w])) : a[i] = "pass"
  <2>1. c \in Commits /\ c = k
    BY <1>1, <1>2
  <2>2. SuiteIs(c, a, k, s)
    BY <1>2, <2>1, SuiteFacts
  <2>3. QED
    BY <1>2, <2>1, <2>2 DEF SuiteIs
<1>4. PICK ok \in BOOLEAN : ok <=> s.failures = {}
  OBVIOUS
<1>5. PICK step \in Steps : step = IF ok THEN next ELSE "failed"
  BY DEF Steps
<1>6. PICK d : d = IF container /\ ~ok THEN bundle[w] ELSE With(bundle[w], n, s)
  OBVIOUS
<1>7. run' = [run EXCEPT ![w].step = step]
  BY <1>2, <1>4, <1>5 DEF Suite, Advance
<1>8. /\ IF container /\ ~ok THEN bundle' = bundle ELSE Write(w, n, s)
      /\ UNCHANGED <<head, results, started>>
  BY <1>2, <1>4, <1>5 DEF Suite, Advance
<1>9. /\ bundle' = [bundle EXCEPT ![w] = d] /\ results' = [results EXCEPT ![w] = results[w]]
  BY <1>6, <1>8, SameFun DEF Write
<1>10. n \in SealedNames /\ n \in Suites
  BY DEF SealedNames, Suites
<1>11. DirOK(With(bundle[w], n, s))
  BY <1>1, <1>3, <1>10, DirWith
<1>12. DirOK(d)
  BY <1>1, <1>6, <1>11
<1>13. PICK r \in RunType : /\ run' = [run EXCEPT ![w] = r] /\ r.step = step
                            /\ r.commit = run[w].commit /\ r.node = run[w].node
  BY <1>7, StepTo
<1>14. r.commit = head[w]
  BY <1>1, <1>13
<1>15. ASSUME r.step # "failed"
       PROVE  Progress(r, d, results[w])
  <2>1. s.failures = {} /\ d = With(bundle[w], n, s) /\ r.step = next
    BY <1>4, <1>5, <1>6, <1>15, <1>13
  <2>2. wrong \in SUBSET Stems(Vectors(head[w]))
    BY <1>1, ContentFacts
  <2>3. wrong = {}
    BY <1>1, <1>3, <2>1, <2>2, AnswerFacts
  <2>4. s = Expected(head[w], r.node)[n]
    <3>1. PICK e, t, waves : /\ e = Expected(head[w], r.node) /\ t = Cardinality(Vectors(head[w]))
                             /\ waves = Cardinality(Waves(Vectors(head[w])))
      OBVIOUS
    <3>2. ExpectedIs(e, head[w], r.node, t, waves)
      BY <3>1, ExpectedFacts
    <3>3. QED
      BY <1>3, <1>10, <2>1, <3>1, <3>2 DEF ExpectedIs
  <2>5. n \in DOMAIN d /\ d[n] = s
    BY <2>1 DEF With
  <2>6. Right(d, head[w], r.node, {n})
    BY <2>4, <2>5 DEF Right
  <2>7. CASE run[w].step = "rust" /\ n = "suite-run-rust.json" /\ next = "ts"
                /\ wrong = Content[head[w]].rust
    <3>1. Judged(head[w])
      BY <1>1, <2>7 DEF Progress, AfterCheck
    <3>2. QED
      BY <1>13, <1>14, <2>1, <2>3, <2>6, <2>7, <3>1 DEF Progress, AfterCheck, AfterRust, AfterTs,
         AfterDiverge, AfterProperties, AfterCollect, AfterSummary
  <2>8. CASE run[w].step = "ts" /\ n = "suite-run-ts.json" /\ next = "diverge"
                /\ wrong = Content[head[w]].ts
    <3>1. /\ Judged(head[w]) /\ Content[head[w]].rust = {}
          /\ Right(bundle[w], head[w], r.node, {"suite-run-rust.json"})
      BY <1>1, <1>13, <1>14, <2>8 DEF Progress, AfterCheck, AfterRust
    <3>2. Right(d, head[w], r.node, {"suite-run-rust.json"})
      BY <2>1, <2>8, <3>1, RightWith
    <3>3. QED
      BY <1>13, <1>14, <2>1, <2>3, <2>6, <2>8, <3>1, <3>2 DEF Progress, AfterCheck, AfterRust, AfterTs,
         AfterDiverge, AfterProperties, AfterCollect, AfterSummary
  <2>9. QED
    BY <2>7, <2>8
<1>16. run[w].step \notin {"idle", "failed"}
  OBVIOUS
<1>17. head' = head /\ started' = started
  BY <1>8
<1>18. QED
  BY <1>9, <1>12, <1>15, <1>16, <1>13, <1>17, StepKeeps

(* The results kept beside the runner are those of the commit's runners.   *)
LEMMA DivergeKeeps ==
  ASSUME CertInv, NEW w \in Places, Diverge(w)
  PROVE  CertInv'
<1>1. run[w].step = "diverge" /\ UNCHANGED <<head, bundle, started, incidents>>
  BY DEF Diverge
<1>2. /\ run[w].commit = head[w] /\ head[w] \in Commits /\ run[w].node \in Nodes
      /\ DirOK(bundle[w]) /\ Progress(run[w], bundle[w], results[w])
  BY <1>1, AtStep
<1>3. PICK c01, full : /\ c01 = divergence(head[w], Waves(Vectors(head[w])))
                       /\ full = divergence(head[w], Vectors(head[w]))
  OBVIOUS
<1>4. PICK ok \in BOOLEAN : ok <=> full.mismatches = {}
  OBVIOUS
<1>5. PICK step \in Steps : step = IF ok THEN "properties" ELSE "failed"
  BY DEF Steps
<1>6. run' = [run EXCEPT ![w].step = step]
  BY <1>3, <1>4, <1>5 DEF Diverge, Advance
<1>7. PICK r \in RunType : /\ run' = [run EXCEPT ![w] = r] /\ r.step = step
                           /\ r.commit = run[w].commit /\ r.node = run[w].node
  BY <1>6, StepTo
<1>8. PICK x : x = IF c01.mismatches # {} THEN With(results[w], "c01", c01)
                   ELSE With(With(results[w], "c01", c01), "full", full)
  OBVIOUS
<1>9. results' = [results EXCEPT ![w] = x]
  BY <1>3, <1>8 DEF Diverge
<1>10. bundle' = [bundle EXCEPT ![w] = bundle[w]]
  BY <1>1, SameFun
<1>11. ASSUME r.step # "failed"
       PROVE  Progress(r, bundle[w], x)
  <2>1. full.mismatches = {} /\ r.step = "properties" /\ r.commit = head[w]
    BY <1>2, <1>4, <1>5, <1>7, <1>11
  <2>2. PICK e, n, waves : /\ e = Expected(head[w], r.node) /\ n = Cardinality(Vectors(head[w]))
                           /\ waves = Cardinality(Waves(Vectors(head[w])))
    OBVIOUS
  <2>3. ExpectedIs(e, head[w], r.node, n, waves)
    BY <2>2, ExpectedFacts
  <2>4. /\ Content[head[w]].differ = {}
        /\ full = [total |-> n, mismatches |-> {}] /\ c01 = [total |-> waves, mismatches |-> {}]
    BY <1>2, <1>3, <2>1, <2>2, DivergenceFacts
  <2>5. x = With(With(results[w], "c01", c01), "full", full)
    BY <1>8, <2>4
  <2>6. {"c01", "full"} \subseteq DOMAIN x /\ x["c01"] = c01 /\ x["full"] = full
    BY <2>5 DEF With
  <2>7. /\ x["c01"] = Expected(head[w], r.node)["divergence-c01.json"]
        /\ x["full"] = Expected(head[w], r.node)["divergence-full.json"]
    BY <2>2, <2>3, <2>4, <2>6 DEF ExpectedIs
  <2>8. /\ Judged(head[w]) /\ Content[head[w]].rust = {} /\ Content[head[w]].ts = {}
        /\ Right(bundle[w], head[w], r.node, {"suite-run-rust.json"})
        /\ Right(bundle[w], head[w], r.node, {"suite-run-ts.json"})
    BY <1>1, <1>2, <1>7 DEF Progress, AfterCheck, AfterRust, AfterTs
  <2>9. QED
    BY <2>1, <2>4, <2>6, <2>7, <2>8 DEF Progress, AfterCheck, AfterRust, AfterTs, AfterDiverge,
       AfterProperties, AfterCollect, AfterSummary
<1>12. /\ head' = head /\ started' = started /\ incidents' \in 0..MaxIncidents
       /\ run[w].step \notin {"idle", "failed"}
  BY <1>1 DEF CertInv
<1>13. QED
  BY <1>2, <1>7, <1>9, <1>10, <1>11, <1>12, StepKeeps

LEMMA PropertyTestsKeep ==
  ASSUME CertInv, NEW w \in Places, PropertyTests(w)
  PROVE  CertInv'
<1>1. run[w].step = "properties" /\ UNCHANGED <<head, bundle, started, incidents>>
  BY DEF PropertyTests
<1>2. /\ run[w].commit = head[w] /\ head[w] \in Commits /\ run[w].node \in Nodes
      /\ DirOK(bundle[w]) /\ Progress(run[w], bundle[w], results[w])
  BY <1>1, AtStep
<1>3. PICK ok \in BOOLEAN : ok = Content[head[w]].lawful
  BY <1>2, ContentFacts
<1>4. PICK step \in Steps : step = IF ok THEN "collect" ELSE "failed"
  BY DEF Steps
<1>5. run' = [run EXCEPT ![w].step = step]
  BY <1>3, <1>4 DEF PropertyTests, Advance
<1>6. PICK r \in RunType : /\ run' = [run EXCEPT ![w] = r] /\ r.step = step
                           /\ r.commit = run[w].commit /\ r.node = run[w].node
  BY <1>5, StepTo
<1>7. PICK x : x = With(results[w], "properties", ok)
  OBVIOUS
<1>8. results' = [results EXCEPT ![w] = x]
  BY <1>3, <1>7 DEF PropertyTests, TestProperties
<1>9. bundle' = [bundle EXCEPT ![w] = bundle[w]]
  BY <1>1, SameFun
<1>10. ASSUME r.step # "failed"
       PROVE  Progress(r, bundle[w], x)
  <2>1. ok = TRUE /\ r.step = "collect" /\ r.commit = head[w]
    BY <1>2, <1>4, <1>6, <1>10
  <2>2. {"c01", "full"} \subseteq DOMAIN results[w]
    BY <1>1, <1>2 DEF Progress, AfterDiverge, AfterTs, AfterRust, AfterCheck
  <2>3. {"c01", "full"} \subseteq DOMAIN x
    BY <1>7, <2>2 DEF With
  <2>4. x["properties"] = TRUE /\ x["c01"] = results[w]["c01"] /\ x["full"] = results[w]["full"]
    BY <1>7, <2>1, <2>2 DEF With
  <2>5. QED
    BY <1>1, <1>2, <1>3, <1>6, <2>1, <2>3, <2>4 DEF Progress, AfterCheck, AfterRust, AfterTs,
       AfterDiverge, AfterProperties, AfterCollect, AfterSummary
<1>11. /\ head' = head /\ started' = started /\ incidents' \in 0..MaxIncidents
       /\ run[w].step \notin {"idle", "failed"}
  BY <1>1 DEF CertInv
<1>12. QED
  BY <1>2, <1>6, <1>8, <1>9, <1>10, <1>11, StepKeeps

(* What is collected is the results of the commit, and nothing else of the *)
(* directory changes.                                                      *)
LEMMA CollectKeeps ==
  ASSUME CertInv, NEW w \in Places, Collect(w)
  PROVE  CertInv'
<1>1. run[w].step = "collect" /\ UNCHANGED <<head, results, started, incidents>>
  BY DEF Collect
<1>2. /\ run[w].commit = head[w] /\ head[w] \in Commits /\ run[w].node \in Nodes
      /\ DirOK(bundle[w]) /\ Progress(run[w], bundle[w], results[w])
  BY <1>1, AtStep
<1>3. PICK ok \in BOOLEAN : ok <=> audit(head[w]).status = "PASS"
  OBVIOUS
<1>4. PICK step \in Steps : step = IF ok THEN "summary" ELSE "failed"
  BY DEF Steps
<1>5. run' = [run EXCEPT ![w].step = step]
  BY <1>3, <1>4 DEF Collect, Advance
<1>6. PICK r \in RunType : /\ run' = [run EXCEPT ![w] = r] /\ r.step = step
                           /\ r.commit = run[w].commit /\ r.node = run[w].node
  BY <1>5, StepTo
<1>7. PICK files :
        files = [n \in BundleNames |->
           CASE n = "divergence-c01.json" -> results[w]["c01"]
             [] n = "divergence-full.json" -> results[w]["full"]
             [] n = "property-tests.json" -> results[w]["properties"]
             [] n = "vector-manifest.json" -> vector_manifest(head[w])
             [] n = "inputs-hashes.json" -> inputs_hashes(head[w], run[w].node)
             [] n = "invariants-audit.json" -> audit(head[w])
             [] OTHER -> None]
  OBVIOUS
<1>8. PICK new : new = {n \in BundleNames : files[n] # None}
  OBVIOUS
<1>9. PICK d : d = [n \in DOMAIN bundle[w] \cup new |->
                      IF n \in new THEN files[n] ELSE bundle[w][n]]
  OBVIOUS
<1>10. bundle' = [bundle EXCEPT ![w] = d]
  BY <1>7, <1>8, <1>9 DEF Collect
<1>11. results' = [results EXCEPT ![w] = results[w]]
  BY <1>1, SameFun
<1>12. /\ files["divergence-c01.json"] = results[w]["c01"]
       /\ files["divergence-full.json"] = results[w]["full"]
       /\ files["property-tests.json"] = results[w]["properties"]
       /\ files["vector-manifest.json"] = vector_manifest(head[w])
       /\ files["inputs-hashes.json"] = inputs_hashes(head[w], run[w].node)
       /\ files["invariants-audit.json"] = audit(head[w])
  BY <1>7 DEF BundleNames, SealedNames
<1>13. \A n \in BundleNames \ Collected : files[n] = None
  BY <1>7 DEF Collected, Results
<1>14. new \subseteq Collected
  BY <1>8, <1>13
<1>15. Collected \subseteq SealedNames /\ SealedNames \subseteq BundleNames
  BY DEF Collected, Results, SealedNames, BundleNames
<1>16. DirOK(d)
  <2>1. DOMAIN d \subseteq BundleNames
    BY <1>2, <1>9, <1>14, <1>15 DEF DirOK
  <2>2. \A n \in Suites \cup {"evidence.sha256"} : n \notin Collected
    BY DEF Suites, Collected, Results
  <2>3. \A n \in Suites \cup {"evidence.sha256"} :
          n \in DOMAIN d => n \in DOMAIN bundle[w] /\ d[n] = bundle[w][n]
    BY <1>9, <1>14, <2>2
  <2>4. SuiteAdds(d)
    BY <1>2, <2>3 DEF DirOK, SuiteAdds
  <2>5. HashIsWhole(d)
    BY <1>2, <2>3 DEF DirOK, HashIsWhole
  <2>6. QED
    BY <2>1, <2>4, <2>5 DEF DirOK
<1>17. ASSUME r.step # "failed"
       PROVE  Progress(r, d, results[w])
  <2>1. ok = TRUE /\ r.step = "summary" /\ r.commit = head[w]
    BY <1>2, <1>4, <1>6, <1>17
  <2>2. /\ Judged(head[w]) /\ Content[head[w]].rust = {} /\ Content[head[w]].ts = {}
        /\ Right(bundle[w], head[w], r.node, {"suite-run-rust.json"})
        /\ Right(bundle[w], head[w], r.node, {"suite-run-ts.json"})
        /\ Content[head[w]].differ = {} /\ {"c01", "full"} \subseteq DOMAIN results[w]
        /\ results[w]["c01"] = Expected(head[w], r.node)["divergence-c01.json"]
        /\ results[w]["full"] = Expected(head[w], r.node)["divergence-full.json"]
        /\ Content[head[w]].lawful /\ results[w]["properties"] = TRUE
    BY <1>1, <1>2, <1>6 DEF Progress, AfterCheck, AfterRust, AfterTs, AfterDiverge,
       AfterProperties
  <2>3. PICK e, n, waves : /\ e = Expected(head[w], r.node) /\ n = Cardinality(Vectors(head[w]))
                           /\ waves = Cardinality(Waves(Vectors(head[w])))
    OBVIOUS
  <2>4. ExpectedIs(e, head[w], r.node, n, waves)
    BY <2>3, ExpectedFacts
  <2>5. [audit(head[w]) EXCEPT !.status = "PASS"] = audit(head[w])
    BY <1>3, <2>1 DEF audit
  <2>6. \A m \in Collected : files[m] = e[m]
    <3>1. /\ files["divergence-c01.json"] = e["divergence-c01.json"]
          /\ files["divergence-full.json"] = e["divergence-full.json"]
      BY <1>12, <2>2, <2>3
    <3>2. files["property-tests.json"] = e["property-tests.json"]
      BY <1>12, <2>2, <2>4 DEF ExpectedIs
    <3>3. /\ files["vector-manifest.json"] = e["vector-manifest.json"]
          /\ files["inputs-hashes.json"] = e["inputs-hashes.json"]
      BY <1>6, <1>12, <2>4 DEF ExpectedIs
    <3>4. files["invariants-audit.json"] = e["invariants-audit.json"]
      BY <1>12, <2>4, <2>5 DEF ExpectedIs
    <3>5. QED
      BY <3>1, <3>2, <3>3, <3>4 DEF Collected, Results
  <2>7. \A m \in SealedNames : e[m] # None
    BY <1>2, <1>6, <2>3, NoneIsNoFile
  <2>8. \A m \in Collected : m \in new
    BY <1>8, <1>15, <2>6, <2>7
  <2>9. Right(d, head[w], r.node, Collected)
    BY <1>9, <2>3, <2>6, <2>8 DEF Right
  <2>10. \A m \in Suites : m \notin new
    BY <1>14 DEF Suites, Collected, Results
  <2>11. /\ Right(d, head[w], r.node, {"suite-run-rust.json"})
         /\ Right(d, head[w], r.node, {"suite-run-ts.json"})
    BY <1>9, <2>2, <2>10 DEF Right, Suites
  <2>12. audit(head[w]).status = "PASS"
    BY <1>3, <2>1
  <2>13. QED
    BY <2>1, <2>2, <2>9, <2>11, <2>12 DEF Progress, AfterCheck, AfterRust, AfterTs, AfterDiverge,
       AfterProperties, AfterCollect, AfterSummary
<1>18. /\ head' = head /\ started' = started /\ incidents' \in 0..MaxIncidents
       /\ run[w].step \notin {"idle", "failed"}
  BY <1>1 DEF CertInv
<1>19. QED
  BY <1>6, <1>10, <1>11, <1>16, <1>17, <1>18, StepKeeps

(* What a run has by its summary, file by file.                            *)
LEMMA AllRight ==
  ASSUME NEW c, NEW node, NEW d, NEW s, NEW r, r.commit = c, r.node = node,
         r.step \in AfterCollect, Progress(r, d, s)
  PROVE  /\ Judged(c) /\ audit(c).status = "PASS" /\ Content[c].lawful
         /\ Content[c].rust = {} /\ Content[c].ts = {} /\ Content[c].differ = {}
         /\ Right(d, c, node, {"suite-run-rust.json"}) /\ Right(d, c, node, {"suite-run-ts.json"})
         /\ Right(d, c, node, Collected)
BY DEF Progress, AfterCheck, AfterRust, AfterTs, AfterDiverge, AfterProperties, AfterCollect

(* A summary that passes is the one expected: its numbers are those of the *)
(* files it has read.                                                      *)
LEMMA SummarizeKeeps ==
  ASSUME CertInv, NEW w \in Places, Summarize(w)
  PROVE  CertInv'
<1>1. run[w].step = "summary" /\ UNCHANGED <<head, results, started, incidents>>
  BY DEF Summarize
<1>2. /\ run[w].commit = head[w] /\ head[w] \in Commits /\ run[w].node \in Nodes
      /\ DirOK(bundle[w]) /\ Progress(run[w], bundle[w], results[w])
  BY <1>1, AtStep
<1>3. PICK verdict : verdict = Verdict(Gates(bundle[w]))
  OBVIOUS
<1>4. PICK ok \in BOOLEAN : ok <=> verdict = "PASS"
  OBVIOUS
<1>5. PICK step \in Steps : step = IF ok THEN "seal" ELSE "failed"
  BY DEF Steps
<1>6. run' = [run EXCEPT ![w].step = step]
  BY <1>3, <1>4, <1>5 DEF Summarize, Advance
<1>7. PICK r \in RunType : /\ run' = [run EXCEPT ![w] = r] /\ r.step = step
                           /\ r.commit = run[w].commit /\ r.node = run[w].node
  BY <1>6, StepTo
<1>8. PICK metrics : metrics = Metrics(bundle[w])
  OBVIOUS
<1>9. PICK evidence, report :
        /\ evidence = [commit_sha |-> head[w], verdict |-> verdict, metrics |-> metrics]
        /\ report = <<head[w], verdict>>
  OBVIOUS
<1>10. PICK d1 : d1 = With(bundle[w], "interop-evidence.json", evidence)
  OBVIOUS
<1>11. PICK d : d = With(d1, "interop-report.md", report)
  OBVIOUS
<1>12. bundle' = [bundle EXCEPT ![w] = d]
  BY <1>2, <1>3, <1>8, <1>9, <1>10, <1>11 DEF Summarize
<1>13. results' = [results EXCEPT ![w] = results[w]]
  BY <1>1, SameFun
<1>14. /\ {"interop-evidence.json", "interop-report.md"} \subseteq SealedNames
       /\ {"interop-evidence.json", "interop-report.md"} \cap (Suites \cup Collected) = {}
  BY DEF SealedNames, Suites, Collected, Results
<1>15. DirOK(d1)
  BY <1>2, <1>10, <1>14, DirWith
<1>16. DirOK(d)
  BY <1>11, <1>14, <1>15, DirWith
<1>17. ASSUME r.step # "failed"
       PROVE  Progress(r, d, results[w])
  <2>1. ok = TRUE /\ verdict = "PASS" /\ r.step = "seal" /\ r.commit = head[w]
    BY <1>2, <1>4, <1>5, <1>7, <1>17
  <2>2. run[w].step \in AfterCollect
    BY <1>1 DEF AfterCollect, AfterProperties, AfterDiverge, AfterTs, AfterRust, AfterCheck
  <2>3. PICK c, node, b : c = head[w] /\ node = r.node /\ b = bundle[w]
    OBVIOUS
  <2>4. /\ Right(b, c, node, {"suite-run-rust.json"}) /\ Right(b, c, node, {"suite-run-ts.json"})
        /\ Right(b, c, node, Collected)
    BY <1>2, <1>7, <2>2, <2>3, AllRight
  <2>5. PICK e, n, waves : /\ e = Expected(c, node) /\ n = Cardinality(Vectors(c))
                           /\ waves = Cardinality(Waves(Vectors(c)))
    OBVIOUS
  <2>6. ExpectedIs(e, c, node, n, waves)
    BY <2>5, ExpectedFacts
  <2>7. /\ b["suite-run-rust.json"].total = n /\ b["suite-run-rust.json"].passed = n
        /\ b["suite-run-ts.json"].total = n /\ b["suite-run-ts.json"].passed = n
    BY <2>4, <2>5, <2>6 DEF Right, ExpectedIs, Suites
  <2>8. b["divergence-c01.json"].total = waves /\ b["divergence-full.json"].total = n
    BY <2>4, <2>5, <2>6 DEF Right, ExpectedIs, Collected, Results
  <2>9. b["invariants-audit.json"].invariants_total = Cardinality(Content[c].invariants)
    <3>1. b["invariants-audit.json"] = [audit(c) EXCEPT !.status = "PASS"]
      BY <2>4, <2>5, <2>6 DEF Right, ExpectedIs, Collected, Results
    <3>2. QED
      BY <3>1 DEF audit
  <2>10. metrics = [rust_suite |-> [total |-> n, passed |-> n],
                    ts_suite |-> [total |-> n, passed |-> n],
                    divergence_c01 |-> waves, divergence_full |-> n,
                    invariants |-> Cardinality(Content[c].invariants)]
    BY <1>8, <2>3, <2>7, <2>8, <2>9 DEF Metrics
  <2>11. evidence = e["interop-evidence.json"] /\ report = e["interop-report.md"]
    BY <1>9, <2>1, <2>3, <2>6, <2>10 DEF ExpectedIs
  <2>12. d["interop-evidence.json"] = evidence /\ d["interop-report.md"] = report
    BY <1>10, <1>11 DEF With
  <2>13. Summaries \subseteq DOMAIN d
    BY <1>10, <1>11 DEF With, Summaries
  <2>14. Right(d, c, node, Summaries)
    BY <2>5, <2>11, <2>12, <2>13 DEF Right, Summaries
  <2>15. /\ Right(d1, c, node, {"suite-run-rust.json"})
         /\ Right(d1, c, node, {"suite-run-ts.json"}) /\ Right(d1, c, node, Collected)
    BY <1>10, <1>14, <2>3, <2>4, RightWith DEF Suites
  <2>16. /\ Right(d, c, node, {"suite-run-rust.json"})
         /\ Right(d, c, node, {"suite-run-ts.json"}) /\ Right(d, c, node, Collected)
    BY <1>11, <1>14, <2>15, RightWith DEF Suites
  <2>17. QED
    BY <1>1, <1>2, <1>7, <2>1, <2>3, <2>14, <2>16 DEF Progress, AfterCheck, AfterRust, AfterTs,
       AfterDiverge, AfterProperties, AfterCollect, AfterSummary
<1>18. /\ head' = head /\ started' = started /\ incidents' \in 0..MaxIncidents
       /\ run[w].step \notin {"idle", "failed"}
  BY <1>1 DEF CertInv
<1>19. QED
  BY <1>7, <1>12, <1>13, <1>16, <1>17, <1>18, StepKeeps

(* The hash that is written is that of the files expected of the commit.   *)
LEMMA SealKeeps ==
  ASSUME CertInv, NEW w \in Places, Seal(w)
  PROVE  CertInv'
<1>1. run[w].step = "seal" /\ UNCHANGED <<head, results, started, incidents>>
  BY DEF Seal
<1>2. /\ run[w].commit = head[w] /\ head[w] \in Commits /\ run[w].node \in Nodes
      /\ DirOK(bundle[w]) /\ Progress(run[w], bundle[w], results[w])
  BY <1>1, AtStep
<1>3. PICK whole \in BOOLEAN : whole <=> SealedNames \subseteq DOMAIN bundle[w]
  OBVIOUS
<1>4. PICK step \in Steps : step = IF whole THEN "done" ELSE "failed"
  BY DEF Steps
<1>5. run' = [run EXCEPT ![w].step = step]
  BY <1>3, <1>4 DEF Seal, Advance
<1>6. PICK r \in RunType : /\ run' = [run EXCEPT ![w] = r] /\ r.step = step
                           /\ r.commit = run[w].commit /\ r.node = run[w].node
  BY <1>5, StepTo
<1>7. PICK c, node, b : c = head[w] /\ node = r.node /\ b = bundle[w]
  OBVIOUS
<1>8. PICK hash : hash = Hash(b)
  OBVIOUS
<1>9. PICK d : d = IF whole THEN With(b, "evidence.sha256", hash) ELSE b
  OBVIOUS
<1>10. bundle' = [bundle EXCEPT ![w] = d]
  BY <1>3, <1>7, <1>8, <1>9 DEF Seal
<1>11. results' = [results EXCEPT ![w] = results[w]]
  BY <1>1, SameFun
<1>12. run[w].step \in AfterCollect
  BY <1>1 DEF AfterCollect, AfterProperties, AfterDiverge, AfterTs, AfterRust, AfterCheck
<1>13. /\ Judged(c) /\ audit(c).status = "PASS" /\ Content[c].lawful
       /\ Content[c].rust = {} /\ Content[c].ts = {} /\ Content[c].differ = {}
       /\ Right(b, c, node, {"suite-run-rust.json"}) /\ Right(b, c, node, {"suite-run-ts.json"})
       /\ Right(b, c, node, Collected)
  BY <1>2, <1>6, <1>7, <1>12, AllRight
<1>14. Right(b, c, node, Summaries)
  BY <1>1, <1>2, <1>6, <1>7 DEF Progress, AfterSummary, AfterCollect, AfterProperties,
     AfterDiverge, AfterTs, AfterRust, AfterCheck
<1>15. \A n \in SealedNames : b[n] = Expected(c, node)[n]
  BY <1>13, <1>14 DEF Right, SealedNames, Suites, Collected, Results, Summaries
<1>16. hash = Expected(c, node)
  <2>1. PICK e, n, waves : /\ e = Expected(c, node) /\ n = Cardinality(Vectors(c))
                           /\ waves = Cardinality(Waves(Vectors(c)))
    OBVIOUS
  <2>2. e = [f \in SealedNames |-> e[f]]
    <3>1. ExpectedIs(e, c, node, n, waves)
      BY <2>1, ExpectedFacts
    <3>2. QED
      BY <3>1 DEF ExpectedIs
  <2>3. QED
    BY <1>8, <1>15, <2>1, <2>2 DEF Hash
<1>17. c \in Commits /\ node \in Nodes
  BY <1>2, <1>6, <1>7
<1>18. Certifiable(c)
  BY <1>13, <1>17, CoversFacts DEF Certifiable
<1>19. d = b \/ d = With(b, "evidence.sha256", hash)
  BY <1>9
<1>20. \A n \in DOMAIN d \ {"evidence.sha256"} : n \in DOMAIN b /\ d[n] = b[n]
  BY <1>19 DEF With
<1>21. DirOK(d)
  <2>1. DOMAIN d \subseteq BundleNames
    BY <1>2, <1>7, <1>20 DEF DirOK, BundleNames
  <2>2. \A n \in Suites : n # "evidence.sha256"
    BY DEF Suites
  <2>3. SuiteAdds(d)
    BY <1>2, <1>7, <1>20, <2>2 DEF DirOK, SuiteAdds
  <2>4. d # b => d["evidence.sha256"] = hash
    BY <1>19 DEF With
  <2>5. HashIsWhole(d)
    <3>1. CASE d = b
      BY <1>2, <1>7, <3>1 DEF DirOK
    <3>2. CASE d # b
      BY <1>16, <1>17, <1>18, <2>4, <3>2 DEF HashIsWhole
    <3>3. QED
      BY <3>1, <3>2
  <2>6. QED
    BY <2>1, <2>3, <2>5 DEF DirOK
<1>22. ASSUME r.step # "failed"
       PROVE  Progress(r, d, results[w])
  <2>1. whole = TRUE /\ r.step = "done" /\ r.commit = c
    BY <1>2, <1>4, <1>6, <1>7, <1>22
  <2>2. d = With(b, "evidence.sha256", hash)
    BY <1>9, <2>1
  <2>3. "evidence.sha256" \in DOMAIN d /\ d["evidence.sha256"] = hash
    BY <2>2 DEF With
  <2>4. \A n \in SealedNames : n # "evidence.sha256" /\ n \in DOMAIN b
    BY <1>3, <1>7, <2>1 DEF SealedNames
  <2>5. \A n \in SealedNames : d[n] = b[n]
    BY <2>2, <2>4 DEF With
  <2>6. Hash(d) = hash
    BY <1>8, <2>5 DEF Hash
  <2>7. "evidence.sha256" \notin Collected \cup Summaries \cup Suites
    BY DEF Collected, Results, Summaries, Suites
  <2>8. /\ Right(d, c, node, {"suite-run-rust.json"}) /\ Right(d, c, node, {"suite-run-ts.json"})
        /\ Right(d, c, node, Collected) /\ Right(d, c, node, Summaries)
    BY <1>13, <1>14, <2>2, <2>7, RightWith DEF Suites
  <2>9. QED
    BY <1>1, <1>2, <1>6, <1>7, <2>1, <2>3, <2>6, <2>8 DEF Progress, AfterCheck, AfterRust,
       AfterTs, AfterDiverge, AfterProperties, AfterCollect, AfterSummary
<1>23. /\ head' = head /\ started' = started /\ incidents' \in 0..MaxIncidents
       /\ run[w].step \notin {"idle", "failed"}
  BY <1>1 DEF CertInv
<1>24. QED
  BY <1>6, <1>10, <1>11, <1>21, <1>22, <1>23, StepKeeps

LEMMA StopRunKeeps ==
  ASSUME CertInv, NEW w \in Places, StopRun(w)
  PROVE  CertInv'
<1>1. /\ run[w].step \notin {"idle", "failed"} /\ UNCHANGED <<head, bundle, results, started>>
      /\ incidents' = incidents + 1 /\ incidents < MaxIncidents
  BY DEF StopRun, Running, Incident
<1>2. run' = [run EXCEPT ![w].step = "failed"]
  BY DEF StopRun, Advance
<1>3. "failed" \in Steps
  BY DEF Steps
<1>4. PICK r \in RunType : /\ run' = [run EXCEPT ![w] = r] /\ r.step = "failed"
                           /\ r.commit = run[w].commit /\ r.node = run[w].node
  BY <1>2, <1>3, StepTo
<1>5. /\ bundle' = [bundle EXCEPT ![w] = bundle[w]] /\ results' = [results EXCEPT ![w] = results[w]]
      /\ DirOK(bundle[w])
  BY <1>1, SameFun DEF PlaceOK
<1>6. incidents' \in 0..MaxIncidents
  BY <1>1, CertificationBounds DEF CertInv
<1>7. QED
  BY <1>1, <1>4, <1>5, <1>6, StepKeeps

(* Every step of the script keeps the invariant of its place ...           *)
LEMMA CertStepKeeps ==
  ASSUME CertInv, NEW w \in Places, CertStep(w)
  PROVE  CertInv'
<1>1. CASE CheckSources(w)
  BY <1>1, CheckSourcesKeeps
<1>2. CASE TsSuite(w)
  <2>1. PICK a, wrong : a = TsAnswer(head[w]) /\ wrong = Content[head[w]].ts
    OBVIOUS
  <2>2. a = Answer(head[w], wrong)
    BY <2>1 DEF TsAnswer
  <2>3. /\ run[w].step = "ts" /\ Suite(w, "suite-run-ts.json", a, FALSE, "diverge")
        /\ incidents' \in 0..MaxIncidents
    BY <1>2, <2>1 DEF TsSuite, CertInv
  <2>4. QED
    BY <2>1, <2>2, <2>3, SuiteKeeps
<1>3. CASE Diverge(w)
  BY <1>3, DivergeKeeps
<1>4. CASE PropertyTests(w)
  BY <1>4, PropertyTestsKeep
<1>5. CASE Collect(w)
  BY <1>5, CollectKeeps
<1>6. CASE Summarize(w)
  BY <1>6, SummarizeKeeps
<1>7. CASE Seal(w)
  BY <1>7, SealKeeps
<1>8. CASE StopRun(w)
  BY <1>8, StopRunKeeps
<1>9. ASSUME NEW container \in BOOLEAN, RustSuite(w, container)
      PROVE  CertInv'
  <2>1. PICK a, wrong : a = RustAnswer(head[w]) /\ wrong = Content[head[w]].rust
    OBVIOUS
  <2>2. a = Answer(head[w], wrong)
    BY <2>1 DEF RustAnswer
  <2>3. /\ run[w].step = "rust" /\ Suite(w, "suite-run-rust.json", a, container, "ts")
        /\ incidents' \in 0..MaxIncidents
    BY <1>9, <2>1 DEF RustSuite, CertInv
  <2>4. QED
    BY <2>1, <2>2, <2>3, SuiteKeeps
<1>10. ASSUME NEW n, SlowSuite(w, n)
       PROVE  CertInv'
  <2>1. incidents' \in 0..MaxIncidents
    BY <1>10, CertificationBounds DEF SlowSuite, Incident, CertInv
  <2>2. CASE run[w].step = "rust"
    <3>1. PICK a, wrong : /\ wrong = Content[head[w]].rust
                          /\ a = Late(RustAnswer(head[w]), {n})
      OBVIOUS
    <3>2. \E slow : a = Late(Answer(head[w], wrong), slow)
      BY <3>1 DEF RustAnswer
    <3>3. Suite(w, "suite-run-rust.json", a, FALSE, "ts")
      BY <1>10, <2>2, <3>1 DEF SlowSuite
    <3>4. QED
      BY <2>1, <2>2, <3>1, <3>2, <3>3, SuiteKeeps
  <2>3. CASE run[w].step = "ts"
    <3>1. PICK a, wrong : /\ wrong = Content[head[w]].ts
                          /\ a = Late(TsAnswer(head[w]), {n})
      OBVIOUS
    <3>2. \E slow : a = Late(Answer(head[w], wrong), slow)
      BY <3>1 DEF TsAnswer
    <3>3. Suite(w, "suite-run-ts.json", a, FALSE, "diverge")
      BY <1>10, <2>3, <3>1 DEF SlowSuite
    <3>4. QED
      BY <2>1, <2>3, <3>1, <3>2, <3>3, SuiteKeeps
  <2>4. QED
    BY <1>10, <2>2, <2>3 DEF SlowSuite
<1>11. QED
  BY <1>1, <1>2, <1>3, <1>4, <1>5, <1>6, <1>7, <1>8, <1>9, <1>10 DEF CertStep

(* ... and is one of a run that goes on there.                             *)
LEMMA CertStepFrame ==
  ASSUME CertInv, NEW w \in Places, CertStep(w)
  PROVE  Running(w) /\ started' = started /\ \A q \in Places : q # w => run'[q] = run[q]
<1>1. Running(w) /\ started' = started
  BY DEF CertStep, CheckSources, TsSuite, Diverge, PropertyTests, Collect, Summarize, Seal, StopRun,
         RustSuite, SlowSuite, Suite, Running
<1>2. run = [q \in Places |-> run[q]]
  BY DEF CertInv
<1>3. ASSUME NEW n, NEW answer, NEW container, NEW next, Suite(w, n, answer, container, next)
      PROVE  \A q \in Places : q # w => run'[q] = run[q]
  BY <1>2, <1>3 DEF Suite, Advance
<1>4. CASE CheckSources(w)
  BY <1>1, <1>2, <1>4 DEF CheckSources, Advance
<1>5. CASE TsSuite(w)
  BY <1>1, <1>3, <1>5 DEF TsSuite
<1>6. CASE Diverge(w)
  BY <1>1, <1>2, <1>6 DEF Diverge, Advance
<1>7. CASE PropertyTests(w)
  BY <1>1, <1>2, <1>7 DEF PropertyTests, Advance
<1>8. CASE Collect(w)
  BY <1>1, <1>2, <1>8 DEF Collect, Advance
<1>9. CASE Summarize(w)
  BY <1>1, <1>2, <1>9 DEF Summarize, Advance
<1>10. CASE Seal(w)
  BY <1>1, <1>2, <1>10 DEF Seal, Advance
<1>11. CASE StopRun(w)
  BY <1>1, <1>2, <1>11 DEF StopRun, Advance
<1>12. ASSUME NEW container \in BOOLEAN, RustSuite(w, container)
       PROVE  \A q \in Places : q # w => run'[q] = run[q]
  BY <1>3, <1>12 DEF RustSuite
<1>13. ASSUME NEW n, SlowSuite(w, n)
       PROVE  \A q \in Places : q # w => run'[q] = run[q]
  BY <1>3, <1>13 DEF SlowSuite
<1>14. QED
  BY <1>1, <1>4, <1>5, <1>6, <1>7, <1>8, <1>9, <1>10, <1>11, <1>12, <1>13 DEF CertStep

(* A run begins with nothing established, whatever its directory holds.    *)
LEMMA StartKeeps ==
  ASSUME CertInv, NEW w \in Places, NEW node \in Nodes, NEW d, DirOK(d),
         StartIn(w, head[w], node, d), UNCHANGED <<head, results>>,
         started' \in 0..MaxRuns, incidents' \in 0..MaxIncidents
  PROVE  CertInv'
<1>1. PICK r : r = [step |-> "check", commit |-> head[w], node |-> node]
  OBVIOUS
<1>2. r \in RunType
  BY <1>1, SameFun DEF RunType, Steps
<1>3. PlaceOK(head[w], r, d, results[w])
  BY <1>1 DEF PlaceOK, Progress, AfterCheck, AfterRust, AfterTs, AfterDiverge, AfterProperties,
       AfterCollect, AfterSummary
<1>4. /\ run' = [run EXCEPT ![w] = r] /\ bundle' = [bundle EXCEPT ![w] = d]
      /\ results' = [results EXCEPT ![w] = results[w]]
  BY <1>1, SameFun DEF StartIn
<1>5. head' \in [Places -> Commits] /\ head'["clone"] = Baseline /\ head' = head
  BY DEF CertInv
<1>6. PlaceOK(head'[w], r, d, results[w]) /\ \A q \in Places : q # w => head'[q] = head[q]
  BY <1>3, <1>5
<1>7. QED
  BY <1>2, <1>4, <1>5, <1>6, PlaceAfter

(* A run is forgotten, and perhaps another commit checked out.             *)
LEMMA ResetKeeps ==
  ASSUME CertInv, NEW w \in Places, NEW d, DirOK(d), NEW s,
         run' = [run EXCEPT ![w] = NoRun], bundle' = [bundle EXCEPT ![w] = d],
         results' = [results EXCEPT ![w] = s],
         head' \in [Places -> Commits], head'["clone"] = Baseline,
         \A q \in Places : q # w => head'[q] = head[q],
         started' \in 0..MaxRuns, incidents' \in 0..MaxIncidents
  PROVE  CertInv'
<1>1. PICK r : r = NoRun
  OBVIOUS
<1>2. r \in RunType /\ r.step = "idle"
  BY <1>1 DEF NoRun, RunType, Steps
<1>3. PlaceOK(head'[w], r, d, s)
  BY <1>2, NothingDone
<1>4. QED
  BY <1>1, <1>2, <1>3, PlaceAfter

-----------------------------------------------------------------------------
(* What a case shows.                                                      *)

Agreed == {{"met"}, {"other"}}

(* Two runners are in agreement exactly if a vector case finds nothing.    *)
LEMMA VectorFacts ==
  ASSUME NEW rust \in Replies, NEW ts \in Replies
  PROVE  VectorFinding(rust, ts) <=> {rust, ts} \notin Agreed
<1>1. rust \in {"met", "other", "unmet", "silent"} /\ ts \in {"met", "other", "unmet", "silent"}
  BY DEF Replies, Outputs
<1>2. VectorFinding(rust, ts) <=> ~(rust = ts /\ rust \in {"met", "other"})
  BY <1>1 DEF VectorFinding, Crashed, Passes
<1>3. {rust, ts} \in Agreed <=> rust = ts /\ rust \in {"met", "other"}
  BY <1>1 DEF Agreed
<1>4. QED
  BY <1>2, <1>3

LEMMA PairCount ==
  ASSUME NEW x, NEW y, NEW T, T = {x, y}
  PROVE  Cardinality(T) = 1 <=> x = y
<1>1. IsFiniteSet(T)
  <2>1. PICK S : S = {x}
    OBVIOUS
  <2>2. IsFiniteSet(S) /\ T = S \cup {y}
    BY <2>1, FS_Singleton
  <2>3. QED
    BY <2>2, FS_AddElement
<1>2. CASE x = y
  BY <1>2, FS_Singleton
<1>3. CASE x # y
  <2>1. PICK S : S = {x}
    OBVIOUS
  <2>2. IsFiniteSet(S) /\ Cardinality(S) = 1 /\ y \notin S /\ T = S \cup {y}
    BY <1>3, <2>1, FS_Singleton
  <2>3. Cardinality(T) = 2
    BY <2>2, FS_AddElement
  <2>4. QED
    BY <1>3, <2>3
<1>4. QED
  BY <1>2, <1>3

(* The same of a replay: each runner twice the same, and both the same.    *)
LEMMA ReplayFacts ==
  ASSUME NEW rust \in [1..2 -> Replies], NEW ts \in [1..2 -> Replies], NEW seen,
         seen = {rust[j] : j \in DOMAIN rust} \cup {ts[j] : j \in DOMAIN ts}
  PROVE  ReplayFinding(rust, ts) <=> seen \notin Agreed
<1>1. PICK a, b, x, y : a = rust[1] /\ b = rust[2] /\ x = ts[1] /\ y = ts[2]
  OBVIOUS
<1>2. {a, b, x, y} \subseteq {"met", "other", "unmet", "silent"}
  BY <1>1 DEF Replies, Outputs
<1>3. /\ DOMAIN rust = {1, 2} /\ DOMAIN ts = {1, 2}
  OBVIOUS
<1>4. seen = {a, b, x, y}
  BY <1>1, <1>3
<1>5. PICK R, T : R = {Output(a), Output(b)} /\ T = {Output(x), Output(y)}
  OBVIOUS
<1>6. /\ {Output(rust[j]) : j \in DOMAIN rust} = R
      /\ {Output(ts[j]) : j \in DOMAIN ts} = T
  BY <1>1, <1>3, <1>5
<1>7. ReplayFinding(rust, ts) <=>
        ~(/\ Cardinality(R) = 1 /\ Cardinality(T) = 1
          /\ Output(a) = Output(x) /\ Passes(a) /\ Passes(x))
  BY <1>1, <1>6 DEF ReplayFinding
<1>8. /\ Cardinality(R) = 1 <=> Output(a) = Output(b)
      /\ Cardinality(T) = 1 <=> Output(x) = Output(y)
  BY <1>5, PairCount
<1>9. \A p, q \in {"met", "other", "unmet", "silent"} : Output(p) = Output(q) <=> p = q
  BY SilenceIsNoOutput DEF Output, Crashed, Replies, Outputs
<1>10. ReplayFinding(rust, ts) <=> ~(a = b /\ x = y /\ a = x /\ a \in {"met", "other"})
  BY <1>2, <1>7, <1>8, <1>9 DEF Passes
<1>11. seen \in Agreed <=> a = b /\ x = y /\ a = x /\ a \in {"met", "other"}
  BY <1>2, <1>4 DEF Agreed
<1>12. QED
  BY <1>10, <1>11

(* And of a mutated vector; what is found is kept.                         *)
LEMMA MutationFacts ==
  ASSUME NEW rust \in MutationReplies, NEW ts \in MutationReplies
  PROVE  /\ MutationVerdict(rust, ts) = "FOUND_BUG"
              <=> {rust, ts} \notin {{"rejects"}, {"accepts"}}
         /\ Keep("FOUND_BUG")
<1>1. rust \in {"rejects", "accepts", "silent"} /\ ts \in {"rejects", "accepts", "silent"}
  BY DEF MutationReplies
<1>2. MutationVerdict(rust, ts) = "FOUND_BUG" <=> rust = "silent" \/ ts = "silent" \/ rust # ts
  <2>1. CASE rust = "silent" \/ ts = "silent"
    BY <2>1 DEF MutationVerdict, Crashed
  <2>2. CASE rust # "silent" /\ ts # "silent" /\ rust # ts
    BY <2>2 DEF MutationVerdict, Crashed
  <2>3. CASE rust = "rejects" /\ ts = "rejects"
    BY <2>3 DEF MutationVerdict, Crashed
  <2>4. CASE rust = "accepts" /\ ts = "accepts"
    BY <2>4 DEF MutationVerdict, Crashed
  <2>5. QED
    BY <1>1, <2>1, <2>2, <2>3, <2>4
<1>3. {rust, ts} \in {{"rejects"}, {"accepts"}} <=> rust = ts /\ rust # "silent"
  BY <1>1
<1>4. QED
  BY <1>2, <1>3 DEF Keep

-----------------------------------------------------------------------------
(* The steps of a campaign.                                                *)

LEMMA CampKeeps ==
  ASSUME CertInv', NEW c \in CampType, camp' = c, c.number <= started', CasesOK(c),
         NEW r, r = run'["clone"], CloneOK(c, r), NEW o, out' = o, OutOK(c, o), c.step # "done"
  PROVE  StabInv'
BY DEF StabInv, VerdictIsHonest

LEMMA CertSame ==
  ASSUME CertInv, UNCHANGED certVars
  PROVE  CertInv' /\ started' = started /\ run' = run
BY DEF CertInv, certVars

LEMMA NowFacts ==
  ASSUME StabInv
  PROVE  /\ CertInv /\ camp \in CampType /\ camp.number <= started
         /\ CasesOK(camp) /\ CloneOK(camp, run["clone"]) /\ OutOK(camp, out)
         /\ run["clone"] \in RunType /\ started \in Nat /\ camp.number \in Nat
         /\ Len(AttackCases) \in Nat /\ DOMAIN AttackCases = 1..Len(AttackCases)
         /\ Len(FuzzCases) \in Nat /\ DOMAIN FuzzCases = 1..Len(FuzzCases)
<1>1. /\ CertInv /\ camp \in CampType /\ camp.number <= started
      /\ CasesOK(camp) /\ CloneOK(camp, run["clone"]) /\ OutOK(camp, out)
  BY DEF StabInv
<1>2. run["clone"] \in RunType /\ started \in Nat
  BY <1>1 DEF CertInv, Places
<1>3. camp.number \in Nat
  BY <1>1 DEF CampType
<1>4. /\ Len(AttackCases) \in Nat /\ DOMAIN AttackCases = 1..Len(AttackCases)
      /\ Len(FuzzCases) \in Nat /\ DOMAIN FuzzCases = 1..Len(FuzzCases)
  BY StabilizationConstants
<1>5. QED
  BY <1>1, <1>2, <1>3, <1>4

(* An attack case is in the findings exactly if there was trouble with it. *)
LEMMA FindsKeeps ==
  ASSUME StabInv, NEW found \in BOOLEAN, NEW trouble \in BOOLEAN, found <=> trouble,
         NEW i, i = camp.case, camp.step = "attack", i <= Len(AttackCases),
         Finds(i, found, trouble), UNCHANGED <<certVars, out>>
  PROVE  StabInv'
<1>1. PICK c : c = [camp EXCEPT !.case = i + 1, !.attack = IF found THEN @ \cup {i} ELSE @,
                                !.trouble = @ \/ trouble]
  OBVIOUS
<1>2. camp' = c /\ out' = out
  BY <1>1 DEF Finds
<1>3. CertInv' /\ started' = started /\ run' = run
  BY CertSame, NowFacts
<1>4. i \in Nat /\ i >= 1 /\ i \in DOMAIN AttackCases
  BY NowFacts DEF CampType, CasesOK
<1>5. /\ c.number = camp.number /\ c.step = camp.step /\ c.mode = camp.mode /\ c.fuzz = camp.fuzz
      /\ c.saved = camp.saved /\ c.repro = camp.repro /\ c.rollback = camp.rollback
      /\ c.case = i + 1 /\ c.attack = (IF found THEN camp.attack \cup {i} ELSE camp.attack)
  BY <1>1, NowFacts DEF CampType
<1>6. c.trouble = (camp.trouble \/ trouble)
  BY <1>1, NowFacts DEF CampType
<1>7. c \in CampType
  <2>1. /\ i + 1 \in Nat /\ (camp.trouble \/ trouble) \in BOOLEAN
        /\ (IF found THEN camp.attack \cup {i} ELSE camp.attack) \in SUBSET (DOMAIN AttackCases)
    BY <1>4, NowFacts DEF CampType
  <2>2. QED
    BY <1>1, <2>1, NowFacts DEF CampType
<1>8. CasesOK(c)
  <2>1. c.fuzz = {} /\ (c.trouble <=> c.attack # {})
    <3>1. camp.fuzz = {} /\ (camp.trouble <=> camp.attack # {})
      BY NowFacts DEF CasesOK
    <3>2. QED
      BY <1>5, <1>6, <3>1
  <2>2. c.case \in 1..(Len(AttackCases) + 1)
    BY <1>4, <1>5, NowFacts
  <2>3. c.case \in 1..(Len(AttackCases) + Len(FuzzCases) + 1) /\ c.case <= Len(AttackCases) + 1
    BY <2>2, NowFacts
  <2>4. QED
    BY <1>5, <2>1, <2>3, NowFacts DEF CasesOK
<1>9. CloneOK(c, run["clone"]) /\ OutOK(c, out)
  BY <1>5, NowFacts DEF CloneOK, OutOK
<1>10. QED
  BY <1>2, <1>3, <1>5, <1>7, <1>8, <1>9, NowFacts, CampKeeps

LEMMA AttackKeeps ==
  ASSUME StabInv,
         \/ \E rust, ts \in Replies : AttackVector(rust, ts)
         \/ \E rust, ts \in [1..2 -> Replies] : AttackReplay(rust, ts)
  PROVE  StabInv'
<1>1. ASSUME NEW rust \in Replies, NEW ts \in Replies, AttackVector(rust, ts)
      PROVE  StabInv'
  <2>1. PICK found \in BOOLEAN : found = VectorFinding(rust, ts)
    BY DEF VectorFinding
  <2>2. PICK trouble \in BOOLEAN : trouble = ({rust, ts} \notin {{"met"}, {"other"}})
    OBVIOUS
  <2>3. found <=> trouble
    BY <2>1, <2>2, VectorFacts DEF Agreed
  <2>4. Finds(camp.case, found, trouble)
    BY <1>1, <2>1, <2>2 DEF AttackVector
  <2>5. /\ camp.step = "attack" /\ camp.case <= Len(AttackCases) /\ UNCHANGED <<certVars, out>>
    BY <1>1 DEF AttackVector
  <2>6. QED
    BY <2>3, <2>4, <2>5, FindsKeeps
<1>2. ASSUME NEW rust \in [1..2 -> Replies], NEW ts \in [1..2 -> Replies], AttackReplay(rust, ts)
      PROVE  StabInv'
  <2>1. PICK seen : seen = {rust[j] : j \in DOMAIN rust} \cup {ts[j] : j \in DOMAIN ts}
    OBVIOUS
  <2>2. PICK found \in BOOLEAN : found = ReplayFinding(rust, ts)
    BY DEF ReplayFinding
  <2>3. PICK trouble \in BOOLEAN : trouble = (seen \notin {{"met"}, {"other"}})
    OBVIOUS
  <2>4. found <=> trouble
    BY <2>1, <2>2, <2>3, ReplayFacts DEF Agreed
  <2>5. Finds(camp.case, found, trouble)
    BY <1>2, <2>1, <2>2, <2>3 DEF AttackReplay
  <2>6. /\ camp.step = "attack" /\ camp.case <= Len(AttackCases) /\ UNCHANGED <<certVars, out>>
    BY <1>2 DEF AttackReplay
  <2>7. QED
    BY <2>4, <2>5, <2>6, FindsKeeps
<1>3. QED
  BY <1>1, <1>2

LEMMA StartCampaignKeeps ==
  ASSUME StabInv, NEW mode \in Modes, StartCampaign(mode)
  PROVE  StabInv'
<1>1. PICK c : c = [NoCampaign EXCEPT !.number = camp.number + 1, !.mode = mode, !.step = "attack"]
  OBVIOUS
<1>2. /\ camp' = c /\ out' = out /\ started' = started + 1 /\ started < MaxRuns
      /\ run' = [run EXCEPT !["clone"] = NoRun] /\ bundle' = [bundle EXCEPT !["clone"] = Empty]
      /\ results' = [results EXCEPT !["clone"] = Empty] /\ UNCHANGED <<head, incidents>>
  BY <1>1 DEF StartCampaign
<1>3. c = [number |-> camp.number + 1, step |-> "attack", mode |-> mode, case |-> 1, attack |-> {},
           fuzz |-> {}, saved |-> {}, trouble |-> FALSE, properties |-> FALSE, repro |-> None,
           cleanup |-> "not_run", left |-> FALSE, rollback |-> None, exit |-> None]
  BY <1>1 DEF NoCampaign
<1>4. CertInv'
  <2>1. /\ "clone" \in Places /\ head' \in [Places -> Commits] /\ head'["clone"] = Baseline
        /\ \A q \in Places : q # "clone" => head'[q] = head[q]
    BY <1>2, NowFacts DEF CertInv, Places
  <2>2. started' \in 0..MaxRuns /\ incidents' \in 0..MaxIncidents
    BY <1>2, NowFacts, CertificationBounds DEF CertInv
  <2>3. QED
    BY <1>2, <2>1, <2>2, NowFacts, EmptyOK, ResetKeeps
<1>5. c \in CampType
  BY <1>3, NowFacts DEF CampType, Phases
<1>6. CasesOK(c)
  <2>1. c.case = 1 /\ c.number >= 1
    BY <1>3, NowFacts
  <2>2. c.case \in 1..(Len(AttackCases) + Len(FuzzCases) + 1) /\ c.case <= Len(AttackCases) + 1
    BY <2>1, NowFacts
  <2>3. QED
    BY <1>3, <2>1, <2>2 DEF CasesOK
<1>7. PICK r : r = run'["clone"]
  OBVIOUS
<1>8. r.step = "idle"
  BY <1>2, <1>7, NowFacts DEF CertInv, Places, NoRun
<1>9. CloneOK(c, r)
  BY <1>3, <1>8 DEF CloneOK
<1>10. OutOK(c, out)
  <2>1. 1..camp.number \subseteq 1..c.number
    BY <1>3, NowFacts
  <2>2. QED
    BY <1>3, <2>1, NowFacts DEF OutOK
<1>11. c.number <= started' /\ c.step # "done"
  BY <1>2, <1>3, NowFacts
<1>12. QED
  BY <1>2, <1>4, <1>5, <1>6, <1>7, <1>9, <1>10, <1>11, CampKeeps

LEMMA BeginKeeps ==
  ASSUME StabInv, BeginFuzz \/ BeginProperties
  PROVE  StabInv'
<1>1. CASE BeginFuzz
  <2>1. PICK c : c = [camp EXCEPT !.step = "fuzz", !.case = 1]
    OBVIOUS
  <2>2. camp' = c /\ out' = out /\ UNCHANGED certVars /\ camp.step = "attack"
    BY <1>1, <2>1 DEF BeginFuzz
  <2>3. CertInv' /\ started' = started /\ run' = run
    BY <2>2, CertSame, NowFacts
  <2>4. /\ c.number = camp.number /\ c.step = "fuzz" /\ c.mode = camp.mode /\ c.fuzz = camp.fuzz
        /\ c.saved = camp.saved /\ c.attack = camp.attack /\ c.trouble = camp.trouble
        /\ c.case = 1
    BY <2>1, NowFacts DEF CampType
  <2>5. c \in CampType
    BY <2>1, NowFacts DEF CampType, Phases
  <2>6. c.case \in 1..(Len(AttackCases) + Len(FuzzCases) + 1)
    BY <2>4, NowFacts
  <2>7. CasesOK(c)
    BY <2>2, <2>4, <2>6, NowFacts DEF CasesOK, Phases
  <2>8. CloneOK(c, run["clone"]) /\ OutOK(c, out)
    BY <2>2, <2>4, NowFacts DEF CloneOK, OutOK
  <2>9. QED
    BY <2>2, <2>3, <2>4, <2>5, <2>7, <2>8, NowFacts, CampKeeps
<1>2. CASE BeginProperties
  <2>1. PICK c : c = [camp EXCEPT !.step = "properties"]
    OBVIOUS
  <2>2. camp' = c /\ out' = out /\ UNCHANGED certVars /\ camp.step = "fuzz"
    BY <1>2, <2>1 DEF BeginProperties
  <2>3. CertInv' /\ started' = started /\ run' = run
    BY <2>2, CertSame, NowFacts
  <2>4. /\ c.number = camp.number /\ c.step = "properties" /\ c.mode = camp.mode
        /\ c.fuzz = camp.fuzz /\ c.saved = camp.saved /\ c.attack = camp.attack
        /\ c.trouble = camp.trouble /\ c.case = camp.case
    BY <2>1, NowFacts DEF CampType
  <2>5. c \in CampType
    BY <2>1, NowFacts DEF CampType, Phases
  <2>6. CasesOK(c)
    BY <2>2, <2>4, NowFacts DEF CasesOK, Phases
  <2>7. CloneOK(c, run["clone"]) /\ OutOK(c, out)
    BY <2>2, <2>4, NowFacts DEF CloneOK, OutOK
  <2>8. QED
    BY <2>2, <2>3, <2>4, <2>5, <2>6, <2>7, NowFacts, CampKeeps
<1>3. QED
  BY <1>1, <1>2

(* A mutated vector that is a finding, or that both accept, is kept, in    *)
(* place of the one an earlier campaign has kept of the case.              *)
LEMMA FuzzKeeps ==
  ASSUME StabInv, NEW rust \in MutationReplies, NEW ts \in MutationReplies, FuzzCase(rust, ts)
  PROVE  StabInv'
<1>1. PICK i, verdict : i = camp.case /\ verdict = MutationVerdict(rust, ts)
  OBVIOUS
<1>2. PICK saved : saved = IF Keep(verdict) THEN {i} ELSE {}
  OBVIOUS
<1>3. PICK found \in BOOLEAN : found = (verdict = "FOUND_BUG")
  OBVIOUS
<1>4. PICK trouble \in BOOLEAN : trouble = ({rust, ts} \notin {{"rejects"}, {"accepts"}})
  OBVIOUS
<1>5. (found <=> trouble) /\ (found => saved = {i})
  BY <1>1, <1>2, <1>3, <1>4, MutationFacts
<1>6. PICK c : c = [camp EXCEPT !.case = i + 1, !.fuzz = IF found THEN @ \cup {i} ELSE @,
                                !.saved = @ \cup saved, !.trouble = @ \/ trouble]
  OBVIOUS
<1>7. PICK minimized :
        minimized = {f \in out.minimized : f[2] \notin saved} \cup ({camp.number} \X saved)
  OBVIOUS
<1>8. PICK o : o = [out EXCEPT !.minimized = minimized]
  OBVIOUS
<1>9. /\ camp.step = "fuzz" /\ i <= Len(FuzzCases) /\ UNCHANGED certVars
      /\ camp' = c
  BY <1>1, <1>2, <1>3, <1>4, <1>6 DEF FuzzCase
<1>10. out' = o
  BY <1>1, <1>2, <1>7, <1>8 DEF FuzzCase
<1>11. CertInv' /\ started' = started /\ run' = run
  BY <1>9, CertSame, NowFacts
<1>12. i \in Nat /\ i >= 1 /\ i \in DOMAIN FuzzCases /\ camp.number >= 1
  BY <1>1, <1>9, NowFacts DEF CampType, CasesOK
<1>13. /\ c.number = camp.number /\ c.step = camp.step /\ c.mode = camp.mode
       /\ c.attack = camp.attack /\ c.saved = camp.saved \cup saved
       /\ c.fuzz = (IF found THEN camp.fuzz \cup {i} ELSE camp.fuzz) /\ c.case = i + 1
  BY <1>6, NowFacts DEF CampType
<1>14. c.trouble = (camp.trouble \/ trouble)
  BY <1>6, NowFacts DEF CampType
<1>15. saved \subseteq {i}
  BY <1>2
<1>16. c \in CampType
  <2>1. i + 1 \in Nat /\ (camp.trouble \/ trouble) \in BOOLEAN
    BY <1>12, NowFacts DEF CampType
  <2>2. camp.fuzz \in SUBSET (DOMAIN FuzzCases) /\ camp.saved \in SUBSET (DOMAIN FuzzCases)
    BY NowFacts DEF CampType
  <2>3. (IF found THEN camp.fuzz \cup {i} ELSE camp.fuzz) \in SUBSET (DOMAIN FuzzCases)
    BY <1>12, <2>2
  <2>4. camp.saved \cup saved \in SUBSET (DOMAIN FuzzCases)
    BY <1>12, <1>15, <2>2
  <2>5. QED
    BY <1>6, <2>1, <2>3, <2>4, NowFacts DEF CampType
<1>17. CasesOK(c)
  <2>1. c.case \in 1..(Len(AttackCases) + Len(FuzzCases) + 1)
    BY <1>9, <1>12, <1>13, NowFacts
  <2>2. c.fuzz \subseteq c.saved
    BY <1>5, <1>13, NowFacts DEF CasesOK
  <2>3. c.trouble <=> c.attack \cup c.fuzz # {}
    <3>1. camp.trouble <=> camp.attack \cup camp.fuzz # {}
      BY NowFacts DEF CasesOK
    <3>2. QED
      BY <1>5, <1>13, <1>14, <3>1
  <2>4. QED
    BY <1>9, <1>12, <1>13, <2>1, <2>2, <2>3, NowFacts DEF CasesOK
<1>18. CloneOK(c, run["clone"])
  BY <1>9, <1>13, NowFacts DEF CloneOK
<1>19. OutOK(c, o)
  <2>1. /\ out = [evidence |-> out.evidence, findings |-> out.findings,
                  minimized |-> out.minimized, zip |-> out.zip]
        /\ out.minimized \cup out.zip \subseteq (1..camp.number) \X DOMAIN FuzzCases
        /\ \A f, g \in out.minimized : f[2] = g[2] => f = g
        /\ \A j \in camp.saved : <<camp.number, j>> \in out.minimized
    BY <1>9, NowFacts DEF OutOK
  <2>2. /\ o = [evidence |-> o.evidence, findings |-> o.findings,
                minimized |-> o.minimized, zip |-> o.zip]
        /\ o.minimized = minimized /\ o.zip = out.zip
    BY <1>8, <2>1
  <2>3. \A f \in minimized :
          \/ f \in out.minimized /\ f[2] \notin saved
          \/ f = <<camp.number, i>> /\ i \in saved
    BY <1>7, <1>15
  <2>4. camp.number \in 1..camp.number
    BY <1>12, NowFacts
  <2>5. o.minimized \cup o.zip \subseteq (1..c.number) \X DOMAIN FuzzCases
    <3>1. <<camp.number, i>> \in (1..camp.number) \X DOMAIN FuzzCases
      BY <1>12, <2>4
    <3>2. minimized \subseteq (1..camp.number) \X DOMAIN FuzzCases
      BY <2>1, <2>3, <3>1
    <3>3. QED
      BY <1>13, <2>1, <2>2, <3>2
  <2>6. \A f, g \in o.minimized : f[2] = g[2] => f = g
    BY <2>1, <2>2, <2>3
  <2>7. \A j \in c.saved : <<c.number, j>> \in o.minimized
    <3>1. SUFFICES ASSUME NEW j \in c.saved PROVE <<camp.number, j>> \in minimized
      BY <1>13, <2>2
    <3>2. CASE j \in saved
      BY <1>7, <3>2
    <3>3. CASE j \notin saved
      <4>1. <<camp.number, j>> \in out.minimized /\ <<camp.number, j>>[2] \notin saved
        BY <1>13, <2>1, <3>3
      <4>2. QED
        BY <1>7, <4>1
    <3>4. QED
      BY <3>2, <3>3
  <2>8. QED
    BY <1>9, <1>13, <2>2, <2>5, <2>6, <2>7 DEF OutOK
<1>20. QED
  BY <1>9, <1>10, <1>11, <1>13, <1>16, <1>17, <1>18, <1>19, NowFacts, CampKeeps

(* The campaign's property tests write over the results that a             *)
(* certification in the workspace may be about to collect: the same ones.  *)
LEMMA RunPropertiesKeeps ==
  ASSUME StabInv, NEW toolchain \in BOOLEAN, RunProperties(toolchain)
  PROVE  StabInv'
<1>1. PICK h, lawful : h = head["workspace"] /\ lawful = Content[h].lawful
  OBVIOUS
<1>2. /\ h \in Commits /\ "workspace" \in Places /\ "workspace" # "clone"
      /\ PlaceOK(h, run["workspace"], bundle["workspace"], results["workspace"])
      /\ run["workspace"] \in RunType
  BY <1>1, NowFacts DEF CertInv, Places
<1>3. lawful \in BOOLEAN
  BY <1>1, <1>2, ContentFacts
<1>4. PICK properties \in BOOLEAN : properties = (toolchain /\ lawful)
  OBVIOUS
<1>5. PICK step : step = IF camp.mode = "deep" THEN "repro" ELSE "zip"
  OBVIOUS
<1>6. PICK c : c = [camp EXCEPT !.properties = properties, !.step = step]
  OBVIOUS
<1>7. PICK x : x = With(results["workspace"], "properties", lawful)
  OBVIOUS
<1>8. /\ camp.step = "properties" /\ UNCHANGED <<head, run, bundle, started, incidents, out>>
      /\ results' = [results EXCEPT !["workspace"] = x]
  BY <1>1, <1>7 DEF RunProperties, TestProperties
<1>9. camp' = c
  BY <1>1, <1>4, <1>5, <1>6 DEF RunProperties
<1>10. PICK r, d : r = run["workspace"] /\ d = bundle["workspace"]
  OBVIOUS
<1>11. PlaceOK(h, r, d, x)
  <2>1. {"c01", "full"} \subseteq DOMAIN results["workspace"] =>
          /\ {"c01", "full"} \subseteq DOMAIN x
          /\ x["c01"] = results["workspace"]["c01"] /\ x["full"] = results["workspace"]["full"]
    BY <1>7 DEF With
  <2>2. x["properties"] = lawful
    BY <1>7 DEF With
  <2>3. r.step \in AfterProperties => r.commit = h
    BY <1>2, <1>10 DEF PlaceOK, AfterProperties, AfterDiverge, AfterTs, AfterRust, AfterCheck
  <2>4. AfterProperties \subseteq AfterDiverge
    BY DEF AfterProperties
  <2>5. Progress(r, d, results["workspace"])
    BY <1>2, <1>10 DEF PlaceOK
  <2>6. r.step \in AfterProperties => x["properties"] = TRUE
    BY <1>1, <1>3, <2>2, <2>3, <2>5 DEF Progress
  <2>7. Progress(r, d, x)
    BY <2>1, <2>4, <2>5, <2>6 DEF Progress
  <2>8. QED
    BY <1>2, <1>10, <2>7 DEF PlaceOK
<1>12. CertInv'
  <2>1. /\ r \in RunType /\ run' = [run EXCEPT !["workspace"] = r]
        /\ bundle' = [bundle EXCEPT !["workspace"] = d]
    BY <1>2, <1>8, <1>10, NowFacts, SameFun DEF CertInv
  <2>2. /\ head' \in [Places -> Commits] /\ head'["clone"] = Baseline
        /\ \A q \in Places : q # "workspace" => head'[q] = head[q]
        /\ started' \in 0..MaxRuns /\ incidents' \in 0..MaxIncidents
    BY <1>8, NowFacts DEF CertInv
  <2>3. PlaceOK(head'["workspace"], r, d, x)
    BY <1>1, <1>8, <1>11
  <2>4. QED
    BY <1>2, <1>8, <2>1, <2>2, <2>3, NowFacts, PlaceAfter
<1>13. /\ c.number = camp.number /\ c.step = step /\ c.mode = camp.mode /\ c.fuzz = camp.fuzz
       /\ c.saved = camp.saved /\ c.attack = camp.attack /\ c.trouble = camp.trouble
       /\ c.case = camp.case
  BY <1>6, NowFacts DEF CampType
<1>14. step \in {"repro", "zip"} /\ (step = "repro" <=> camp.mode = "deep")
  BY <1>5
<1>15. c \in CampType
  BY <1>6, <1>14, NowFacts DEF CampType, Phases
<1>16. CasesOK(c)
  BY <1>8, <1>13, <1>14, NowFacts DEF CasesOK, Phases
<1>17. CloneOK(c, run["clone"]) /\ OutOK(c, out)
  BY <1>8, <1>13, <1>14, NowFacts DEF CloneOK, OutOK
<1>18. QED
  BY <1>8, <1>9, <1>12, <1>13, <1>14, <1>15, <1>16, <1>17, NowFacts, CampKeeps

LEMMA StartReproKeeps ==
  ASSUME StabInv, NEW node \in Nodes, StartRepro(node)
  PROVE  StabInv'
<1>1. PICK c : c = [camp EXCEPT !.step = "reproducing"]
  OBVIOUS
<1>2. /\ camp.step = "repro" /\ StartIn("clone", Baseline, node, Empty) /\ camp' = c
      /\ UNCHANGED <<head, results, started, incidents, out>>
  BY <1>1 DEF StartRepro
<1>3. "clone" \in Places /\ head["clone"] = Baseline
  BY NowFacts DEF CertInv, Places
<1>4. StartIn("clone", head["clone"], node, Empty)
  BY <1>2, <1>3
<1>5. started' \in 0..MaxRuns /\ incidents' \in 0..MaxIncidents
  BY <1>2, NowFacts DEF CertInv
<1>6. CertInv'
  BY <1>2, <1>3, <1>4, <1>5, NowFacts, EmptyOK, StartKeeps
<1>7. /\ c.number = camp.number /\ c.step = "reproducing" /\ c.mode = camp.mode
      /\ c.fuzz = camp.fuzz /\ c.saved = camp.saved /\ c.attack = camp.attack
      /\ c.trouble = camp.trouble /\ c.case = camp.case
  BY <1>1, NowFacts DEF CampType
<1>8. c \in CampType
  BY <1>1, NowFacts DEF CampType, Phases
<1>9. CasesOK(c)
  BY <1>2, <1>7, NowFacts DEF CasesOK, Phases
<1>10. PICK r : r = run'["clone"]
  OBVIOUS
<1>11. CloneOK(c, r) /\ OutOK(c, out)
  BY <1>2, <1>7, NowFacts DEF CloneOK, OutOK
<1>12. QED
  BY <1>2, <1>6, <1>7, <1>8, <1>9, <1>10, <1>11, NowFacts, CampKeeps

(* A run that is done has left the evidence expected of its commit.        *)
LEMMA DoneFacts ==
  ASSUME CertInv, NEW w \in Places, run[w].step = "done"
  PROVE  /\ "evidence.sha256" \in DOMAIN bundle[w]
         /\ bundle[w]["evidence.sha256"] = Hash(bundle[w])
         /\ bundle[w]["evidence.sha256"] = Expected(head[w], run[w].node)
         /\ run[w].commit = head[w] /\ run[w].node \in Nodes
<1>1. PICK c, node, b : c = head[w] /\ node = run[w].node /\ b = bundle[w]
  OBVIOUS
<1>2. /\ run[w].commit = head[w] /\ run[w].node \in Nodes
      /\ Progress(run[w], bundle[w], results[w])
  BY AtStep
<1>3. "evidence.sha256" \in DOMAIN b /\ b["evidence.sha256"] = Hash(b)
  BY <1>1, <1>2 DEF Progress
<1>4. run[w].step \in AfterCollect /\ run[w].step \in AfterSummary
  BY DEF AfterCheck, AfterRust, AfterTs, AfterDiverge, AfterProperties, AfterCollect, AfterSummary
<1>5. /\ Right(b, c, node, {"suite-run-rust.json"}) /\ Right(b, c, node, {"suite-run-ts.json"})
      /\ Right(b, c, node, Collected)
  BY <1>1, <1>2, <1>4, AllRight
<1>6. Right(b, c, node, Summaries)
  BY <1>1, <1>2, <1>4 DEF Progress
<1>7. \A n \in SealedNames : b[n] = Expected(c, node)[n]
  BY <1>5, <1>6 DEF Right, SealedNames, Suites, Collected, Results, Summaries
<1>8. Hash(b) = Expected(c, node)
  <2>1. PICK e, n, waves : /\ e = Expected(c, node) /\ n = Cardinality(Vectors(c))
                           /\ waves = Cardinality(Waves(Vectors(c)))
    OBVIOUS
  <2>2. ExpectedIs(e, c, node, n, waves)
    BY <2>1, ExpectedFacts
  <2>3. QED
    BY <1>7, <2>1, <2>2 DEF Hash, ExpectedIs
<1>9. QED
  BY <1>1, <1>2, <1>3, <1>8

(* Evidence of one commit tells the environments apart it was made in.     *)
LEMMA NodesTold ==
  ASSUME NEW c, NEW node, NEW other, Expected(c, node) = Expected(c, other)
  PROVE  node = other
<1>1. PICK e, n, waves : /\ e = Expected(c, node) /\ n = Cardinality(Vectors(c))
                         /\ waves = Cardinality(Waves(Vectors(c)))
  OBVIOUS
<1>2. ExpectedIs(e, c, node, n, waves) /\ ExpectedIs(e, c, other, n, waves)
  BY <1>1, ExpectedFacts
<1>3. inputs_hashes(c, node) = inputs_hashes(c, other)
  BY <1>2 DEF ExpectedIs
<1>4. QED
  BY <1>3 DEF inputs_hashes

(* The clone has made the baseline's evidence if it ended in the baseline's *)
(* environment, and only then.                                             *)
LEMMA ObservedFacts ==
  ASSUME CertInv
  PROVE  Observed <=> run["clone"].step = "done" /\ run["clone"].node = BaselineNode
<1>1. "clone" \in Places /\ head["clone"] = Baseline
  BY DEF CertInv, Places
<1>2. CASE run["clone"].step = "done"
  <2>1. bundle["clone"]["evidence.sha256"] = Expected(Baseline, run["clone"].node)
    BY <1>1, <1>2, DoneFacts
  <2>2. Observed <=> Expected(Baseline, run["clone"].node) = Expected(Baseline, BaselineNode)
    BY <1>2, <2>1 DEF Observed, BaselineSha
  <2>3. Expected(Baseline, run["clone"].node) = Expected(Baseline, BaselineNode)
          => run["clone"].node = BaselineNode
    BY NodesTold
  <2>4. QED
    BY <1>2, <2>2, <2>3
<1>3. CASE run["clone"].step # "done"
  BY <1>3 DEF Observed
<1>4. QED
  BY <1>2, <1>3

LEMMA ReproKeeps ==
  ASSUME StabInv, NEW cleanup \in safe_rmtree, CloneFails(cleanup) \/ EndRepro(cleanup)
  PROVE  StabInv'
<1>1. PICK o \in BOOLEAN : o = (camp.step = "reproducing" /\ Observed)
  OBVIOUS
<1>2. PICK c : c = [camp EXCEPT !.repro = o, !.cleanup = cleanup.status, !.left = cleanup.left,
                             !.step = "rollback"]
  OBVIOUS
<1>3. /\ UNCHANGED <<head, run, bundle, results, started, out>> /\ camp' = c
      /\ incidents' \in 0..MaxIncidents
      /\ \/ camp.step = "repro"
         \/ camp.step = "reproducing" /\ ~Running("clone")
  <2>1. CASE CloneFails(cleanup)
    <3>1. camp.step = "repro" /\ Incident /\ UNCHANGED <<head, run, bundle, results, started, out>>
      BY <2>1 DEF CloneFails
    <3>2. o = FALSE
      BY <1>1, <3>1
    <3>3. camp' = c
      BY <1>2, <2>1, <3>2 DEF CloneFails
    <3>4. incidents' \in 0..MaxIncidents
      BY <3>1, NowFacts, CertificationBounds DEF Incident, CertInv
    <3>5. QED
      BY <3>1, <3>3, <3>4
  <2>2. CASE EndRepro(cleanup)
    <3>1. camp.step = "reproducing" /\ ~Running("clone") /\ UNCHANGED <<certVars, out>>
      BY <2>2 DEF EndRepro
    <3>2. o = Observed
      BY <1>1, <3>1 DEF Observed
    <3>3. camp' = c
      BY <1>2, <2>2, <3>2 DEF EndRepro
    <3>4. QED
      BY <3>1, <3>3, NowFacts DEF certVars, CertInv
  <2>3. QED
    BY <2>1, <2>2
<1>4. CertInv'
  BY <1>3, NowFacts DEF CertInv
<1>5. /\ c.number = camp.number /\ c.step = "rollback" /\ c.mode = camp.mode
      /\ c.fuzz = camp.fuzz /\ c.saved = camp.saved /\ c.attack = camp.attack
      /\ c.trouble = camp.trouble /\ c.case = camp.case /\ c.repro = o
  BY <1>2, NowFacts DEF CampType
<1>6. c \in CampType
  <2>1. cleanup.status \in {"ok", "failed"} /\ cleanup.left \in BOOLEAN
    BY DEF safe_rmtree
  <2>2. QED
    BY <1>2, <2>1, NowFacts DEF CampType, Phases
<1>7. CasesOK(c)
  BY <1>3, <1>5, NowFacts DEF CasesOK, Phases
<1>8. PICK r : r = run["clone"]
  OBVIOUS
<1>9. o <=> r.step = "done" /\ r.node = BaselineNode
  <2>1. CASE camp.step = "repro"
    BY <1>1, <1>8, <2>1, NowFacts DEF CloneOK
  <2>2. CASE camp.step = "reproducing"
    BY <1>1, <1>8, <2>2, NowFacts, ObservedFacts
  <2>3. QED
    BY <1>3, <2>1, <2>2
<1>10. r.step \in {"idle", "done", "failed"}
  BY <1>3, <1>8, NowFacts DEF CloneOK, Running
<1>11. CloneOK(c, r)
  BY <1>5, <1>9, <1>10 DEF CloneOK
<1>12. OutOK(c, out)
  BY <1>3, <1>5, NowFacts DEF OutOK
<1>13. QED
  BY <1>3, <1>4, <1>5, <1>6, <1>7, <1>8, <1>11, <1>12, NowFacts, CampKeeps

LEMMA RehearseKeeps ==
  ASSUME StabInv, NEW facts \in RollbackAnswers, Rehearse(facts)
  PROVE  StabInv'
<1>1. PICK ok \in BOOLEAN : ok = (facts = RollbackFacts \ {"candidate"})
  OBVIOUS
<1>2. PICK c : c = [camp EXCEPT !.rollback = ok, !.step = "zip"]
  OBVIOUS
<1>3. camp.step = "rollback" /\ camp' = c /\ UNCHANGED <<certVars, out>>
  BY <1>1, <1>2 DEF Rehearse
<1>4. CertInv' /\ started' = started /\ run' = run
  BY <1>3, CertSame, NowFacts
<1>5. /\ c.number = camp.number /\ c.step = "zip" /\ c.mode = camp.mode
      /\ c.fuzz = camp.fuzz /\ c.saved = camp.saved /\ c.attack = camp.attack
      /\ c.trouble = camp.trouble /\ c.case = camp.case /\ c.repro = camp.repro
      /\ c.rollback = ok
  BY <1>2, NowFacts DEF CampType
<1>6. c \in CampType
  BY <1>2, NowFacts DEF CampType, Phases
<1>7. CasesOK(c)
  BY <1>3, <1>5, NowFacts DEF CasesOK, Phases
<1>8. CloneOK(c, run["clone"]) /\ OutOK(c, out)
  BY <1>3, <1>5, NowFacts DEF CloneOK, OutOK
<1>9. QED
  BY <1>3, <1>4, <1>5, <1>6, <1>7, <1>8, NowFacts, CampKeeps

LEMMA ZipKeeps ==
  ASSUME StabInv, Zip
  PROVE  StabInv'
<1>1. PICK c, o : c = [camp EXCEPT !.step = "report"] /\ o = [out EXCEPT !.zip = out.minimized]
  OBVIOUS
<1>2. camp.step = "zip" /\ camp' = c /\ out' = o /\ UNCHANGED certVars
  BY <1>1 DEF Zip
<1>3. CertInv' /\ started' = started /\ run' = run
  BY <1>2, CertSame, NowFacts
<1>4. /\ c.number = camp.number /\ c.step = "report" /\ c.mode = camp.mode
      /\ c.fuzz = camp.fuzz /\ c.saved = camp.saved /\ c.attack = camp.attack
      /\ c.trouble = camp.trouble /\ c.case = camp.case /\ c.repro = camp.repro
      /\ c.rollback = camp.rollback
  BY <1>1, NowFacts DEF CampType
<1>5. c \in CampType
  BY <1>1, NowFacts DEF CampType, Phases
<1>6. CasesOK(c)
  BY <1>2, <1>4, NowFacts DEF CasesOK, Phases
<1>7. CloneOK(c, run["clone"])
  BY <1>2, <1>4, NowFacts DEF CloneOK
<1>8. OutOK(c, o)
  <2>1. /\ out = [evidence |-> out.evidence, findings |-> out.findings,
                  minimized |-> out.minimized, zip |-> out.zip]
        /\ out.minimized \cup out.zip \subseteq (1..camp.number) \X DOMAIN FuzzCases
        /\ \A f, g \in out.minimized : f[2] = g[2] => f = g
        /\ \A j \in camp.saved : <<camp.number, j>> \in out.minimized
    BY <1>2, NowFacts DEF OutOK
  <2>2. /\ o = [evidence |-> o.evidence, findings |-> o.findings,
                minimized |-> o.minimized, zip |-> o.zip]
        /\ o.minimized = out.minimized /\ o.zip = out.minimized
    BY <1>1, <2>1
  <2>3. QED
    BY <1>4, <2>1, <2>2 DEF OutOK
<1>9. QED
  BY <1>2, <1>3, <1>4, <1>5, <1>6, <1>7, <1>8, NowFacts, CampKeeps

(* The verdict is what the campaign has found.                             *)
LEMMA GatesFacts ==
  ASSUME StabInv, camp.step = "report"
  PROVE  Verdict(StabGates(camp)) = "PASS" <=> Sound
<1>1. PICK attack, fuzz, properties, repro, rollback \in BOOLEAN :
        /\ attack = (camp.attack = {}) /\ fuzz = (camp.fuzz = {})
        /\ properties = camp.properties
        /\ repro = (camp.mode = "smoke" \/ camp.repro)
        /\ rollback = (camp.mode = "smoke" \/ camp.rollback)
  BY NowFacts DEF CampType
<1>2. PICK g : g = [attack_matrix_pass |-> attack, fuzz_no_crash_or_divergence |-> fuzz,
                    properties_pass |-> properties, repro_pass |-> repro,
                    rollback_rehearsal_pass |-> rollback]
  OBVIOUS
<1>3. g = StabGates(camp)
  BY <1>1, <1>2 DEF StabGates
<1>4. (\A n \in DOMAIN g : g[n]) <=> attack /\ fuzz /\ properties /\ repro /\ rollback
  BY <1>2
<1>5. Verdict(g) = "PASS" <=> attack /\ fuzz /\ properties /\ repro /\ rollback
  BY <1>4 DEF Verdict
<1>6. attack /\ fuzz <=> ~camp.trouble
  BY <1>1, NowFacts DEF CasesOK
<1>7. properties <=> camp.properties
  BY <1>1
<1>8. camp.mode \in {"smoke", "deep"}
  BY NowFacts DEF CasesOK, Phases, Modes
<1>9. repro /\ rollback <=>
        (camp.mode = "deep" =>
           /\ run["clone"].step = "done" /\ run["clone"].node = BaselineNode
           /\ camp.rollback)
  <2>1. CASE camp.mode = "smoke"
    BY <1>1, <2>1
  <2>2. CASE camp.mode = "deep"
    <3>1. /\ camp.repro \in BOOLEAN /\ camp.rollback \in BOOLEAN
          /\ camp.repro <=> run["clone"].step = "done" /\ run["clone"].node = BaselineNode
      BY <2>2, NowFacts DEF CloneOK
    <3>2. (repro <=> camp.repro) /\ (rollback <=> camp.rollback)
      BY <1>1, <2>2, <3>1
    <3>3. QED
      BY <2>2, <3>1, <3>2
  <2>3. QED
    BY <1>8, <2>1, <2>2
<1>10. QED
  BY <1>3, <1>5, <1>6, <1>7, <1>9 DEF Sound

LEMMA ReportKeeps ==
  ASSUME StabInv, Report
  PROVE  StabInv'
<1>1. PICK pass \in BOOLEAN : pass <=> Verdict(StabGates(camp)) = "PASS"
  OBVIOUS
<1>2. PICK verdict, exit : /\ verdict = Verdict(StabGates(camp))
                           /\ exit = IF verdict = "PASS" THEN 0 ELSE 1
  OBVIOUS
<1>3. PICK warning \in BOOLEAN : warning = (camp.cleanup = "failed")
  OBVIOUS
<1>4. PICK evidence : evidence = [number |-> camp.number, verdict |-> verdict, warning |-> warning]
  OBVIOUS
<1>5. PICK c : c = [camp EXCEPT !.step = "done", !.exit = exit]
  OBVIOUS
<1>6. PICK findings :
        findings = IF camp.attack \cup camp.fuzz = {} THEN out.findings ELSE camp.number
  OBVIOUS
<1>7. PICK o : o = [out EXCEPT !.evidence = evidence, !.findings = findings]
  OBVIOUS
<1>8. camp.step = "report" /\ camp' = c /\ UNCHANGED certVars
  BY <1>2, <1>5 DEF Report
<1>9. out' = o
  BY <1>2, <1>3, <1>4, <1>6, <1>7 DEF Report
<1>10. CertInv' /\ started' = started /\ run' = run
  BY <1>8, CertSame, NowFacts
<1>11. /\ c.number = camp.number /\ c.step = "done" /\ c.mode = camp.mode
       /\ c.fuzz = camp.fuzz /\ c.saved = camp.saved /\ c.attack = camp.attack
       /\ c.case = camp.case /\ c.repro = camp.repro
       /\ c.rollback = camp.rollback /\ c.exit = exit
  BY <1>5, NowFacts DEF CampType
<1>12. c.trouble = camp.trouble /\ c.properties = camp.properties
  BY <1>5, NowFacts DEF CampType
<1>13. (exit = 0 <=> pass) /\ exit \in {0, 1}
  BY <1>1, <1>2
<1>14. c \in CampType
  BY <1>5, <1>13, NowFacts DEF CampType, Phases
<1>15. CasesOK(c)
  BY <1>8, <1>11, <1>12, NowFacts DEF CasesOK, Phases
<1>16. CloneOK(c, run["clone"])
  BY <1>8, <1>11, NowFacts DEF CloneOK
<1>17. /\ out = [evidence |-> out.evidence, findings |-> out.findings,
                 minimized |-> out.minimized, zip |-> out.zip]
       /\ out.minimized \cup out.zip \subseteq (1..camp.number) \X DOMAIN FuzzCases
       /\ \A f, g \in out.minimized : f[2] = g[2] => f = g
       /\ \A j \in camp.saved : <<camp.number, j>> \in out.minimized
       /\ \A j \in camp.saved : <<camp.number, j>> \in out.zip
  BY <1>8, NowFacts DEF OutOK
<1>18. /\ o = [evidence |-> o.evidence, findings |-> o.findings,
               minimized |-> o.minimized, zip |-> o.zip]
       /\ o.minimized = out.minimized /\ o.zip = out.zip
       /\ o.evidence = evidence /\ o.findings = findings
  BY <1>7, <1>17
<1>19. OutOK(c, o)
  BY <1>11, <1>17, <1>18 DEF OutOK
<1>20. pass <=> Sound
  BY <1>1, <1>8, GatesFacts
<1>21. Sound' <=> Sound
  BY <1>8, <1>10, <1>11, <1>12 DEF Sound
<1>22. VerdictIsHonest'
  <2>1. camp'.exit = 0 <=> Sound'
    BY <1>8, <1>11, <1>13, <1>20, <1>21
  <2>2. out'.evidence.number = camp'.number
    BY <1>4, <1>8, <1>9, <1>11, <1>18
  <2>3. out'.evidence.verdict = "PASS" <=> Sound'
    BY <1>1, <1>2, <1>4, <1>9, <1>18, <1>20, <1>21
  <2>4. ({camp'.number} \X camp'.saved) \subseteq out'.zip
    BY <1>8, <1>9, <1>11, <1>17, <1>18
  <2>5. camp'.trouble => out'.findings = camp'.number
    <3>1. camp.trouble <=> camp.attack \cup camp.fuzz # {}
      BY NowFacts DEF CasesOK
    <3>2. QED
      BY <1>6, <1>8, <1>9, <1>11, <1>12, <1>18, <3>1
  <2>6. QED
    BY <2>1, <2>2, <2>3, <2>4, <2>5 DEF VerdictIsHonest
<1>23. QED
  BY <1>8, <1>9, <1>10, <1>11, <1>14, <1>15, <1>16, <1>19, <1>22, NowFacts DEF StabInv

LEMMA AbortKeeps ==
  ASSUME StabInv, Abort
  PROVE  StabInv'
<1>1. PICK left, c :
        /\ c = [NoCampaign EXCEPT !.number = camp.number, !.step = "aborted", !.exit = 1,
                                  !.left = left]
        /\ camp' = c /\ left \in BOOLEAN
  BY NowFacts DEF Abort, CampType
<1>2. /\ camp.step \notin {"idle", "done", "aborted"} /\ Incident /\ camp' = c
      /\ UNCHANGED <<head, bundle, results, started, out>>
      /\ IF camp.step = "reproducing" THEN run' = [run EXCEPT !["clone"] = NoRun]
         ELSE UNCHANGED run
  BY <1>1 DEF Abort, Active
<1>3. incidents' \in 0..MaxIncidents
  BY <1>2, NowFacts, CertificationBounds DEF Incident, CertInv
<1>4. "clone" \in Places
  BY DEF Places
<1>5. CertInv'
  <2>1. CASE camp.step = "reproducing"
    <3>1. PICK d, s : d = bundle["clone"] /\ s = results["clone"]
      OBVIOUS
    <3>2. /\ run' = [run EXCEPT !["clone"] = NoRun] /\ bundle' = [bundle EXCEPT !["clone"] = d]
          /\ results' = [results EXCEPT !["clone"] = s] /\ DirOK(d)
      BY <1>2, <1>4, <2>1, <3>1, NowFacts, SameFun DEF PlaceOK
    <3>3. /\ head' \in [Places -> Commits] /\ head'["clone"] = Baseline
          /\ \A q \in Places : q # "clone" => head'[q] = head[q]
          /\ started' \in 0..MaxRuns
      BY <1>2, NowFacts DEF CertInv
    <3>4. QED
      BY <1>3, <1>4, <3>2, <3>3, NowFacts, ResetKeeps
  <2>2. CASE camp.step # "reproducing"
    BY <1>2, <1>3, <2>2, NowFacts DEF CertInv
  <2>3. QED
    BY <2>1, <2>2
<1>6. c = [number |-> camp.number, step |-> "aborted", mode |-> None, case |-> 1, attack |-> {},
           fuzz |-> {}, saved |-> {}, trouble |-> FALSE, properties |-> FALSE, repro |-> None,
           cleanup |-> "not_run", left |-> left, rollback |-> None, exit |-> 1]
  BY <1>1 DEF NoCampaign
<1>7. c \in CampType
  <2>1. camp.number \in Nat /\ left \in BOOLEAN
    BY <1>1, NowFacts DEF CampType
  <2>2. QED
    BY <1>6, <2>1 DEF CampType, Phases
<1>8. CasesOK(c)
  <2>1. Len(AttackCases) \in Nat /\ Len(FuzzCases) \in Nat
    BY StabilizationConstants
  <2>2. 1 \in 1..(Len(AttackCases) + Len(FuzzCases) + 1)
    BY <2>1
  <2>3. camp.number >= 1
    BY <1>2, NowFacts DEF CasesOK
  <2>4. QED
    BY <1>6, <2>2, <2>3 DEF CasesOK
<1>9. PICK r : r = run'["clone"]
  OBVIOUS
<1>10. r.step \in {"idle", "done", "failed"}
  <2>1. CASE camp.step = "reproducing"
    BY <1>2, <1>4, <1>9, <2>1, NowFacts DEF CertInv, NoRun
  <2>2. CASE camp.step # "reproducing"
    BY <1>2, <1>9, <2>2, NowFacts DEF CloneOK
  <2>3. QED
    BY <2>1, <2>2
<1>11. CloneOK(c, r) /\ OutOK(c, out)
  BY <1>6, <1>10, NowFacts DEF CloneOK, OutOK
<1>12. QED
  BY <1>2, <1>5, <1>6, <1>7, <1>8, <1>9, <1>11, NowFacts, CampKeeps

LEMMA CampaignKeeps ==
  ASSUME StabInv, CampaignStep
  PROVE  StabInv'
<1>1. CASE \E mode \in Modes : StartCampaign(mode)
  BY <1>1, StartCampaignKeeps
<1>2. CASE \/ \E rust, ts \in Replies : AttackVector(rust, ts)
           \/ \E rust, ts \in [1..2 -> Replies] : AttackReplay(rust, ts)
  BY <1>2, AttackKeeps
<1>3. CASE \E rust, ts \in MutationReplies : FuzzCase(rust, ts)
  BY <1>3, FuzzKeeps
<1>4. CASE \E toolchain \in BOOLEAN : RunProperties(toolchain)
  BY <1>4, RunPropertiesKeeps
<1>5. CASE \E node \in Nodes : StartRepro(node)
  BY <1>5, StartReproKeeps
<1>6. CASE \E cleanup \in safe_rmtree : CloneFails(cleanup) \/ EndRepro(cleanup)
  BY <1>6, ReproKeeps
<1>7. CASE \E facts \in RollbackAnswers : Rehearse(facts)
  BY <1>7, RehearseKeeps
<1>8. CASE BeginFuzz \/ BeginProperties
  BY <1>8, BeginKeeps
<1>9. CASE Zip
  BY <1>9, ZipKeeps
<1>10. CASE Report
  BY <1>10, ReportKeeps
<1>11. CASE Abort
  BY <1>11, AbortKeeps
<1>12. QED
  BY <1>1, <1>2, <1>3, <1>4, <1>5, <1>6, <1>7, <1>8, <1>9, <1>10, <1>11 DEF CampaignStep

-----------------------------------------------------------------------------
(* The campaign beside the steps of a certification and a checkout.        *)

(* What goes on in the workspace is nothing to the campaign; in the clone  *)
(* something goes on only while the campaign waits for it.                 *)
LEMMA CampaignWaits ==
  ASSUME StabInv, CertInv', UNCHANGED <<camp, out>>, started' >= started,
         camp.step = "reproducing" \/ run'["clone"] = run["clone"]
  PROVE  StabInv'
<1>1. started' \in Nat /\ camp.number <= started'
  <2>1. started' \in Nat
    BY DEF CertInv
  <2>2. QED
    BY <2>1, NowFacts
<1>2. CASE run'["clone"] = run["clone"]
  <2>1. VerdictIsHonest'
    BY <1>2 DEF StabInv, VerdictIsHonest, Sound
  <2>2. QED
    BY <1>1, <1>2, <2>1, NowFacts DEF StabInv
<1>3. CASE camp.step = "reproducing"
  <2>1. PICK r : r = run'["clone"]
    OBVIOUS
  <2>2. CloneOK(camp, r)
    BY <1>3 DEF CloneOK
  <2>3. QED
    BY <1>1, <1>3, <2>1, <2>2, NowFacts, CampKeeps
<1>4. QED
  BY <1>2, <1>3

LEMMA CertificationKeeps ==
  ASSUME StabInv, CertificationStep, UNCHANGED <<camp, out>>
  PROVE  StabInv'
<1>1. ASSUME NEW node \in Nodes, StartCertification(node)
      PROVE  StabInv'
  <2>1. /\ StartIn("workspace", head["workspace"], node, bundle["workspace"])
        /\ started < MaxRuns /\ started' = started + 1 /\ UNCHANGED <<head, results, incidents>>
    BY <1>1 DEF StartCertification
  <2>2. "workspace" \in Places /\ "clone" \in Places /\ "workspace" # "clone"
    BY DEF Places
  <2>3. DirOK(bundle["workspace"])
    BY <2>2, NowFacts, SameFun DEF PlaceOK
  <2>4. started' \in 0..MaxRuns /\ incidents' \in 0..MaxIncidents /\ started' >= started
    BY <2>1, NowFacts, CertificationBounds DEF CertInv
  <2>5. CertInv'
    BY <2>1, <2>2, <2>3, <2>4, NowFacts, StartKeeps
  <2>6. run'["clone"] = run["clone"]
    BY <2>1, <2>2, NowFacts DEF StartIn, CertInv
  <2>7. QED
    BY <2>4, <2>5, <2>6, CampaignWaits
<1>2. ASSUME NEW w \in Places, CertStep(w)
      PROVE  StabInv'
  <2>1. CertInv' /\ Running(w)
    BY <1>2, NowFacts, CertStepKeeps, CertStepFrame
  <2>2. started' >= started /\ \A q \in Places : q # w => run'[q] = run[q]
    BY <1>2, NowFacts, CertStepFrame
  <2>3. CASE w = "clone"
    <3>1. camp.step = "reproducing"
      BY <2>1, <2>3, NowFacts DEF CloneOK, Running
    <3>2. QED
      BY <2>1, <2>2, <3>1, CampaignWaits
  <2>4. CASE w # "clone"
    <3>1. run'["clone"] = run["clone"]
      BY <2>2, <2>4 DEF Places
    <3>2. QED
      BY <2>1, <2>2, <3>1, CampaignWaits
  <2>5. QED
    BY <2>3, <2>4
<1>3. QED
  BY <1>1, <1>2 DEF CertificationStep

LEMMA CheckoutKeeps ==
  ASSUME StabInv, NEW c \in Commits, Checkout(c)
  PROVE  StabInv'
<1>1. /\ head' = [head EXCEPT !["workspace"] = c]
      /\ run' = [run EXCEPT !["workspace"] = NoRun]
      /\ UNCHANGED <<bundle, results, started, incidents, camp, out>>
  BY DEF Checkout
<1>2. "workspace" \in Places /\ "clone" \in Places /\ "workspace" # "clone"
  BY DEF Places
<1>3. PICK d, s : d = bundle["workspace"] /\ s = results["workspace"]
  OBVIOUS
<1>4. /\ bundle' = [bundle EXCEPT !["workspace"] = d]
      /\ results' = [results EXCEPT !["workspace"] = s] /\ DirOK(d)
  BY <1>1, <1>2, <1>3, NowFacts, SameFun DEF PlaceOK
<1>5. /\ head' \in [Places -> Commits] /\ head'["clone"] = Baseline
      /\ \A q \in Places : q # "workspace" => head'[q] = head[q]
  BY <1>1, <1>2, NowFacts DEF CertInv
<1>6. started' \in 0..MaxRuns /\ incidents' \in 0..MaxIncidents
  BY <1>1, NowFacts DEF CertInv
<1>7. CertInv'
  <2>1. run' = [run EXCEPT !["workspace"] = NoRun] /\ CertInv
    BY <1>1, NowFacts
  <2>2. QED
    BY <1>2, <1>4, <1>5, <1>6, <2>1, ResetKeeps
<1>8. run'["clone"] = run["clone"] /\ started' >= started
  BY <1>1, <1>2, NowFacts DEF CertInv
<1>9. QED
  BY <1>1, <1>7, <1>8, CampaignWaits

-----------------------------------------------------------------------------
LEMMA InitHolds ==
  ASSUME Init
  PROVE  StabInv
<1>1. /\ head \in [Places -> Commits] /\ head["clone"] = Baseline
      /\ run = [w \in Places |-> NoRun] /\ bundle = [w \in Places |-> Empty]
      /\ results = [w \in Places |-> Empty] /\ started = 0 /\ incidents = 0
      /\ camp = NoCampaign
      /\ out = [evidence |-> None, findings |-> None, minimized |-> {}, zip |-> {}]
  BY DEF Init, CertInit
<1>2. NoRun \in RunType /\ NoRun.step = "idle"
  <2>1. PICK r : r = NoRun
    OBVIOUS
  <2>2. r \in RunType /\ r.step = "idle"
    BY <2>1 DEF NoRun, RunType, Steps
  <2>3. QED
    BY <2>1, <2>2
<1>3. \A w \in Places : PlaceOK(head[w], run[w], bundle[w], results[w])
  <2>1. SUFFICES ASSUME NEW w \in Places PROVE PlaceOK(head[w], run[w], bundle[w], results[w])
    OBVIOUS
  <2>2. run[w].step = "idle" /\ DirOK(bundle[w])
    BY <1>1, <1>2, EmptyOK
  <2>3. QED
    BY <2>2, NothingDone
<1>4. started \in 0..MaxRuns /\ incidents \in 0..MaxIncidents
  BY <1>1, CertificationBounds
<1>5. CertInv
  BY <1>1, <1>2, <1>3, <1>4 DEF CertInv
<1>6. camp = [number |-> 0, step |-> "idle", mode |-> None, case |-> 1, attack |-> {},
              fuzz |-> {}, saved |-> {}, trouble |-> FALSE, properties |-> FALSE, repro |-> None,
              cleanup |-> "not_run", left |-> FALSE, rollback |-> None, exit |-> None]
  BY <1>1 DEF NoCampaign
<1>7. camp \in CampType /\ camp.number <= started
  BY <1>1, <1>6 DEF CampType, Phases
<1>8. CasesOK(camp)
  <2>1. Len(AttackCases) \in Nat /\ Len(FuzzCases) \in Nat
    BY StabilizationConstants
  <2>2. camp.case \in 1..(Len(AttackCases) + Len(FuzzCases) + 1)
    BY <1>6, <2>1
  <2>3. QED
    BY <1>6, <2>2 DEF CasesOK
<1>9. run["clone"].step = "idle"
  BY <1>1, <1>2 DEF Places
<1>10. CloneOK(camp, run["clone"])
  BY <1>6, <1>9 DEF CloneOK
<1>11. OutOK(camp, out)
  BY <1>1, <1>6 DEF OutOK
<1>12. VerdictIsHonest
  BY <1>6 DEF VerdictIsHonest
<1>13. QED
  BY <1>5, <1>7, <1>8, <1>10, <1>11, <1>12 DEF StabInv

(* The inductive invariant of the certification and the campaign.          *)
THEOREM StabInvariant == Spec => []StabInv
<1>1. Init => StabInv
  BY InitHolds
<1>2. StabInv /\ [Next]_vars => StabInv'
  <2>1. ASSUME StabInv, Next
        PROVE  StabInv'
    <3>1. CASE CertificationStep /\ UNCHANGED <<camp, out>>
      BY <2>1, <3>1, CertificationKeeps
    <3>2. CASE CampaignStep
      BY <2>1, <3>2, CampaignKeeps
    <3>3. ASSUME NEW c \in Commits, Checkout(c)
          PROVE  StabInv'
      BY <2>1, <3>3, CheckoutKeeps
    <3>4. QED
      BY <2>1, <3>1, <3>2, <3>3 DEF Next
  <2>2. ASSUME StabInv, UNCHANGED vars
        PROVE  StabInv'
    <3>1. UNCHANGED certVars /\ UNCHANGED <<camp, out>>
      BY <2>2 DEF vars
    <3>2. CertInv' /\ started' = started /\ run' = run
      BY <2>2, <3>1, NowFacts, CertSame
    <3>3. started' >= started
      BY <2>2, <3>2, NowFacts
    <3>4. QED
      BY <2>2, <3>1, <3>2, <3>3, CampaignWaits
  <2>3. QED
    BY <2>1, <2>2
<1>3. QED
  BY <1>1, <1>2, PTL DEF Spec

(* Runs, output directories and the campaign have their types; a suite in  *)
(* a directory adds up, and no case is kept there twice.                   *)
THEOREM StabTypeCorrect == Spec => []TypeOK
<1>1. StabInv => TypeOK
  <2>1. SUFFICES ASSUME StabInv PROVE TypeOK
    OBVIOUS
  <2>2. CertTypeOK
    <3>1. head \in [Places -> Commits] /\ started \in 0..MaxRuns /\ incidents \in 0..MaxIncidents
      BY <2>1, NowFacts DEF CertInv
    <3>2. ASSUME NEW w \in Places
          PROVE  /\ run[w].step \in Steps
                 /\ run[w].commit \in Commits \cup {None} /\ run[w].node \in Nodes \cup {None}
                 /\ run[w].step \notin {"idle", "failed"} => run[w].commit = head[w]
                 /\ DOMAIN bundle[w] \subseteq BundleNames
                 /\ \A n \in Suites \cap DOMAIN bundle[w] :
                      bundle[w][n].total = bundle[w][n].passed + Cardinality(bundle[w][n].failures)
      <4>1. run[w] \in RunType /\ PlaceOK(head[w], run[w], bundle[w], results[w])
        BY <2>1, NowFacts, SameFun
      <4>2. QED
        BY <4>1 DEF RunType, PlaceOK, DirOK, SuiteAdds
    <3>3. QED
      BY <3>1, <3>2 DEF CertTypeOK, Suites
  <2>3. StabTypeOK
    <3>1. camp.number \in 0..started
      BY <2>1, NowFacts
    <3>2. /\ camp.step \in Phases /\ camp.mode \in Modes \cup {None}
          /\ camp.attack \subseteq DOMAIN AttackCases /\ camp.saved \subseteq DOMAIN FuzzCases
          /\ camp.cleanup \in {"not_run", "ok", "failed"} /\ camp.left \in BOOLEAN
          /\ camp.exit \in {None, 0, 1}
      BY <2>1, NowFacts DEF CampType
    <3>3. /\ camp.case \in 1..(Len(AttackCases) + Len(FuzzCases) + 1)
          /\ camp.fuzz \subseteq camp.saved
          /\ camp.step = "attack" => camp.fuzz = {} /\ camp.case <= Len(AttackCases) + 1
      BY <2>1, NowFacts DEF CasesOK
    <3>4. /\ out.minimized \cup out.zip \subseteq (1..camp.number) \X DOMAIN FuzzCases
          /\ \A f, g \in out.minimized : f[2] = g[2] => f = g
      BY <2>1, NowFacts DEF OutOK
    <3>5. QED
      BY <3>1, <3>2, <3>3, <3>4 DEF StabTypeOK
  <2>4. QED
    BY <2>2, <2>3 DEF TypeOK
<1>2. QED
  BY <1>1, StabInvariant, PTL

(* interop_certify.sh leaves an evidence hash only of a certification that *)
(* was whole and passed, and one it says is done has left that of its      *)
(* files: of every vector of its commit, by both runners, in its           *)
(* environment.                                                            *)
THEOREM SealsStayWhole == Spec => []SealedIsWhole
<1>1. StabInv => SealedIsWhole
  <2>1. SUFFICES ASSUME StabInv, NEW w \in Places
                 PROVE  /\ "evidence.sha256" \in DOMAIN bundle[w] =>
                             \E c \in Commits, node \in Nodes :
                               /\ Certifiable(c)
                               /\ bundle[w]["evidence.sha256"] = Expected(c, node)
                        /\ run[w].step = "done" =>
                             /\ "evidence.sha256" \in DOMAIN bundle[w]
                             /\ bundle[w]["evidence.sha256"]
                                  = Expected(run[w].commit, run[w].node)
                             /\ Hash(bundle[w]) = bundle[w]["evidence.sha256"]
    BY DEF SealedIsWhole
  <2>2. HashIsWhole(bundle[w])
    BY <2>1, NowFacts, SameFun DEF PlaceOK, DirOK
  <2>3. ASSUME run[w].step = "done"
        PROVE  /\ "evidence.sha256" \in DOMAIN bundle[w]
               /\ bundle[w]["evidence.sha256"] = Expected(run[w].commit, run[w].node)
               /\ Hash(bundle[w]) = bundle[w]["evidence.sha256"]
    BY <2>1, <2>3, NowFacts, DoneFacts
  <2>4. QED
    BY <2>2, <2>3 DEF HashIsWhole
<1>2. QED
  BY <1>1, StabInvariant, PTL

(* run_rc_stab.py ends with the verdict and the exit code of what it has   *)
(* found, and no clone that stays, reported or not, and no leftover of     *)
(* another campaign changes them.                                          *)
THEOREM VerdictsStayHonest == Spec => []VerdictIsHonest
<1>1. StabInv => VerdictIsHonest
  BY DEF StabInv
<1>2. QED
  BY <1>1, StabInvariant, PTL

=============================================================================
