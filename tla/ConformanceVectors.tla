------------------------ MODULE ConformanceVectors ------------------------
(***************************************************************************)
(* The conformance vectors of a commit and the scripts that judge them     *)
(* without running anything: validate_vectors.py, the runner contract, the *)
(* audit of the invariants; and the summary of a suite that ran them.      *)
(*                                                                         *)
(* A vector is what the scripts tell apart of it:                          *)
(*   stem, vector_id  the file's name and the id inside                    *)
(*   form             what the id looks like: "wave" (a good -WA- id),     *)
(*                    "positive", "negative" (POS-OBJ-, NEG-OBJ-), "other" *)
(*                    or "malformed" (a bad -WA- id)                       *)
(*   folder           "object" or another                                  *)
(*   keys, strict, op, pass, diags    the fields of those names            *)
(*   object_type      a type, "unknown", "nonstring", or None if absent    *)
(*   text             "plain", or what is wrong in its strings and lists   *)
(*   flaws            the number of violated rules of its op's shape       *)
(*                                                                         *)
(* Definitions whose name begins with Faulty are no part of the model:     *)
(* each is the definition beside it with one plausible programming error.  *)
(***************************************************************************)
EXTENDS Integers, FiniteSets

CONSTANTS
  Commits,
  Content,       \* what a commit has of vectors, invariants, contract, engines
  InputKeys,     \* [known ops -> keys its input needs]
  TypedTypes,    \* types that need a positive vector
  SelectorKind,  \* [ids of the selector vectors -> the bad object_type]
  SelectorDiag,  \* [ids of the selector vectors -> the diagnostic expected]
  None

TopKeys == {"vector_id", "op", "strict", "input", "expect"}
OutputKeys == {"vector_id", "pass", "diag", "out"}
SelectorIds == DOMAIN SelectorKind

Vectors(c) == Content[c].vectors
Stems(vs) == {v.stem : v \in vs}

ASSUME ContentIsRead ==
  \A c \in Commits :
    LET x == Content[c] IN
    /\ IsFiniteSet(x.vectors)
    /\ \A v, w \in x.vectors : v.stem = w.stem => v = w    \* one file each
    /\ x.rust \cup x.ts \cup x.differ \subseteq Stems(x.vectors)
    /\ x.lawful \in BOOLEAN

-----------------------------------------------------------------------------
(* validate_vectors.py *)

ValidIdentity(v, vs) ==
  /\ v.vector_id = v.stem
  /\ \A w \in vs : w.vector_id = v.vector_id => w = v
  /\ v.form # "malformed"
  /\ v.folder = "object" => v.form \in {"positive", "negative"}

ValidInput(v) ==
  /\ TopKeys \subseteq v.keys
  /\ v.strict
  /\ v.op \in DOMAIN InputKeys /\ InputKeys[v.op] \subseteq v.keys

(* An object type that is no type is for the vectors that test just that.  *)
ValidObjectType(v) ==
  /\ v.object_type = None => v.folder # "object"
  /\ v.object_type # None =>
       /\ v.op = "dagcbor_validate"
       /\ v.object_type \notin TypedTypes =>
            /\ v.folder = "object" /\ v.vector_id \in SelectorIds
            /\ v.object_type = SelectorKind[v.vector_id]
       /\ v.object_type \in TypedTypes /\ v.folder = "object" /\ v.form = "positive" => v.pass
  /\ v.folder = "object" => v.op = "dagcbor_validate"

ValidSelector(v) ==
  v.vector_id \in SelectorIds => ~v.pass /\ SelectorDiag[v.vector_id] \in v.diags

(* Placeholders, base64 and integers in what is expected.                  *)
ValidText(v) == v.text = "plain"

(* A negative vector may break the shape that it is there to have refused; *)
(* of a stream, one rule of it only.                                       *)
ValidShape(v) ==
  \/ v.flaws = 0
  \/ v.op = "manifest_resolve" /\ ~v.pass /\ "GRAIN_ERR_MANIFEST_OP" \in v.diags
  \/ v.op = "parse_cborseq_stream_v1" /\ ~v.pass /\ "GRAIN_ERR_SCHEMA" \in v.diags /\ v.flaws = 1

PositiveTypes(vs) ==
  {v.object_type : v \in {w \in vs : w.folder = "object" /\ w.form = "positive" /\ w.pass}}

SelectorsSeen(vs) ==
  {v.vector_id : v \in {w \in vs : w.object_type \in {"unknown", "nonstring"}}}

validate_vectors(vs) ==
  /\ \A v \in vs :
       /\ ValidIdentity(v, vs) /\ ValidInput(v) /\ ValidObjectType(v)
       /\ ValidSelector(v) /\ ValidText(v) /\ ValidShape(v)
  /\ TypedTypes \subseteq PositiveTypes(vs)
  /\ SelectorIds \subseteq SelectorsSeen(vs)

-----------------------------------------------------------------------------
(* check_runner_contract_compat.py *)

OpsOf(vs) == {v.op : v \in vs}

(* documented: what SPEC.md mentions of the command line and the ops;      *)
(* schema: the keys both required and described by the output schema.      *)
check_runner_contract_compat(c) ==
  LET x == Content[c] IN
  /\ x.ops # {}
  /\ {"cli"} \cup x.ops \subseteq x.documented
  /\ OpsOf(x.vectors) = x.ops
  /\ OutputKeys \subseteq x.schema

-----------------------------------------------------------------------------
(* audit_invariants.py: an invariant names vectors, static checks, or that *)
(* it is an exception.                                                     *)

Missing(c) ==
  {i \in Content[c].invariants :
     ~(i.vectors \subseteq Stems(Vectors(c)) /\ i.statics \subseteq Content[c].statics)}

Uncovered(c) ==
  {i \in Content[c].invariants : i.vectors = {} /\ i.statics = {} /\ ~i.exception}

(* Without a vector of either sign: reported only, and left out.           *)
audit(c) ==
  [status |-> IF Missing(c) \cup Uncovered(c) = {} THEN "PASS" ELSE "FAIL",
   invariants_total |-> Cardinality(Content[c].invariants)]

-----------------------------------------------------------------------------
(* run_runner_suite.py: how a runner answers a vector, and the summary.    *)

Answers == {"pass", "fail", "exit", "garbled", "timeout"}

FaultyRunSuite(vs, answer, commit_sha) ==
  LET failures == {n \in Stems(vs) : answer[n] \in Answers \ {"pass", "timeout"}}
  IN  [commit_sha |-> commit_sha, total |-> Cardinality(vs),
       passed |-> Cardinality({n \in Stems(vs) : answer[n] = "pass"}), failures |-> failures]
run_suite(vs, answer, commit_sha) ==
  LET failures == {n \in Stems(vs) : answer[n] # "pass"}
  IN  [commit_sha |-> commit_sha, total |-> Cardinality(vs),
       passed |-> Cardinality({n \in Stems(vs) : answer[n] = "pass"}), failures |-> failures]

(* How the two runners of a commit answer: they may both miss what a       *)
(* vector expects, and differ where no vector looks.                       *)
Answer(c, wrong) == [n \in Stems(Vectors(c)) |-> IF n \in wrong THEN "fail" ELSE "pass"]
RustAnswer(c) == Answer(c, Content[c].rust)
TsAnswer(c) == Answer(c, Content[c].ts)

divergence(c, vs) ==
  [total |-> Cardinality(vs),
   mismatches |-> {n \in Stems(vs) : n \in Content[c].differ \/ RustAnswer(c)[n] # TsAnswer(c)[n]}]

(* What a commit must have to be worth certifying, and does not depend on  *)
(* how the scripts find out: every op and every type is tested, the ids    *)
(* are the files' own, and no invariant is without evidence.               *)
Covers(c) ==
  /\ \A op \in Content[c].ops : \E v \in Vectors(c) : v.op = op
  /\ \A t \in TypedTypes : \E v \in Vectors(c) : v.object_type = t /\ v.pass
  /\ \A i \in SelectorIds : \E v \in Vectors(c) : v.stem = i /\ ~v.pass
  /\ Cardinality({v.vector_id : v \in Vectors(c)}) = Cardinality(Vectors(c))
  /\ \A i \in Content[c].invariants :
       i.exception \/ i.statics \cap Content[c].statics # {} \/ i.vectors \cap Stems(Vectors(c)) # {}
=============================================================================
