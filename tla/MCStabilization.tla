-------------------------- MODULE MCStabilization --------------------------
(* Constants for checking Stabilization with TLC. *)
EXTENDS Stabilization

CONSTANT none

Keys == TopKeys \cup {"bytes_b64"}

Positive ==
  [stem |-> "POS-OBJ-001", vector_id |-> "POS-OBJ-001", form |-> "positive",
   folder |-> "object", keys |-> Keys, strict |-> TRUE, op |-> "dagcbor_validate",
   object_type |-> "CookRun", pass |-> TRUE, diags |-> {}, text |-> "plain", flaws |-> 0]

Selector ==
  [Positive EXCEPT !.stem = "NEG-OBJ-097", !.vector_id = "NEG-OBJ-097", !.form = "negative",
                   !.object_type = "nonstring", !.pass = FALSE, !.diags = {"GRAIN_ERR_SCHEMA"}]

Stream ==
  [Positive EXCEPT !.stem = "NEG-SEQ-WA-0001", !.vector_id = "NEG-SEQ-WA-0001", !.form = "wave",
                   !.folder = "stream", !.op = "parse_cborseq_stream_v1", !.object_type = None,
                   !.pass = FALSE, !.diags = {"GRAIN_ERR_SCHEMA"}, !.flaws = 1]

Sample == {Positive, Selector, Stream}

Invariant(vectors, exception) ==
  [id |-> <<"INV", vectors>>, vectors |-> vectors, statics |-> {}, exception |-> exception]

Good ==
  [vectors |-> Sample, rust |-> {}, ts |-> {}, differ |-> {}, lawful |-> TRUE, policies |-> TRUE,
   ops |-> {"dagcbor_validate", "parse_cborseq_stream_v1"},
   documented |-> {"cli", "dagcbor_validate", "parse_cborseq_stream_v1"},
   schema |-> OutputKeys, statics |-> {},
   invariants |-> {Invariant({"POS-OBJ-001", "NEG-OBJ-097"}, FALSE), Invariant({}, TRUE)}]

(* The baseline; a commit with a vector copied under another name; one     *)
(* whose Rust engine misses what a vector expects; one whose engines       *)
(* differ where no vector looks.                                           *)
ContentOf ==
  [c \in Commits |->
     CASE c = "copied" -> [Good EXCEPT !.vectors = @ \cup {[Positive EXCEPT !.stem = "POS-OBJ-002"]}]
       [] c = "wrong" -> [Good EXCEPT !.rust = {"NEG-OBJ-097"}]
       [] c = "differs" -> [Good EXCEPT !.differ = {"NEG-SEQ-WA-0001"}]
       [] OTHER -> Good]

Keys1 == [o \in {"dagcbor_validate", "parse_cborseq_stream_v1"} |->
            IF o = "dagcbor_validate" THEN {"bytes_b64"} ELSE {}]
Kinds == [i \in {"NEG-OBJ-097"} |-> "nonstring"]
Diags == [i \in {"NEG-OBJ-097"} |-> "GRAIN_ERR_SCHEMA"]

Cases == <<[kind |-> "vector"], [kind |-> "replay"]>>
Mutated == <<"FZ-1">>
=============================================================================
