------------------------- MODULE SignedFoodJournal ------------------------
(***************************************************************************)
(* The in-memory journal of core/rust/grain-client-core/src/signed_food/   *)
(* mod.rs: its state as a record and each operation as a guard and a       *)
(* result.  "mutate" runs an operation on a clone and installs the clone   *)
(* only on success, so an operation whose guard is false is rejected and   *)
(* leaves the journal as it was.                                           *)
(*                                                                         *)
(* Definitions whose name begins with Faulty are not part of the model:    *)
(* each is the definition that follows it with one plausible programming   *)
(* error, kept to see which properties would notice it.                    *)
(***************************************************************************)
EXTENDS SignedFoodLedger

(* events    payloads of the transfer                                      *)
(* pending   the reservation: at most one payload, not yet signed into     *)
(*           the transfer                                                  *)
(* counters  largest sequence reserved or seen per key, -1 when the map    *)
(*           has no entry                                                  *)
(* readOnly  set when a public transfer was imported into a fresh journal  *)
Journal ==
  [events   : SUBSET Payload,
   pending  : SUBSET Payload,
   counters : [Author -> -1..MaxSeq],
   readOnly : BOOLEAN]

(* A journal whose state is None; no saved snapshot has this value.        *)
Blank ==
  [events |-> {}, pending |-> {}, counters |-> [a \in Author |-> -1],
   readOnly |-> FALSE]

-----------------------------------------------------------------------------
(* initialize: the reservation of the genesis payload.                     *)
GenesisJournal ==
  [events |-> {}, pending |-> {GenesisPayload},
   counters |-> [a \in Author |-> IF a = Root THEN 0 ELSE -1],
   readOnly |-> FALSE]

-----------------------------------------------------------------------------
(* prepare: a new reservation, or the pending one when the request is the  *)
(* same.                                                                   *)

CommittedAs(j, a, op) == {p \in j.events : p.ak = a /\ p.op = op}

Writable(j) == ~j.readOnly /\ j.events # {}

AlreadyCommitted(j, a, op, body) ==
  /\ Writable(j)
  /\ \E p \in CommittedAs(j, a, op) : p.body = body

(* Without the increment. *)
FaultyNextSeq(j, a, s) ==
  /\ s \in 1..MaxSeq
  /\ j.counters[a] <= s
  /\ \A p \in j.events : p.ak = a => p.seq <= s

(* s is one more than the largest of 0, the counter of a and the sequence  *)
(* numbers of a in the verified events.                                    *)
IsNextSeq(j, a, s) ==
  /\ s \in 1..MaxSeq
  /\ j.counters[a] < s
  /\ \A p \in j.events : p.ak = a => p.seq < s
  /\ \/ s = 1
     \/ j.counters[a] = s - 1
     \/ \E p \in j.events : p.ak = a /\ p.seq = s - 1

MayPrepare(j, a, op) ==
  /\ Writable(j)
  /\ CommittedAs(j, a, op) = {}
  /\ a \in Authorized(j.events)

(* The expected bytes are computed with the next sequence number. *)
FaultyCanResume(j, a, op, body) ==
  /\ MayPrepare(j, a, op)
  /\ \E s \in 0..MaxSeq : IsNextSeq(j, a, s)
                         /\ j.pending = {MakePayload(a, s, op, body)}

CanResume(j, a, op, body) ==
  /\ MayPrepare(j, a, op)
  /\ \E s \in 0..MaxSeq : j.pending = {MakePayload(a, s, op, body)}

(* validate_preparation is not called. *)
FaultyCanReserve(j, a, s, op, body) ==
  /\ MayPrepare(j, a, op)
  /\ j.pending = {}
  /\ IsNextSeq(j, a, s)

CanReserve(j, a, s, op, body) ==
  /\ MayPrepare(j, a, op)
  /\ j.pending = {}
  /\ IsNextSeq(j, a, s)
  /\ Evaluates(j.events \cup {MakePayload(a, s, op, body)})

Reserved(j, a, s, op, body) ==
  [j EXCEPT !.counters = [@ EXCEPT ![a] = s],
            !.pending = {MakePayload(a, s, op, body)}]

-----------------------------------------------------------------------------
(* commit_signature: the pending payload with a valid signature becomes an *)
(* event, unless the transfer that contains it does not verify.            *)
CanCommit(j) ==
  /\ j.pending # {}
  /\ Verified(j.events \cup j.pending)

Committed(j) ==
  [j EXCEPT !.events = @ \cup j.pending, !.pending = {}]

-----------------------------------------------------------------------------
(* validate_state: what every restored snapshot must satisfy.              *)
ValidPending(j, p) ==
  /\ ~j.readOnly
  /\ p.seq <= j.counters[p.ak]
  /\ IF p.body.kind = "LedgerGenesis"
       THEN j.events = {} /\ p = GenesisPayload
       ELSE /\ j.events # {}
            /\ p.ak \in Authorized(j.events)
            /\ \A q \in j.events : ~SameSlot(p, q) /\ ~SameOperation(p, q)
            /\ Evaluates(j.events \cup {p})

ValidState(j) ==
  /\ j.events # {} => Verified(j.events)
  /\ \A p \in j.events : p.seq <= j.counters[p.ak]
  /\ \A p \in j.pending : ValidPending(j, p)
  /\ j.pending = {} => j.events # {}

-----------------------------------------------------------------------------
(* restore_snapshot: the known history and the maxima are merged, the      *)
(* pending reservation of the current journal wins, and one that is        *)
(* already an event is dropped.                                            *)
(* A restore leaves a gap above both counters. *)
FaultyLargerOf(m, n) == IF m < n THEN n + 1 ELSE m + 1
LargerOf(m, n) == IF m < n THEN n ELSE m

(* The current history is not merged in. *)
FaultyMergedEvents(cur, in) == in.events
MergedEvents(cur, in) == in.events \cup cur.events

(* The incoming reservation wins. *)
FaultyMergedPending(cur, in) ==
  (IF in.pending # {} THEN in.pending ELSE cur.pending) \ MergedEvents(cur, in)
MergedPending(cur, in) ==
  (IF cur.pending # {} THEN cur.pending ELSE in.pending) \ MergedEvents(cur, in)

(* The current counters are not merged in. *)
FaultyMergedCounters(cur, in) == in.counters
MergedCounters(cur, in) ==
  [a \in Author |-> LargerOf(in.counters[a], cur.counters[a])]

(* The incoming flag replaces the current one. *)
FaultyMergedReadOnly(cur, in) == in.readOnly
MergedReadOnly(cur, in) == in.readOnly \/ cur.readOnly

Merged(cur, in) ==
  [events   |-> MergedEvents(cur, in),
   pending  |-> MergedPending(cur, in),
   counters |-> MergedCounters(cur, in),
   readOnly |-> MergedReadOnly(cur, in)]

(* The merged state is not validated again. *)
FaultyCanRestore(cur, in) ==
  /\ ValidState(in)
  /\ ListFits(Cardinality(in.events) + Cardinality(cur.events))

CanRestore(cur, in) ==
  /\ ValidState(in)
  /\ ListFits(Cardinality(in.events) + Cardinality(cur.events))
  /\ ValidState(Merged(cur, in))

-----------------------------------------------------------------------------
(* import_transfer: the events of a transfer E are merged into a journal   *)
(* with no reservation.  A fresh journal becomes read-only; there the list *)
(* the code verifies holds the incoming events twice.                      *)

(* c is the pointwise maximum of c0 and of the sequence numbers in E.      *)
IsRaised(c0, E, c) ==
  /\ c \in [Author -> -1..MaxSeq]
  /\ \A a \in Author : c0[a] <= c[a]
  /\ \A p \in E : p.seq <= c[p.ak]
  /\ \A a \in Author :
       c[a] = c0[a] \/ \E p \in E : p.ak = a /\ p.seq = c[a]

CanImport(cur, E) ==
  /\ Verified(E)
  /\ cur.pending = {}
  /\ ListFits(IF cur = Blank THEN 2 * Cardinality(E)
                             ELSE Cardinality(cur.events) + Cardinality(E))
  /\ Verified(cur.events \cup E)

(* The sequence numbers of the imported events are not counted. *)
FaultyImported(cur, E, c) ==
  [events   |-> cur.events \cup E,
   pending  |-> {},
   counters |-> cur.counters,
   readOnly |-> cur.readOnly \/ cur = Blank]

Imported(cur, E, c) ==
  [events   |-> cur.events \cup E,
   pending  |-> {},
   counters |-> c,
   readOnly |-> cur.readOnly \/ cur = Blank]

(* export_transfer: any journal with events gives them out.                *)
CanExport(j) == j.events # {} /\ Verified(j.events)

=============================================================================
