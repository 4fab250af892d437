----------------------------- MODULE SdkStore -----------------------------
(***************************************************************************)
(* The TypeScript SDK of core/ts/grain-sdk: the in-memory store            *)
(* (memory-store.ts) with the identity, event and manifest managers that   *)
(* share it.  Every manager method is asynchronous.  What a call does up   *)
(* to its next await is one step here, and any other call may take steps   *)
(* before it goes on with the copies it has loaded; a call may also be the *)
(* only one, when the application awaits each (MaxRunning = 1).            *)
(*                                                                         *)
(* atomic() keeps one depth and one snapshot for all calls: the call that  *)
(* finds depth 0 takes the snapshot, and goes back to it when it fails.    *)
(*                                                                         *)
(* Definitions whose name begins with Faulty are no part of the model:     *)
(* each is the definition that follows it with one plausible programming   *)
(* error, kept to see which properties would notice it.                    *)
(***************************************************************************)
EXTENDS Integers, FiniteSets

CONSTANTS
  Call,        \* the calls an application makes, one operation each
  Ops,         \* the operations it uses
  Root,        \* key identifiers createRoot may derive
  Device,      \* key identifiers addDeviceKey may derive
  Object,      \* content identifiers of objects; see module AiBoundary
  None,        \* null and undefined
  MaxRunning,  \* bound: calls in flight; 1 when every call is awaited
  MaxSeq,      \* bound: sequence numbers
  MaxFiles,    \* bound: identity bundles outside the store
  MaxFaults    \* bound: store calls that throw

Operations ==
  {"createRoot", "setActiveAk", "addDeviceKey", "revokeDeviceKey",
   "importBundle", "append", "correct", "manifest"}

ASSUME SdkConstants ==
  /\ Root \cap Device = {}
  /\ None \notin Root \cup Device
  /\ Ops \subseteq Operations
  /\ {MaxRunning, MaxSeq, MaxFiles, MaxFaults} \subseteq Nat

VARIABLES
  store,   \* InMemorySdkStore: bundle, allocator, events and manifest records,
           \* objects
  depth,   \* atomicDepth
  saved,   \* atomicSnapshot
  call,    \* where each call stands, and its local copies
  files,   \* exported identity bundles, of this client and of others
  drawn,   \* keys that were generated; the generator never repeats
  faults,  \* store calls that threw so far
  before   \* history: the store when a call began while no other ran

vars == <<store, depth, saved, call, files, drawn, faults, before>>

Key == Root \cup Device
Counters == [Key -> 0..MaxSeq]

(* device_keys without the root key, which every bundle lists; a missing   *)
(* entry of seq_state counts as 0.                                         *)
Bundle ==
  [root    : Root,
   active  : Key,
   devices : SUBSET Device,
   revoked : SUBSET Device,
   seq     : Counters]

(* A ledger event or manifest record, with the call that made it.          *)
Record ==
  [kind   : {"event", "correction", "manifest",
             "DeviceKeyGrant", "DeviceKeyRevoke"},
   ak     : Key,
   seq    : 1..MaxSeq,
   device : Device \cup {None},
   by     : Call]

Store ==
  [bundle  : Bundle \cup {None},
   seqs    : Counters,
   log     : SUBSET Record,
   objects : SUBSET Object]

(* null is neither a bundle nor the contents of a store.                   *)
ASSUME NoneIsNothing == None \notin Bundle /\ None \notin Store

Zero == [k \in Key |-> 0]
EmptyStore == [bundle |-> None, seqs |-> Zero, log |-> {}, objects |-> {}]

Stages ==
  {"reserve", "save", "append", "load", "merge", "install", "exit",
   "rollback"}
Ended == {"done", "failed"}

CallState ==
  [at    : {"ready"} \cup Stages \cup Ended,
   op    : Operations \cup {None},
   arg   : Key \cup {None},        \* the key the caller names
   seen  : Bundle \cup {None},     \* the copy loaded, then the one to save
   n     : 0..MaxSeq,              \* the number reserved
   left  : 0..2,                   \* records still to write
   outer : BOOLEAN]                \* outermost

Fresh ==
  [at |-> "ready", op |-> None, arg |-> None, seen |-> None, n |-> 0,
   left |-> 0, outer |-> FALSE]

Running == {c \in Call : call[c].at \in Stages}

-----------------------------------------------------------------------------
(* Identity bundles.                                                       *)

NewBundle(r) ==
  [root |-> r, active |-> r, devices |-> {}, revoked |-> {}, seq |-> Zero]

(* revoked_aks is not consulted. *)
FaultyIsAuthorized(b, k) == k = b.root \/ k \in b.devices
IsAuthorized(b, k) == k = b.root \/ k \in b.devices \ b.revoked

(* validate_identity_bundle, without the key material *)
Valid(b) == IsAuthorized(b, b.active) /\ b.root \notin b.revoked

LargerOf(m, n) == IF m < n THEN n ELSE m
Maxima(f, g) == [k \in Key |-> LargerOf(f[k], g[k])]

WithDevice(b, d) == [b EXCEPT !.devices = @ \cup {d}]

(* The revoked key stays selected. *)
FaultyWithoutDevice(b, d) == [b EXCEPT !.revoked = @ \cup {d}]
WithoutDevice(b, d) ==
  [b EXCEPT !.revoked = @ \cup {d}, !.active = IF @ = d THEN b.root ELSE @]

(* The incoming bundle replaces the known devices and revocations.         *)
FaultyMergedKeys(b, in) ==
  [in EXCEPT !.active = b.active, !.seq = Maxima(b.seq, in.seq)]
MergedKeys(b, in) ==
  [b EXCEPT !.devices = @ \cup in.devices,
            !.revoked = @ \cup in.revoked,
            !.seq = Maxima(@, in.seq)]

Merged(b, in) ==
  IF b = None THEN in
  ELSE LET m == MergedKeys(b, in) IN
       [m EXCEPT !.active =
          IF IsAuthorized(m, @) THEN @
          ELSE IF IsAuthorized(m, in.active) THEN in.active ELSE m.root]

CanMerge(b, in) == Valid(in) /\ (b # None => b.root = in.root)

(* requireAuthorizedAk: the named key, or else the selected one *)
Resolved(b, k) == IF k = None THEN b.active ELSE k
CanWrite(b, k) == b # None /\ IsAuthorized(b, Resolved(b, k))

-----------------------------------------------------------------------------
(* What a running call writes.                                             *)

Lifecycle(c) == call[c].op \in {"addDeviceKey", "revokeDeviceKey"}

(* correct() writes its first record with the selected key. *)
Named(c) == IF call[c].left = 2 THEN None ELSE call[c].arg
Author(c) ==
  IF Lifecycle(c) THEN call[c].seen.root
                  ELSE Resolved(call[c].seen, Named(c))

KindOf(c) ==
  CASE call[c].op = "addDeviceKey"    -> "DeviceKeyGrant"
    [] call[c].op = "revokeDeviceKey" -> "DeviceKeyRevoke"
    [] call[c].op = "manifest"        -> "manifest"
    [] call[c].left = 2               -> "correction"
    [] OTHER                          -> "event"

RecordOf(c) ==
  [kind   |-> KindOf(c),
   ak     |-> Author(c),
   seq    |-> call[c].n,
   device |-> IF Lifecycle(c) THEN call[c].arg ELSE None,
   by     |-> c]

(* The number is taken from the bundle the call has loaded. *)
FaultyNextSeq(c) == call[c].seen.seq[Author(c)] + 1
NextSeq(c) == store.seqs[Author(c)] + 1

-----------------------------------------------------------------------------
TypeOK ==
  /\ store \in Store
  /\ depth \in 0..MaxRunning
  /\ saved \in Store \cup {None}
  /\ call \in [Call -> CallState]
  /\ files \subseteq Bundle
  /\ drawn \subseteq Key
  /\ faults \in 0..MaxFaults
  /\ before \in Store

Init ==
  /\ store = EmptyStore
  /\ depth = 0
  /\ saved = None
  /\ call = [c \in Call |-> Fresh]
  /\ files = {}
  /\ drawn = {}
  /\ faults = 0
  /\ before = EmptyStore

(* A call begins: it loads the bundle and examines its copy.  "stage" is   *)
(* where it goes on; a check that throws leads to "rollback".              *)
Begin(c, op, arg, copy, stage, writes, outermost) ==
  /\ call[c].at = "ready" /\ op \in Ops
  /\ Cardinality(Running) < MaxRunning
  /\ call' = [call EXCEPT ![c] =
       [Fresh EXCEPT !.at = stage, !.op = op, !.arg = arg, !.seen = copy,
                     !.left = writes, !.outer = outermost]]
  /\ before' = IF Running = {} THEN store ELSE before
  /\ UNCHANGED <<store, files, faults>>

(* store.atomic up to the first await of the mutation *)
Enter(c, op, arg, copy, stage, writes) ==
  /\ Begin(c, op, arg, copy, stage, writes, depth = 0)
  /\ depth' = depth + 1
  /\ saved' = IF depth = 0 THEN store ELSE saved

CreateRoot(c) ==
  LET b == store.bundle IN
  /\ \E r \in Root \ drawn :
       /\ drawn' = drawn \cup {r}
       /\ IF b = None
          THEN Begin(c, "createRoot", None, NewBundle(r), "save", 0, FALSE)
          ELSE Begin(c, "createRoot", None, None, "failed", 0, FALSE)
  /\ UNCHANGED <<depth, saved>>

SetActiveAk(c) ==
  LET b == store.bundle IN
  /\ \E k \in Key :
       IF CanWrite(b, k)
       THEN Begin(c, "setActiveAk", k, [b EXCEPT !.active = k], "save", 0,
                  FALSE)
       ELSE Begin(c, "setActiveAk", k, None, "failed", 0, FALSE)
  /\ UNCHANGED <<depth, saved, drawn>>

AddDeviceKey(c) ==
  LET b == store.bundle IN
  \E d \in Device \ drawn :
    /\ drawn' = drawn \cup {d}
    /\ IF b # None
       THEN Enter(c, "addDeviceKey", d, WithDevice(b, d), "reserve", 1)
       ELSE Enter(c, "addDeviceKey", d, None, "rollback", 1)

RevokeDeviceKey(c) ==
  LET b == store.bundle IN
  /\ \E k \in Key :
       IF b # None /\ k \in b.devices
       THEN Enter(c, "revokeDeviceKey", k, WithoutDevice(b, k), "reserve", 1)
       ELSE Enter(c, "revokeDeviceKey", k, None, "rollback", 1)
  /\ UNCHANGED drawn

ImportBundle(c) ==
  LET b == store.bundle IN
  /\ \E in \in files :
       IF CanMerge(b, in)
       THEN Enter(c, "importBundle", None, Merged(b, in), "merge", 0)
       ELSE Enter(c, "importBundle", None, None, "rollback", 0)
  /\ UNCHANGED drawn

(* events.append, events.correct, manifest.put and del                     *)
Granting(b, k) == IF CanWrite(b, k) THEN "reserve" ELSE "rollback"

WriteRecord(c) ==
  LET b == store.bundle IN
  /\ \E k \in Key \cup {None} :
       \/ Enter(c, "append", k, b, Granting(b, k), 1)
       \/ Enter(c, "correct", k, b, Granting(b, None), 2)
       \/ k = None /\ Enter(c, "manifest", k, b, Granting(b, k), 1)
  /\ UNCHANGED drawn

-----------------------------------------------------------------------------
(* The steps of a running call.                                            *)

(* Leaving the call resets what is of no use any more.                     *)
Leave(c, outcome) ==
  [call EXCEPT ![c] =
     [Fresh EXCEPT !.at = outcome, !.op = call[c].op, !.arg = call[c].arg]]

Others == <<files, drawn, before>>

(* sequence.reserveNextSeq *)
Reserve(c) ==
  LET n == NextSeq(c) IN
  /\ call[c].at = "reserve" /\ n <= MaxSeq
  /\ store' = [store EXCEPT !.seqs[Author(c)] = n]
  /\ call' = [call EXCEPT ![c].n = n,
                ![c].at = IF Lifecycle(c) THEN "save" ELSE "append",
                ![c].seen = IF Lifecycle(c)
                            THEN [@ EXCEPT !.seq[Author(c)] = n] ELSE @]
  /\ UNCHANGED <<depth, saved, faults, Others>>

(* identity.save: the allocator is cleared and filled from the bundle      *)
Save(c) ==
  LET b == call[c].seen IN
  /\ call[c].at = "save"
  /\ store' = [store EXCEPT !.bundle = b, !.seqs = b.seq]
  /\ call' = IF call[c].op \in {"createRoot", "setActiveAk"}
             THEN Leave(c, "done")
             ELSE [call EXCEPT ![c].at =
                     IF Lifecycle(c) THEN "append" ELSE "exit"]
  /\ UNCHANGED <<depth, saved, faults, Others>>

(* events.append, manifest.append *)

(* correct() is content with its first record. *)
FaultyAfterRecord(c) == "exit"
AfterRecord(c) == IF call[c].left > 1 THEN "load" ELSE "exit"

Append(c) ==
  /\ call[c].at = "append"
  /\ store' = [store EXCEPT !.log = @ \cup {RecordOf(c)}]
  /\ call' = [call EXCEPT ![c].left = @ - 1, ![c].at = AfterRecord(c)]
  /\ UNCHANGED <<depth, saved, faults, Others>>

(* The second appendWithinMutation of correct loads the bundle again.      *)
Load(c) ==
  /\ call[c].at = "load"
  /\ call' = [call EXCEPT ![c].seen = store.bundle,
                          ![c].at = Granting(store.bundle, call[c].arg)]
  /\ UNCHANGED <<store, depth, saved, faults, Others>>

(* importBundle: the merged counters include those of the allocator        *)

(* Only the counters of the two bundles are merged. *)
FaultyMerge(c) ==
  /\ call[c].at = "merge"
  /\ call' = [call EXCEPT ![c].at = "install"]
  /\ UNCHANGED <<store, depth, saved, faults, Others>>

Merge(c) ==
  /\ call[c].at = "merge"
  /\ call' = [call EXCEPT ![c].seen.seq = Maxima(@, store.seqs),
                          ![c].at = "install"]
  /\ UNCHANGED <<store, depth, saved, faults, Others>>

(* sequence.importSnapshot *)
Install(c) ==
  /\ call[c].at = "install"
  /\ store' = [store EXCEPT !.seqs = call[c].seen.seq]
  /\ call' = [call EXCEPT ![c].at = "save"]
  /\ UNCHANGED <<depth, saved, faults, Others>>

(* atomic after the mutation has returned                                  *)

(* Every call drops the snapshot, not only the outermost. *)
FaultyExit(c) ==
  /\ call[c].at = "exit"
  /\ depth' = depth - 1
  /\ saved' = None
  /\ call' = Leave(c, "done")
  /\ UNCHANGED <<store, faults, Others>>

Exit(c) ==
  /\ call[c].at = "exit"
  /\ depth' = depth - 1
  /\ saved' = IF call[c].outer THEN None ELSE saved
  /\ call' = Leave(c, "done")
  /\ UNCHANGED <<store, faults, Others>>

(* atomic after the mutation has thrown                                    *)

(* The depth is only lowered on success. *)
FaultyRollback(c) ==
  /\ call[c].at = "rollback"
  /\ store' = IF call[c].outer THEN saved ELSE store
  /\ saved' = IF call[c].outer THEN None ELSE saved
  /\ call' = Leave(c, "failed")
  /\ UNCHANGED <<depth, faults, Others>>

(* The identity bundle is not part of the snapshot. *)
FaultyRestored == [saved EXCEPT !.bundle = store.bundle]

(* The objects are cleared, and not copied back. *)
FaultyObjects == [saved EXCEPT !.objects = {}]
Restored == saved

Rollback(c) ==
  /\ call[c].at = "rollback"
  /\ depth' = depth - 1
  /\ store' = IF call[c].outer THEN Restored ELSE store
  /\ saved' = IF call[c].outer THEN None ELSE saved
  /\ call' = Leave(c, "failed")
  /\ UNCHANGED <<faults, Others>>

(* A store method throws, as the methods of a store that persists may.     *)
(* Throwing at the next stage stands for throwing after the effect.        *)
Throw(c) ==
  /\ call[c].at \in Stages \ {"rollback"} /\ faults < MaxFaults
  /\ faults' = faults + 1
  /\ call' = IF call[c].op \in {"createRoot", "setActiveAk"}
             THEN Leave(c, "failed")
             ELSE [call EXCEPT ![c].at = "rollback"]
  /\ UNCHANGED <<store, depth, saved, Others>>

-----------------------------------------------------------------------------
(* Bundles outside the store.                                              *)

Circulate(b) ==
  /\ "importBundle" \in Ops
  /\ b \notin files /\ Cardinality(files) < MaxFiles
  /\ files' = files \cup {b}
  /\ UNCHANGED <<store, depth, saved, call, faults, before>>

ExportBundle ==
  store.bundle # None /\ Circulate(store.bundle) /\ UNCHANGED drawn

(* Another client creates an identity, or goes on from a bundle it has     *)
(* imported, and exports what it has.                                      *)
OtherClient ==
  \/ \E r \in Root \ drawn :
       Circulate(NewBundle(r)) /\ drawn' = drawn \cup {r}
  \/ \E b \in files :
       /\ b.seq[b.root] < MaxSeq
       /\ LET numbered == [b EXCEPT !.seq[b.root] = @ + 1] IN
          \/ \E d \in Device \ drawn :
               /\ Circulate(WithDevice(numbered, d))
               /\ drawn' = drawn \cup {d}
          \/ \E d \in b.devices :
               Circulate(WithoutDevice(numbered, d)) /\ UNCHANGED drawn
          \/ \E k \in Key :
               /\ IsAuthorized(b, k)
               /\ Circulate([b EXCEPT !.active = k])
               /\ UNCHANGED drawn

(* The application need not call anything while no call runs.              *)
Idle == Running = {} /\ UNCHANGED vars

Next ==
  \/ \E c \in Call :
       \/ CreateRoot(c) \/ SetActiveAk(c)
       \/ AddDeviceKey(c) \/ RevokeDeviceKey(c) \/ ImportBundle(c)
       \/ WriteRecord(c)
       \/ Reserve(c) \/ Save(c) \/ Append(c) \/ Load(c)
       \/ Merge(c) \/ Install(c)
       \/ Exit(c) \/ Rollback(c) \/ Throw(c)
  \/ ExportBundle \/ OtherClient
  \/ Idle

Spec == Init /\ [][Next]_vars

-----------------------------------------------------------------------------
(* What the managers promise to an application that awaits every call.     *)

(* "Public multi-step SDK mutations MUST roll back on failure instead of   *)
(* leaving partial persisted state" (SDK-INV-0013): a call that failed     *)
(* left no record; one that succeeded left all of them, and the device or  *)
(* revocation it reports (atomic, correct, addDeviceKey, revokeDeviceKey). *)
Writes(op) ==
  CASE op = "correct" -> 2
    [] op \in {"append", "manifest", "addDeviceKey", "revokeDeviceKey"} -> 1
    [] OTHER -> 0
AllOrNothing ==
  \A c \in Call :
    LET own == {e \in store.log : e.by = c}
        op == call[c].op
    IN /\ call[c].at = "done" => Cardinality(own) = Writes(op)
       /\ call[c].at = "failed" => own = {}
       /\ call[c].at = "done" /\ op = "addDeviceKey" =>
            call[c].arg \in store.bundle.devices
       /\ call[c].at = "done" /\ op = "revokeDeviceKey" =>
            call[c].arg \in store.bundle.revoked

(* Once revoked, a key writes nothing more, whether it is named, selected  *)
(* or given to the second record of a correction (requireAuthorizedAk).    *)
RevokedNeverWrites ==
  [][\A e \in store'.log \ store.log :
       e.ak \notin store.bundle.revoked]_vars

(* The selected key is one that may write, after every revocation, every   *)
(* import and every rollback (revokeDeviceKey, mergeIdentityAuthorization).*)
ActiveCanWrite ==
  store.bundle # None =>
    /\ store.bundle.active \in store.bundle.devices \cup {store.bundle.root}
    /\ store.bundle.active \notin store.bundle.revoked

(* Between two calls the client keeps its root, its devices and its        *)
(* revocations, however old the bundle it imported (SDK-INV-0013b).        *)
KnowledgeStays ==
  Running = {} /\ before.bundle # None =>
    /\ store.bundle # None
    /\ store.bundle.root = before.bundle.root
    /\ before.bundle.devices \subseteq store.bundle.devices
    /\ before.bundle.revoked \subseteq store.bundle.revoked

(* No import moves a counter back, however old the bundle and however far  *)
(* the allocator is ahead of the saved one (SDK-INV-0013a), and neither    *)
(* does a record.  Other calls do: see ReducerAgrees.                      *)
CountersGrow ==
  [][\A c \in Call :
       /\ call[c].at \in Stages /\ call'[c].at \in Ended
       /\ call[c].op \in {"importBundle", "append", "correct", "manifest"}
       => \A k \in Key : before.seqs[k] <= store'.seqs[k]]_vars

(* No key gives one sequence number to two records, be they events or      *)
(* manifest records (reserveNextSeq; spec/NES-v0.1.md 6.5).                *)
SequencesUnique ==
  \A e, f \in store.log : e.ak = f.ak /\ e.seq = f.seq => e = f

(* The depth counts the calls inside a section, and there is a snapshot    *)
(* exactly while one of them would go back to it (atomic).                 *)
InSection(c) ==
  call[c].at \in Stages /\ call[c].op \notin {"createRoot", "setActiveAk"}
SectionsBalance ==
  LET outermost == {c \in Call : call[c].outer} IN
  /\ depth = Cardinality({c \in Call : InSection(c)})
  /\ Cardinality(outermost) <= 1
  /\ (saved # None) = (outermost # {})

(* Calls that overlap do each other no harm as long as every one is        *)
(* accepted: they draw different numbers although they work on copies of   *)
(* one bundle, and none loses a record (reserveNextSeq, atomic).  One that *)
(* fails may take the records of others with it: see CorrectWritesBoth.    *)
OverlapKeepsRecords ==
  (\A c \in Call : call[c].at \notin {"rollback", "failed"}) =>
    SequencesUnique /\ AllOrNothing

-----------------------------------------------------------------------------
(* What an application that awaits every call sees of the store is what    *)
(* lies between two calls, and how its calls ended.                        *)
ContentNow == IF Running = {} THEN store ELSE before
AnswerNow ==
  [c \in Call |->
     IF call[c].at \in Ended
     THEN [at |-> call[c].at, op |-> call[c].op, arg |-> call[c].arg]
     ELSE [at |-> "open", op |-> None, arg |-> None]]

Atomic == INSTANCE AtomicStore WITH
  Empty <- EmptyStore,
  content <- ContentNow,
  answer <- AnswerNow

(* Between its awaits a call may do to the store what it likes: once it is *)
(* answered the store has all of it or, counters and bundle included, none *)
(* of it (atomic, restoreSnapshot).                                        *)
ImplementsAtomicStore == Atomic!Spec

-----------------------------------------------------------------------------
(* What the documentation promises and the code does not keep.             *)

(* The reducer (grain-ts-core/src/ops/ledger.ts): two payloads for one     *)
(* number of one author take each other out.                               *)
Events == {e \in store.log : e.kind # "manifest"}
SamePayload(e, f) ==
  IF e.device = None THEN e = f
                     ELSE e.kind = f.kind /\ e.device = f.device
Conflicted(e) ==
  \E f \in Events : e.ak = f.ak /\ e.seq = f.seq /\ ~SamePayload(e, f)
Counted(kind) ==
  {e.device : e \in {f \in Events : /\ f.kind = kind /\ ~Conflicted(f)
                                   /\ f.ak = store.bundle.root}}
ReducerAuthorizes(d) ==
  d \in Counted("DeviceKeyGrant") \ Counted("DeviceKeyRevoke")

(* "Public device lifecycle APIs MUST keep bundle authorization state      *)
(* synchronized with persisted grant/revoke ledger events" (SDK-INV-0012): *)
(* a device added here is authorized by the bundle exactly when it is by   *)
(* the events.                                                             *)
ReducerAgrees ==
  Running = {} =>
    \A c \in Call : call[c].at = "done" /\ call[c].op = "addDeviceKey" =>
      IsAuthorized(store.bundle, call[c].arg) = ReducerAuthorizes(call[c].arg)

(* "events.correct() either writes both events or rolls back both"         *)
(* (docs/human/sdk/impossible-misuse.md), also when calls overlap.         *)
CorrectWritesBoth ==
  \A c \in Call : call[c].op = "correct" /\ call[c].at \in Ended =>
    Cardinality({e \in store.log : e.by = c}) \in {0, 2}
=============================================================================
