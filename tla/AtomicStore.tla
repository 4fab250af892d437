---------------------------- MODULE AtomicStore ---------------------------
(***************************************************************************)
(* What the SDK promises an application that awaits every call, without    *)
(* sections, snapshots or copies: a call is answered in one step, which    *)
(* leaves the store as it is, or adds the call's own records to it and     *)
(* takes nothing from the identity.  This is SDK-INV-0013 (atomic), with   *)
(* SDK-INV-0013a for the counters; SdkStore implements it while no two     *)
(* calls are in flight.                                                    *)
(***************************************************************************)
EXTENDS Integers, FiniteSets

CONSTANTS
  Call,       \* the calls
  None,       \* no bundle
  Empty,      \* the store before the first call
  Writes(_)   \* how many records an operation writes

VARIABLES
  content,  \* bundle, counters, records and objects of the store
  answer    \* what each call was told, with its operation and argument

vars == <<content, answer>>

Open == [at |-> "open", op |-> None, arg |-> None]

Init == content = Empty /\ answer = [c \in Call |-> Open]

(* Call c is answered, and no other call. *)
Answered(c, outcome) ==
  /\ answer[c] = Open
  /\ answer'[c].at = outcome
  /\ \A d \in Call \ {c} : answer'[d] = answer[d]

Fail(c) == Answered(c, "failed") /\ UNCHANGED content

(* A bundle that replaces another one has its root, its devices and its    *)
(* revocations.                                                            *)
Keeps(b, new) ==
  b # None =>
    /\ new # None /\ new.root = b.root
    /\ b.devices \subseteq new.devices
    /\ b.revoked \subseteq new.revoked

(* The records of a call are its own, with numbers of their own beyond the *)
(* allocator's counters, and no key writes one that was revoked before.    *)
Adds(c, op) ==
  LET own == content'.log \ content.log
  IN  /\ content.log \subseteq content'.log
      /\ Cardinality(own) = Writes(op)
      /\ \A e \in own :
           /\ e.by = c
           /\ content.seqs[e.ak] < e.seq
           /\ content.bundle # None => e.ak \notin content.bundle.revoked
      /\ \A e, f \in own : e.ak = f.ak /\ e.seq = f.seq => e = f

(* What a call reports to have done to a device.                           *)
Reported(op, arg) ==
  /\ op = "addDeviceKey" => arg \in content'.bundle.devices
  /\ op = "revokeDeviceKey" => arg \in content'.bundle.revoked

(* Records and imports leave the allocator where it is, or further on.     *)
Reserves(op) ==
  op \in {"append", "correct", "manifest", "importBundle"} =>
    \A k \in DOMAIN content.seqs : content.seqs[k] <= content'.seqs[k]

Succeed(c) ==
  /\ Answered(c, "done")
  /\ Adds(c, answer'[c].op)
  /\ Keeps(content.bundle, content'.bundle)
  /\ Reported(answer'[c].op, answer'[c].arg)
  /\ Reserves(answer'[c].op)
  /\ content'.objects = content.objects

Next == \E c \in Call : Fail(c) \/ Succeed(c)

Spec == Init /\ [][Next]_vars

=============================================================================
