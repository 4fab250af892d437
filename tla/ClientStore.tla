---------------------------- MODULE ClientStore ---------------------------
(***************************************************************************)
(* The portable client of core/rust/grain-client-core: the in-memory store *)
(* (memory_store.rs) and the workflows that run on it, for the replicas of *)
(* one or more identities.  A replica is one GrainClientMemoryStore, whose *)
(* mutex makes every call one step; "atomic" restores everything when a    *)
(* mutation fails, so a rejected call is a guard that is false.            *)
(*                                                                         *)
(* Replicas only meet through what applications carry from one to another: *)
(* identity bundles, pairing envelopes, sync bundles and store snapshots.  *)
(* All four are copies of the same three parts of a store, so an export    *)
(* puts one bundle into circulation, where it stays: any replica may       *)
(* import it in any of the four ways, at any time, any number of times.    *)
(*                                                                         *)
(* Definitions whose name begins with Faulty are no part of the model:     *)
(* each is the definition that follows it with one plausible programming   *)
(* error, kept to see which properties would notice it.                    *)
(***************************************************************************)
EXTENDS Integers, FiniteSets

CONSTANTS
  Replica,     \* client stores
  Root,        \* key identifiers identity_create_root may draw
  Device,      \* key identifiers device_add_key may draw
  Scan,        \* scans that verify under explicit trust
  NoIdentity,  \* identity_bundle is None
  MaxSeq,      \* u64::MAX, the largest sequence number
  MaxBundles   \* bound: bundles in circulation

ASSUME ClientConstants ==
  /\ Root \cap Device = {}
  /\ MaxSeq \in Nat
  /\ MaxBundles \in Nat

VARIABLES
  client,   \* the contents of every replica
  bundles,  \* the bundles in circulation
  drawn,    \* keys that have been generated; the generator never repeats
  issued,   \* history: the lifecycle events each replica has made
  dropped   \* history: replicas that restored a snapshot without identity

vars == <<client, bundles, drawn, issued, dropped>>

Counters == [Root -> 0..MaxSeq]

(* device_keys without the root key, which every bundle lists; a missing   *)
(* entry of seq_state counts as 0.                                         *)
Identity ==
  [root    : Root,
   active  : Root \cup Device,
   devices : SUBSET Device,
   revoked : SUBSET Device,
   seq     : Counters]

(* None is not a bundle.                                                   *)
ASSUME NoIdentityIsNone == NoIdentity \notin Identity

(* Event identifier and payload follow from these.                         *)
Event ==
  [kind   : {"DeviceKeyGrant", "DeviceKeyRevoke"},
   root   : Root,
   seq    : 1..MaxSeq,
   device : Device]

Bundle ==
  [identity : Identity \cup {NoIdentity},
   scans    : SUBSET Scan,
   events   : SUBSET Event]

Contents ==
  [identity : Identity \cup {NoIdentity},
   seqs     : Counters,
   scans    : SUBSET Scan,
   events   : SUBSET Event]

Zero == [r \in Root |-> 0]
Blank ==
  [identity |-> NoIdentity, seqs |-> Zero, scans |-> {}, events |-> {}]

HasIdentity(c) == c.identity # NoIdentity

-----------------------------------------------------------------------------
(* Identities.                                                             *)

IsAuthorized(id, k) == k = id.root \/ k \in id.devices \ id.revoked

ValidIdentity(id) == IsAuthorized(id, id.active)

LargerOf(m, n) == IF m < n THEN n ELSE m

(* The incoming counters replace the known ones. *)
FaultyMaxima(f, g) == g
Maxima(f, g) == [r \in Root |-> LargerOf(f[r], g[r])]

(* merge_identity_bundle of two bundles of one root: nothing known is      *)
(* forgotten, revocation wins over a grant, and the active key of the      *)
(* existing bundle stays unless it is revoked.                             *)

CanMerge(id, in) == id.root = in.root

(* A revocation the incoming bundle does not know is lost. *)
FaultyMergedKeys(id, in) ==
  [id EXCEPT !.devices = @ \cup in.devices,
             !.revoked = in.revoked,
             !.seq = Maxima(@, in.seq)]

MergedKeys(id, in) ==
  [id EXCEPT !.devices = @ \cup in.devices,
             !.revoked = @ \cup in.revoked,
             !.seq = Maxima(@, in.seq)]

(* The active key is examined before the revocations are merged. *)
FaultyMergedIdentity(id, in) ==
  LET m == MergedKeys(id, in) IN
  [m EXCEPT !.active = IF ValidIdentity(id) THEN id.active ELSE m.root]

MergedIdentity(id, in) ==
  LET m == MergedKeys(id, in) IN
  [m EXCEPT !.active =
     IF IsAuthorized(m, id.active) THEN id.active
     ELSE IF IsAuthorized(m, in.active) THEN in.active ELSE m.root]

(* What a client holds after it merged the identity "in"; the allocator is *)
(* loaded from the result (import_seq_state, save_identity_bundle).        *)
WithIdentity(c, id) == [c EXCEPT !.identity = id, !.seqs = id.seq]
Merged(c, in) ==
  WithIdentity(c, IF HasIdentity(c) THEN MergedIdentity(c.identity, in) ELSE in)

-----------------------------------------------------------------------------
(* Lifecycle events and bundles.                                           *)

MakeEvent(kind, r, n, d) ==
  [kind |-> kind, root |-> r, seq |-> n, device |-> d]

(* validate_lifecycle_event_record *)
ValidEvent(e, id) ==
  /\ e.root = id.root
  /\ e.seq <= id.seq[e.root]
  /\ e.device \in id.devices
  /\ e.kind = "DeviceKeyRevoke" => e.device \in id.revoked

Exported(c) ==
  [identity |-> c.identity, scans |-> c.scans, events |-> c.events]

IsEmpty(c) == ~HasIdentity(c) /\ c.scans = {} /\ c.events = {}

(* decode_sync_bundle, decode_store_snapshot *)
ValidBundle(b) ==
  /\ HasIdentity(b) => ValidIdentity(b.identity)
  /\ ~HasIdentity(b) => b.events = {}
  /\ \A e \in b.events : ValidEvent(e, b.identity)

CanSync(c, b) ==
  /\ ValidBundle(b)
  /\ HasIdentity(b) /\ HasIdentity(c) => CanMerge(c.identity, b.identity)

(* The events of the bundle are left out. *)
FaultySynced(c, b) ==
  LET m == IF HasIdentity(b) THEN Merged(c, b.identity) ELSE c IN
  [m EXCEPT !.scans = @ \cup b.scans]

Synced(c, b) ==
  LET m == IF HasIdentity(b) THEN Merged(c, b.identity) ELSE c IN
  [m EXCEPT !.scans = @ \cup b.scans, !.events = @ \cup b.events]

(* identity_import_bundle refuses an identity under which the events the   *)
(* client keeps would not be valid.                                        *)
CanImportIdentity(c, b) ==
  /\ HasIdentity(b) /\ ValidIdentity(b.identity)
  /\ HasIdentity(c) => CanMerge(c.identity, b.identity)
  /\ \A e \in c.events : ValidEvent(e, Merged(c, b.identity).identity)

(* restore_store_snapshot replaces everything but the counters, which also *)
(* become those of the restored identity.                                  *)
CountersOf(b) == IF HasIdentity(b) THEN b.identity.seq ELSE Zero

(* The maxima reach the allocator but not the identity. *)
FaultyRestored(c, b) ==
  [identity |-> b.identity,
   seqs     |-> Maxima(CountersOf(b), c.seqs),
   scans    |-> b.scans,
   events   |-> b.events]

Restored(c, b) ==
  LET m == Maxima(CountersOf(b), c.seqs) IN
  [identity |-> IF HasIdentity(b) THEN [b.identity EXCEPT !.seq = m]
                                  ELSE NoIdentity,
   seqs     |-> m,
   scans    |-> b.scans,
   events   |-> b.events]

-----------------------------------------------------------------------------
TypeOK ==
  /\ client \in [Replica -> Contents]
  /\ bundles \subseteq Bundle
  /\ drawn \subseteq Root \cup Device
  /\ issued \in [Replica -> SUBSET Event]
  /\ dropped \subseteq Replica

Init ==
  /\ client = [s \in Replica |-> Blank]
  /\ bundles = {}
  /\ drawn = {}
  /\ issued = [s \in Replica |-> {}]
  /\ dropped = {}

Becomes(s, c) == client' = [client EXCEPT ![s] = c]

CreateRoot(s) ==
  /\ ~HasIdentity(client[s])
  /\ \E r \in Root \ drawn :
       /\ drawn' = drawn \cup {r}
       /\ Becomes(s, WithIdentity(client[s],
            [root |-> r, active |-> r, devices |-> {}, revoked |-> {},
             seq |-> Zero]))
  /\ UNCHANGED <<bundles, issued, dropped>>

(* reserve_next_seq *)

(* The addition wraps instead of failing (checked_add). *)
FaultyNextSeq(c) == (c.seqs[c.identity.root] + 1) % (MaxSeq + 1)
NextSeq(c) == c.seqs[c.identity.root] + 1

(* A number is reserved for the root, written into the bundle id, and an   *)
(* event made with it (save_identity_bundle, append_lifecycle_event).      *)

(* The number is not written into the bundle. *)
FaultyIssue(s, kind, id, d) ==
  LET c == client[s]
      n == NextSeq(c)
      e == MakeEvent(kind, id.root, n, d)
  IN /\ n <= MaxSeq
     /\ Becomes(s, [WithIdentity(c, id) EXCEPT !.events = @ \cup {e}])
     /\ issued' = [issued EXCEPT ![s] = @ \cup {e}]
     /\ UNCHANGED <<bundles, dropped>>

Issue(s, kind, id, d) ==
  LET c == client[s]
      n == NextSeq(c)
      e == MakeEvent(kind, id.root, n, d)
  IN /\ n <= MaxSeq
     /\ Becomes(s, [WithIdentity(c, [id EXCEPT !.seq[id.root] = n])
                      EXCEPT !.events = @ \cup {e}])
     /\ issued' = [issued EXCEPT ![s] = @ \cup {e}]
     /\ UNCHANGED <<bundles, dropped>>

AddDevice(s) ==
  /\ HasIdentity(client[s])
  /\ \E d \in Device \ drawn :
       /\ drawn' = drawn \cup {d}
       /\ Issue(s, "DeviceKeyGrant",
                [client[s].identity EXCEPT !.devices = @ \cup {d}], d)

(* A key that is already revoked is not revoked again. *)
RevokedIn(id, d) ==
  [id EXCEPT !.revoked = @ \cup {d},
             !.active = IF @ = d THEN id.root ELSE @]

RevokeDevice(s) ==
  /\ HasIdentity(client[s])
  /\ \E d \in client[s].identity.devices \ client[s].identity.revoked :
       Issue(s, "DeviceKeyRevoke", RevokedIn(client[s].identity, d), d)
  /\ UNCHANGED drawn

SetActive(s) ==
  /\ HasIdentity(client[s])
  /\ \E k \in Root \cup Device :
       /\ IsAuthorized(client[s].identity, k)
       /\ Becomes(s, WithIdentity(client[s],
                       [client[s].identity EXCEPT !.active = k]))
  /\ UNCHANGED <<bundles, drawn, issued, dropped>>

AcceptScan(s) ==
  /\ \E x \in Scan : Becomes(s, [client[s] EXCEPT !.scans = @ \cup {x}])
  /\ UNCHANGED <<bundles, drawn, issued, dropped>>

(* export_store_snapshot, sync_export_bundle, identity_export_bundle,      *)
(* pairing_create_envelope                                                 *)
Export(s) ==
  /\ ~IsEmpty(client[s])
  /\ Cardinality(bundles) < MaxBundles
  /\ bundles' = bundles \cup {Exported(client[s])}
  /\ UNCHANGED <<client, drawn, issued, dropped>>

ImportIdentity(s) ==
  /\ \E b \in bundles :
       /\ CanImportIdentity(client[s], b)
       /\ Becomes(s, Merged(client[s], b.identity))
  /\ UNCHANGED <<bundles, drawn, issued, dropped>>

AcceptPairing(s) ==
  /\ ~HasIdentity(client[s])
  /\ \E b \in bundles :
       /\ HasIdentity(b) /\ ValidIdentity(b.identity)
       /\ Becomes(s, WithIdentity(client[s], b.identity))
  /\ UNCHANGED <<bundles, drawn, issued, dropped>>

ImportSync(s) ==
  /\ \E b \in bundles :
       /\ CanSync(client[s], b)
       /\ Becomes(s, Synced(client[s], b))
  /\ UNCHANGED <<bundles, drawn, issued, dropped>>

RestoreSnapshot(s) ==
  /\ \E b \in bundles :
       /\ ValidBundle(b)
       /\ Becomes(s, Restored(client[s], b))
       /\ dropped' = IF HasIdentity(b) THEN dropped ELSE dropped \cup {s}
  /\ UNCHANGED <<bundles, drawn, issued>>

Next ==
  \E s \in Replica :
    \/ CreateRoot(s)
    \/ AddDevice(s)
    \/ RevokeDevice(s)
    \/ SetActive(s)
    \/ AcceptScan(s)
    \/ Export(s)
    \/ ImportIdentity(s)
    \/ AcceptPairing(s)
    \/ ImportSync(s)
    \/ RestoreSnapshot(s)

Spec == Init /\ [][Next]_vars

-----------------------------------------------------------------------------
(* What the replicas promise.                                              *)

(* "A valid client remains snapshot-restorable" (adr/sdk/0010): whatever   *)
(* was issued, merged and replaced, the snapshot of a replica is accepted  *)
(* again, by validate_snapshot_shape and validate_lifecycle_event_record.  *)
SnapshotsRestorable == \A s \in Replica : ValidBundle(Exported(client[s]))

(* A bundle of any age is accepted by every replica of the same root, as a *)
(* sync bundle and as an identity: stale imports are merged, not refused   *)
(* (adr/sdk/0010), and retained lifecycle events never stand in the way    *)
(* (identity_import_bundle, decode_sync_bundle).                           *)
SameRoot(c, b) ==
  HasIdentity(c) /\ HasIdentity(b) => c.identity.root = b.identity.root
BundlesAccepted ==
  \A s \in Replica : \A b \in bundles : SameRoot(client[s], b) =>
    /\ CanSync(client[s], b)
    /\ HasIdentity(b) => CanImportIdentity(client[s], b)

(* A replica never gives a sequence number of the root to two of its own   *)
(* events, whatever old bundles it imports or restores in between          *)
(* (reserve_next_seq, restore_store_snapshot, merge_identity_bundle).  The *)
(* exception is documented in adr/sdk/0008: after a snapshot without an    *)
(* identity the counters live in memory only, and an identity imported     *)
(* next replaces them.                                                     *)
NoReissue ==
  \A s \in Replica \ dropped : \A e, f \in issued[s] :
    e.root = f.root /\ e.seq = f.seq => e = f

(* Two replicas that import each other's sync bundles agree on everything  *)
(* but their active keys (sync_import_bundle).                             *)
SameKnowledge(c, k) ==
  /\ c.scans = k.scans /\ c.events = k.events
  /\ HasIdentity(c) /\ HasIdentity(k)
  /\ c.identity.devices = k.identity.devices
  /\ c.identity.revoked = k.identity.revoked
  /\ c.identity.seq = k.identity.seq
SyncConverges ==
  \A s, t \in Replica :
    LET x == Synced(client[s], Exported(client[t]))
        y == Synced(client[t], Exported(x))
    IN HasIdentity(client[t]) /\ SameRoot(client[s], client[t]) =>
         SameKnowledge(x, y)

(* Importing a sync bundle a second time changes nothing (SDK-INV-0025).   *)
RepeatedSyncIsIdle ==
  \A s \in Replica : \A b \in bundles :
    CanSync(client[s], b) =>
      LET c == Synced(client[s], b) IN CanSync(c, b) /\ Synced(c, b) = c

(* A replica with an identity never moves a counter back, and loses a      *)
(* device, a revocation, an event or a scan only to a snapshot it          *)
(* restores (save_identity_bundle clears the allocator on every save).     *)
Keeps(c, k) ==
  /\ HasIdentity(k) /\ c.identity.root = k.identity.root
  /\ c.identity.devices \subseteq k.identity.devices
  /\ c.identity.revoked \subseteq k.identity.revoked
  /\ c.events \subseteq k.events
  /\ c.scans \subseteq k.scans
KnowledgeGrows ==
  [][\A s \in Replica : HasIdentity(client[s]) =>
       /\ \A r \in Root : client[s].seqs[r] <= client'[s].seqs[r]
       /\ \/ Keeps(client[s], client'[s])
          \/ \E b \in bundles : client'[s] = Restored(client[s], b)]_vars

=============================================================================
