-------------------------- MODULE SignedFoodWallet ------------------------
(***************************************************************************)
(* The signed-food wallets of an owner: each is the Swift actor            *)
(* sdk/swift/Sources/GrainSignedFood/GrainSignedFoodWallet.swift around    *)
(* one in-memory journal and one storage location.  A call of the actor    *)
(* runs without a suspension point, so calls of one wallet never           *)
(* interleave, but the process may end between any two effects of a call:  *)
(* the reservation in memory, the save, the signature that may already     *)
(* have left the process, the commit in memory, the second save, the       *)
(* receipt.  Each of them is a step here.                                  *)
(*                                                                         *)
(* Wallets exchange what applications can copy between them: transfers     *)
(* (public event lists) and private snapshots, of any age.                 *)
(*                                                                         *)
(* As in SignedFoodJournal, a definition whose name begins with Faulty is  *)
(* no part of the specification.                                           *)
(***************************************************************************)
EXTENDS SignedFoodJournal

CONSTANTS
  Wallet,      \* the wallets, one per storage location
  Holder,      \* the wallet whose application holds the signing key
  MaxFaults,   \* bound: failed saves, failed reloads and failed signers
  MaxCrashes,  \* bound: process ends with a working wallet
  MaxLosses    \* bound: deletions of a stored snapshot from outside

ASSUME WalletConstants ==
  /\ Holder \in [Author -> Wallet]
  /\ MaxFaults \in Nat
  /\ MaxCrashes \in Nat
  /\ MaxLosses \in Nat

VARIABLES
  pc,       \* what the wallet does next, see Control
  mem,      \* its in-memory journal, Blank when it has none
  disk,     \* the stored snapshot, Blank when there is none
  durable,  \* hasDurableSnapshot of the running actor
  archive,  \* snapshots that were stored at some time: the copies an
            \* application may keep, and the transfers exported from them
  signed,   \* history: the payloads whose signature a signer produced
  acked,    \* history: per wallet, the events its receipts reported
  stored,   \* history: wallets whose storage ever held a snapshot
  cold,     \* history: those of them that were opened on an empty storage
  faults, crashes, losses  \* counters of the bounds

bounds == <<faults, crashes, losses>>
history == <<signed, acked, stored, cold>>
vars == <<pc, mem, disk, durable, archive, history, bounds>>

(* down     no actor                                                       *)
(* idle     between calls                                                  *)
(* reserve  a reservation is in memory, its snapshot is to be saved        *)
(* sign     the reservation is saved, the signer is called next            *)
(* commit   the signature is there, the journal has not seen it            *)
(* settle   the journal has changed, the snapshot is to be saved before    *)
(*          the receipt                                                    *)
(* stopped  the actor has no journal: every call throws writerUnavailable  *)
Control ==
  {"down", "idle", "reserve", "sign", "commit", "settle", "stopped"}

Live(w) == pc[w] \notin {"down", "stopped"}
Transfers == {j.events : j \in {k \in archive : CanExport(k)}}

TypeOK ==
  /\ pc \in [Wallet -> Control]
  /\ mem \in [Wallet -> Journal]
  /\ disk \in [Wallet -> Journal]
  /\ durable \in [Wallet -> BOOLEAN]
  /\ archive \subseteq Journal
  /\ signed \subseteq Payload
  /\ acked \in [Wallet -> SUBSET Payload]
  /\ stored \subseteq Wallet
  /\ cold \subseteq Wallet
  /\ faults \in 0..MaxFaults
  /\ crashes \in 0..MaxCrashes
  /\ losses \in 0..MaxLosses

Init ==
  /\ pc = [w \in Wallet |-> "down"]
  /\ mem = [w \in Wallet |-> Blank]
  /\ disk = [w \in Wallet |-> Blank]
  /\ durable = [w \in Wallet |-> FALSE]
  /\ archive = {}
  /\ signed = {}
  /\ acked = [w \in Wallet |-> {}]
  /\ stored = {} /\ cold = {}
  /\ faults = 0 /\ crashes = 0 /\ losses = 0

-----------------------------------------------------------------------------
(* The environment: processes end and start, storage disappears.           *)

(* init of the actor, with the snapshot the storage returns.  It throws    *)
(* and there is no actor when the snapshot cannot be restored.             *)
Open(w) ==
  /\ pc[w] = "down"
  /\ disk[w] # Blank => CanRestore(Blank, disk[w])
  /\ pc' = [pc EXCEPT ![w] = "idle"]
  /\ mem' = [mem EXCEPT ![w] = IF disk[w] = Blank
                                 THEN Blank ELSE Merged(Blank, disk[w])]
  /\ durable' = [durable EXCEPT ![w] = disk[w] # Blank]
  /\ cold' = IF disk[w] = Blank /\ w \in stored THEN cold \cup {w} ELSE cold
  /\ UNCHANGED <<disk, archive, signed, acked, stored, bounds>>

Vanish(w) ==
  /\ pc' = [pc EXCEPT ![w] = "down"]
  /\ mem' = [mem EXCEPT ![w] = Blank]
  /\ durable' = [durable EXCEPT ![w] = FALSE]

(* The process ends between two steps, at any point of a call.             *)
Crash(w) ==
  /\ Live(w)
  /\ crashes < MaxCrashes
  /\ crashes' = crashes + 1
  /\ Vanish(w)
  /\ UNCHANGED <<disk, archive, history, faults, losses>>

(* A stopped wallet is of no use but to be discarded and opened again.     *)
Discard(w) ==
  /\ pc[w] = "stopped"
  /\ Vanish(w)
  /\ UNCHANGED <<disk, archive, history, bounds>>

LoseSnapshot(w) ==
  /\ disk[w] # Blank
  /\ losses < MaxLosses
  /\ losses' = losses + 1
  /\ disk' = [disk EXCEPT ![w] = Blank]
  /\ UNCHANGED <<pc, mem, durable, archive, history, faults, crashes>>

-----------------------------------------------------------------------------
(* Calls.  A rejected call changes nothing and has no step.                *)

Proceed(w, step, j) ==
  /\ pc' = [pc EXCEPT ![w] = step]
  /\ mem' = [mem EXCEPT ![w] = j]
  /\ UNCHANGED <<disk, durable, archive, history, bounds>>

(* A receipt reports the totals of every event of the journal.             *)
Acknowledge(w, j) == acked' = [acked EXCEPT ![w] = @ \cup j.events]

AnswerAlreadyCommitted(w) ==
  /\ Acknowledge(w, mem[w])
  /\ UNCHANGED <<pc, mem, disk, durable, archive, signed, stored, cold, bounds>>

Initialize(w) ==
  /\ pc[w] = "idle"
  /\ Holder[Root] = w
  /\ \/ mem[w] = Blank /\ Proceed(w, "reserve", GenesisJournal)
     \/ mem[w] # Blank /\ mem[w].events = {} /\ Proceed(w, "reserve", mem[w])
     \/ mem[w].events # {} /\ AnswerAlreadyCommitted(w)

(* record, grantDevice, revokeDevice: an author whose key this application *)
(* holds; only the root author may name a device, and never the root.      *)
Requests(a) ==
  {IntakeBody(k) : k \in Kcal}
    \cup IF a = Root THEN {GrantBody(d) : d \in Device}
                          \cup {RevokeBody(d) : d \in Device}
                     ELSE {}

Request(w, a, op, body) ==
  /\ pc[w] = "idle"
  /\ Holder[a] = w
  /\ \/ /\ AlreadyCommitted(mem[w], a, op, body)
        /\ AnswerAlreadyCommitted(w)
     \/ /\ CanResume(mem[w], a, op, body)
        /\ Proceed(w, "reserve", mem[w])
     \/ \E s \in 1..MaxSeq :
          /\ CanReserve(mem[w], a, s, op, body)
          /\ Proceed(w, "reserve", Reserved(mem[w], a, s, op, body))

ImportTransfer(w) ==
  /\ pc[w] = "idle"
  /\ \E E \in Transfers :
       /\ CanImport(mem[w], E)
       /\ \E c \in [Author -> -1..MaxSeq] :
            /\ IsRaised(mem[w].counters, mem[w].events \cup E, c)
            /\ Proceed(w, "settle", Imported(mem[w], E, c))

RestoreBackup(w) ==
  /\ pc[w] = "idle"
  /\ \E j \in archive :
       /\ CanRestore(mem[w], j)
       /\ Proceed(w, "settle", Merged(mem[w], j))

-----------------------------------------------------------------------------
(* persist and finish.                                                     *)

Saved(w) ==
  /\ disk' = [disk EXCEPT ![w] = mem[w]]
  /\ archive' = archive \cup {mem[w]}
  /\ stored' = stored \cup {w}

(* The signer is called before anything is saved. *)
FaultySaveReservation(w) ==
  /\ pc[w] = "reserve"
  /\ pc' = [pc EXCEPT ![w] = "sign"]
  /\ UNCHANGED <<mem, disk, durable, archive, history, bounds>>

SaveReservation(w) ==
  /\ pc[w] = "reserve"
  /\ Saved(w)
  /\ pc' = [pc EXCEPT ![w] = "sign"]
  /\ durable' = [durable EXCEPT ![w] = TRUE]
  /\ UNCHANGED <<mem, signed, acked, cold, bounds>>

(* The second save of a call; its acknowledgement releases the receipt.    *)
SaveAndAcknowledge(w) ==
  /\ pc[w] = "settle"
  /\ Saved(w)
  /\ Acknowledge(w, mem[w])
  /\ pc' = [pc EXCEPT ![w] = "idle"]
  /\ durable' = [durable EXCEPT ![w] = TRUE]
  /\ UNCHANGED <<mem, signed, cold, bounds>>

(* The journal in memory is kept. *)
FaultyReloadKeeps(w, d, readable) ==
  /\ pc' = [pc EXCEPT ![w] = "idle"]
  /\ UNCHANGED <<mem, durable>>

(* What the actor holds after a failed save, from the snapshot d now       *)
(* stored and whether the storage could be read.                           *)
Reload(w, d, readable) ==
  LET restored == readable /\ d # Blank /\ CanRestore(Blank, d)
      fresh    == readable /\ d = Blank /\ ~durable[w]
  IN /\ pc' = [pc EXCEPT ![w] = IF restored \/ fresh THEN "idle"
                                                     ELSE "stopped"]
     /\ mem' = [mem EXCEPT ![w] = IF restored THEN Merged(Blank, d)
                                              ELSE Blank]
     /\ durable' = [durable EXCEPT ![w] = @ \/ restored]

(* saveSnapshotB64 throws: the snapshot may have been replaced or not, and *)
(* the wallet reads the storage again before it goes on.                   *)
SaveFails(w) ==
  /\ pc[w] \in {"reserve", "settle"}
  /\ faults < MaxFaults
  /\ faults' = faults + 1
  /\ \/ Saved(w)
     \/ UNCHANGED <<disk, archive, stored>>
  /\ \E readable \in BOOLEAN : Reload(w, disk'[w], readable)
  /\ UNCHANGED <<signed, acked, cold, crashes, losses>>

Sign(w) ==
  /\ pc[w] = "sign"
  /\ signed' = signed \cup mem[w].pending
  /\ pc' = [pc EXCEPT ![w] = "commit"]
  /\ UNCHANGED <<mem, disk, durable, archive, acked, stored, cold, bounds>>

(* The reservation is dropped when the signer throws. *)
FaultySignerFails(w) ==
  /\ pc[w] = "sign"
  /\ faults < MaxFaults
  /\ faults' = faults + 1
  /\ signed' \in {signed, signed \cup mem[w].pending}
  /\ pc' = [pc EXCEPT ![w] = "idle"]
  /\ mem' = [mem EXCEPT ![w].pending = {}]
  /\ UNCHANGED <<disk, durable, archive, acked, stored, cold, crashes, losses>>

(* The signer throws, or returns bytes that do not verify and are rejected *)
(* by commitSignature.  A good signature may have escaped it all the same. *)
SignerFails(w) ==
  /\ pc[w] = "sign"
  /\ faults < MaxFaults
  /\ faults' = faults + 1
  /\ signed' \in {signed, signed \cup mem[w].pending}
  /\ pc' = [pc EXCEPT ![w] = "idle"]
  /\ UNCHANGED <<mem, disk, durable, archive, acked, stored, cold,
                 crashes, losses>>

CommitSignature(w) ==
  /\ pc[w] = "commit"
  /\ IF CanCommit(mem[w])
       THEN Proceed(w, "settle", Committed(mem[w]))
       ELSE Proceed(w, "idle", mem[w])

-----------------------------------------------------------------------------
Next ==
  \E w \in Wallet :
    \/ Open(w)
    \/ Crash(w)
    \/ Discard(w)
    \/ LoseSnapshot(w)
    \/ Initialize(w)
    \/ \E a \in Author, op \in Op : \E body \in Requests(a) :
         Request(w, a, op, body)
    \/ ImportTransfer(w)
    \/ RestoreBackup(w)
    \/ SaveReservation(w)
    \/ SaveAndAcknowledge(w)
    \/ SaveFails(w)
    \/ Sign(w)
    \/ SignerFails(w)
    \/ CommitSignature(w)

Spec == Init /\ [][Next]_vars

-----------------------------------------------------------------------------
(* What the wallets promise.  "cold" wallets are the documented exception: *)
(* a wallet opened on an empty storage after its snapshot was lost cannot  *)
(* know which sequence numbers it has signed (signed_food_v1.md, Recovery).*)

(* A sequence number of a key is never signed with two different payloads, *)
(* whatever crashes, failed saves, merges and old backups lie in between   *)
(* (prepare, persist, restore_snapshot).                                   *)
NoEquivocation ==
  \A p, q \in signed :
    SameSlot(p, q) /\ Holder[p.ak] \notin cold => p = q

(* A signature is only ever asked for bytes the stored snapshot holds, and *)
(* the snapshot never loses them again (finish saves before it signs).     *)
WriteAhead ==
  \A p \in signed :
    LET w == Holder[p.ak]
    IN  w \in cold \/ disk[w] = Blank
          \/ p \in disk[w].events \cup disk[w].pending

(* Whatever a receipt reported is in the stored snapshot from then on; the *)
(* receipts of AlreadyCommitted answers, which save nothing, included.     *)
ReceiptsDurable ==
  \A w \in Wallet \ cold :
    disk[w] # Blank => acked[w] \subseteq disk[w].events

(* Every snapshot that was ever stored can be restored by a new process:   *)
(* nothing a journal may do leads to a file validate_state refuses.        *)
SnapshotsRestorable == \A j \in archive : CanRestore(Blank, j)

(* A reservation can always be committed once it is signed: no call leaves *)
(* a pending payload the journal would refuse, which would block the       *)
(* wallet for good as reservations cannot be cancelled.                    *)
PendingCommittable ==
  \A w \in Wallet : mem[w].pending # {} => CanCommit(mem[w])

(* A stored snapshot is replaced by one that knows all its events, holds   *)
(* its reservation or the event made of it, and has no smaller counter     *)
(* (restore_snapshot, import_transfer, persist).                           *)
NeverForgets(j, k) ==
  /\ j.events \subseteq k.events
  /\ j.pending \subseteq k.pending \cup k.events
  /\ \A a \in Author : j.counters[a] <= k.counters[a]
DurableNeverForgets ==
  [][\A w \in Wallet : disk'[w] # Blank => NeverForgets(disk[w], disk'[w])]_vars

(* A journal that began as a public import never becomes a writer, even by *)
(* restoring the snapshot of one (restore_snapshot, read_only).            *)
ReadOnlyStays ==
  [][\A w \in Wallet :
       disk[w].readOnly /\ disk'[w] # Blank => disk'[w].readOnly]_vars

-----------------------------------------------------------------------------
(* The inductive invariant behind the promises.  What a wallet vouches for *)
(* is its stored snapshot, or its journal after the snapshot was lost.     *)
Kept(j) == j.events \cup j.pending
View(w) == IF disk[w] # Blank THEN disk[w] ELSE mem[w]
Trusted(w) == w \notin cold /\ (disk[w] # Blank \/ Live(w))
KeptByHolder(p) == Trusted(Holder[p.ak]) => p \in Kept(View(Holder[p.ak]))

Sound(j) ==
  /\ j.events \subseteq signed
  /\ \A p \in Kept(j) : p.seq <= j.counters[p.ak]
  /\ j.events = {} => j.pending \subseteq {GenesisPayload}

OneSlotEach(w, j) ==
  \A p, q \in Kept(j) : Holder[p.ak] = w /\ SameSlot(p, q) => p = q

(* Everything in circulation is sound, and known to its author's wallet.   *)
ArchiveInv ==
  \A j \in archive :
    /\ j # Blank
    /\ Sound(j)
    /\ \A p \in j.pending : KeptByHolder(p)

JournalInv ==
  \A w \in Wallet :
    /\ Sound(mem[w])
    /\ \A p \in mem[w].pending :
         KeptByHolder(p) \/ (Holder[p.ak] = w /\ pc[w] = "reserve")
    /\ w \notin cold => OneSlotEach(w, mem[w]) /\ OneSlotEach(w, disk[w])

(* How the journal of a running wallet relates to its stored snapshot.     *)
ControlInv ==
  \A w \in Wallet :
    /\ disk[w] # Blank => disk[w] \in archive /\ w \in stored
    /\ ~Live(w) => mem[w] = Blank
    /\ Live(w) /\ disk[w] # Blank => NeverForgets(disk[w], mem[w])
    /\ pc[w] \in {"idle", "sign", "commit"} => disk[w] \in {mem[w], Blank}
    /\ pc[w] \in {"reserve", "sign", "commit", "settle"} => mem[w] # Blank
    /\ pc[w] \in {"reserve", "sign", "commit"} =>
         \A p \in mem[w].pending : Holder[p.ak] = w
    /\ pc[w] \in {"idle", "sign", "commit"} /\ mem[w] # Blank => w \in stored
    /\ pc[w] = "commit" => mem[w].pending \subseteq signed

(* A wallet that never stored a snapshot has left no trace.                *)
FreshInv ==
  \A w \in Wallet :
    /\ Live(w) /\ w \notin cold /\ ~durable[w] => w \notin stored
    /\ w \notin stored =>
         /\ acked[w] = {}
         /\ \A p \in signed : Holder[p.ak] # w
         /\ \A j \in archive : \A p \in j.pending : Holder[p.ak] # w
         /\ \A v \in Wallet \ {w} : \A p \in mem[v].pending : Holder[p.ak] # w

HistoryInv ==
  /\ \A p \in signed : KeptByHolder(p)
  /\ \A w \in Wallet : Trusted(w) => acked[w] \subseteq View(w).events
  /\ NoEquivocation

IInv == TypeOK /\ ArchiveInv /\ JournalInv /\ ControlInv /\ FreshInv /\ HistoryInv

-----------------------------------------------------------------------------
(* The wallets of an owner, seen from outside, keep one sequence register: *)
(* what counts as reserved or recorded is what the storage of the wallet   *)
(* that holds the author's key says.                                       *)
Stored == UNION {disk[w].events \cup disk[w].pending : w \in Wallet}
ReservedNow ==
  {p \in Stored :
     p \in disk[Holder[p.ak]].events \cup disk[Holder[p.ak]].pending}
RecordedNow == {p \in Stored : p \in disk[Holder[p.ak]].events}
ReportedNow == UNION {acked[w] : w \in Wallet}

Slot(p) == <<p.ak, p.seq>>

Register == INSTANCE SequenceRegister WITH
  SlotOf <- Slot,
  reserved <- ReservedNow,
  recorded <- RecordedNow,
  reported <- ReportedNow

(* Every step of the wallets is a step of the register or changes nothing  *)
(* it can see; for systems that lose no snapshot.                          *)
ImplementsRegister == Register!Spec

-----------------------------------------------------------------------------
(* Fairness.  A call of the actor runs to its end; the application opens   *)
(* and reopens its wallets and repeats, with identical input, the requests *)
(* its wallets know of.  Faults and crashes are bounded, so storage and    *)
(* signer work from some time on.                                          *)
Repeat(w) ==
  \/ Initialize(w)
  \/ \E p \in mem[w].events \cup mem[w].pending :
       p.op \in Op /\ Request(w, p.ak, p.op, p.body)

Fairness ==
  \A w \in Wallet :
    /\ WF_vars(Open(w))
    /\ WF_vars(Discard(w))
    /\ WF_vars(SaveReservation(w))
    /\ WF_vars(Sign(w))
    /\ WF_vars(CommitSignature(w))
    /\ WF_vars(SaveAndAcknowledge(w))
    /\ SF_vars(Repeat(w))

FairSpec == Spec /\ Fairness

(* A reservation that reached the storage ends as an event a receipt has   *)
(* reported, whatever failed on the way (finish, persist, init).  This     *)
(* needs a signer for every author of the wallet.                          *)
ReservationsSettle ==
  \A w \in Wallet :
    disk[w].pending # {} ~>
      /\ disk[w].pending = {}
      /\ disk[w].events # {}
      /\ disk[w].events \subseteq acked[w]

-----------------------------------------------------------------------------
(* Sentences of the documents the code does not keep.                      *)

(* "An identical retry returns AlreadyCommitted"                           *)
(* (docs/human/sdk/signed-food-ledger.md): the answer to a repeated        *)
(* request whose receipt is out.                                           *)
RepeatIsAnswered ==
  \A w \in Wallet \ cold : pc[w] = "idle" /\ disk[w] # Blank =>
    \A p \in acked[w] : Holder[p.ak] = w /\ p.op \in Op =>
      AlreadyCommitted(mem[w], p.ak, p.op, p.body)

(* "Limits: at most 4096 events" (signed_food_v1.md): a transfer some      *)
(* wallet exported can be imported by a fresh wallet.                      *)
ExportsImportable ==
  \A E \in Transfers : CanImport(Blank, E)

=============================================================================
