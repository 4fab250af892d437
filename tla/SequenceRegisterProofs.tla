---------------------- MODULE SequenceRegisterProofs ----------------------
(***************************************************************************)
(* The wallets of SignedFoodWallet implement the register of               *)
(* SequenceRegister, for any keys, wallets, operations and bounds, as long *)
(* as no stored snapshot is deleted from outside (MaxLosses = 0).          *)
(***************************************************************************)
EXTENDS SignedFoodWalletProofs

-----------------------------------------------------------------------------
(* The invariant, added to IInv.                                           *)

(* A wallet that ever stored a snapshot has one. *)
Unlost ==
  /\ losses = 0 /\ cold = {}
  /\ \A w \in stored : disk[w] # Blank

(* A journal has at most one reservation. *)
AtMostOne(P) == \A p, q \in P : p = q
OneReservation ==
  /\ \A j \in archive : AtMostOne(j.pending)
  /\ \A w \in Wallet : AtMostOne(mem[w].pending)

(* An event anywhere but in the wallet that has just committed it is an    *)
(* event of its author's stored snapshot.  A call that reserves has seen   *)
(* no new event, and what a merge brings in reserves nothing new.          *)
Recorded(p) == p \in disk[Holder[p.ak]].events
Accounted ==
  /\ \A j \in archive : \A p \in j.events : Recorded(p)
  /\ \A w \in Wallet :
       /\ \A p \in mem[w].events : Holder[p.ak] # w => Recorded(p)
       /\ \A p \in acked[w] : Recorded(p)
       /\ pc[w] = "reserve" => mem[w].events = disk[w].events
       /\ pc[w] = "settle" /\ disk[w] = Blank =>
            \A p \in mem[w].pending : Holder[p.ak] # w

RegInv == IInv /\ Unlost /\ OneReservation /\ Accounted

-----------------------------------------------------------------------------
(* The invariant holds.                                                    *)

(* A wallet between calls, or about to sign or commit, has in memory what  *)
(* its storage holds.                                                      *)
LEMMA UnlostFacts ==
  ASSUME RegInv, NEW w \in Wallet
  PROVE  /\ disk[w] # Blank <=> w \in stored
         /\ pc[w] \in {"idle", "sign", "commit"} => mem[w] = disk[w]
         /\ mem[w] \in Journal /\ disk[w] \in Journal /\ Blank \in Journal
         /\ disk[w] # Blank => disk[w] \in archive
         /\ Blank.events = {} /\ Blank.pending = {}
         /\ w \notin cold
BY InitialJournals DEF RegInv, IInv, TypeOK, ControlInv, Unlost, Blank

(* Events and reservations are payloads, and have a holder.                *)
LEMMA HolderFacts ==
  ASSUME RegInv
  PROVE  /\ \A p \in Payload : Holder[p.ak] \in Wallet
         /\ \A w \in Wallet :
              /\ mem[w].events \subseteq Payload /\ mem[w].pending \subseteq Payload
              /\ disk[w].events \subseteq Payload /\ disk[w].pending \subseteq Payload
              /\ acked[w] \subseteq Payload
         /\ \A j \in archive :
              j \in Journal /\ j.events \subseteq Payload /\ j.pending \subseteq Payload
BY WalletConstants DEF RegInv, IInv, TypeOK, Journal, Payload

(* What is on disk is recorded. *)
LEMMA DiskRecorded ==
  ASSUME RegInv, NEW w \in Wallet
  PROVE  \A p \in disk[w].events : Recorded(p)
<1>1. CASE disk[w] = Blank
  BY <1>1, UnlostFacts
<1>2. CASE disk[w] # Blank
  BY <1>2, UnlostFacts DEF RegInv, Accounted
<1>3. QED
  BY <1>1, <1>2

(* Pattern 1: the journal of w moves on in memory to j.                    *)
LEMMA RegProceed ==
  ASSUME RegInv, NEW w \in Wallet, NEW j \in Journal, NEW step \in Control,
         Proceed(w, step, j), AtMostOne(j.pending),
         \A p \in j.events : Holder[p.ak] # w => Recorded(p),
         step = "reserve" => j.events = disk[w].events,
         step = "settle" /\ disk[w] = Blank =>
           \A p \in j.pending : Holder[p.ak] # w
  PROVE  Unlost' /\ OneReservation' /\ Accounted'
<1>1. /\ UNCHANGED <<disk, archive, acked, stored, cold, losses>>
      /\ pc'[w] = step /\ mem'[w] = j
      /\ \A v \in Wallet \ {w} : pc'[v] = pc[v] /\ mem'[v] = mem[v]
  BY DEF Proceed, history, bounds, RegInv, IInv, TypeOK
<1>2. \A p : Recorded(p)' = Recorded(p)
  BY <1>1 DEF Recorded
<1>3. Unlost'
  BY <1>1 DEF RegInv, Unlost
<1>4. OneReservation'
  BY <1>1 DEF RegInv, OneReservation
<1>5. ASSUME NEW v \in Wallet
      PROVE  /\ \A p \in mem'[v].events : Holder[p.ak] # v => Recorded(p)'
             /\ \A p \in acked'[v] : Recorded(p)'
             /\ pc'[v] = "reserve" => mem'[v].events = disk'[v].events
             /\ pc'[v] = "settle" /\ disk'[v] = Blank =>
                  \A p \in mem'[v].pending : Holder[p.ak] # v
  <2>1. CASE v = w
    BY <1>1, <1>2, <2>1 DEF RegInv, Accounted
  <2>2. CASE v # w
    BY <1>1, <1>2, <2>2 DEF RegInv, Accounted
  <2>3. QED
    BY <2>1, <2>2
<1>6. \A k \in archive' : \A p \in k.events : Recorded(p)'
  BY <1>1, <1>2 DEF RegInv, Accounted
<1>7. QED
  BY <1>3, <1>4, <1>5, <1>6 DEF Accounted

(* Pattern 2: the journal of w is saved.                                   *)
LEMMA RegSaved ==
  ASSUME RegInv, NEW w \in Wallet, NEW step \in {"sign", "idle", "stopped"},
         NEW m \in {mem[w], Blank},
         pc[w] \in {"reserve", "settle"}, Saved(w),
         pc' = [pc EXCEPT ![w] = step], mem' = [mem EXCEPT ![w] = m],
         acked' = acked \/ acked' = [acked EXCEPT ![w] = @ \cup mem[w].events],
         UNCHANGED <<cold, losses>>
  PROVE  Unlost' /\ OneReservation' /\ Accounted'
<1>1. /\ disk'[w] = mem[w] /\ archive' = archive \cup {mem[w]}
      /\ stored' = stored \cup {w}
      /\ pc'[w] = step /\ mem'[w] = m
      /\ \A v \in Wallet \ {w} :
           pc'[v] = pc[v] /\ mem'[v] = mem[v] /\ disk'[v] = disk[v]
  BY DEF Saved, RegInv, IInv, TypeOK
<1>2. Live(w) /\ mem[w] # Blank
  BY DEF Live, RegInv, IInv, ControlInv
<1>3. disk[w].events \subseteq mem[w].events
  <2>1. CASE disk[w] = Blank
    BY <2>1, UnlostFacts
  <2>2. CASE disk[w] # Blank
    BY <1>2, <2>2 DEF RegInv, IInv, ControlInv, NeverForgets
  <2>3. QED
    BY <2>1, <2>2
<1>4. \A p \in Payload : Recorded(p) => Recorded(p)'
  BY <1>1, <1>3, HolderFacts DEF Recorded
<1>5. \A p \in mem[w].events : Recorded(p)'
  <2>1. SUFFICES ASSUME NEW p \in mem[w].events
                 PROVE  Recorded(p)'
    OBVIOUS
  <2>2. p \in Payload
    BY HolderFacts
  <2>3. CASE Holder[p.ak] = w
    BY <1>1, <2>3 DEF Recorded
  <2>4. CASE Holder[p.ak] # w
    BY <1>4, <2>2, <2>4 DEF RegInv, Accounted
  <2>5. QED
    BY <2>3, <2>4
<1>6. Unlost'
  BY <1>1, <1>2 DEF RegInv, Unlost, IInv, TypeOK
<1>7. OneReservation'
  <2>1. AtMostOne(m.pending)
    BY UnlostFacts DEF RegInv, OneReservation, AtMostOne
  <2>2. QED
    BY <1>1, <2>1 DEF RegInv, OneReservation
<1>8. \A k \in archive' : \A p \in k.events : Recorded(p)'
  BY <1>1, <1>4, <1>5, HolderFacts DEF RegInv, Accounted
<1>9. ASSUME NEW v \in Wallet
      PROVE  /\ \A p \in mem'[v].events : Holder[p.ak] # v => Recorded(p)'
             /\ \A p \in acked'[v] : Recorded(p)'
             /\ pc'[v] = "reserve" => mem'[v].events = disk'[v].events
             /\ pc'[v] = "settle" /\ disk'[v] = Blank =>
                  \A p \in mem'[v].pending : Holder[p.ak] # v
  <2>1. \A p \in acked'[v] : p \in acked[v] \/ p \in mem[w].events
    BY DEF RegInv, IInv, TypeOK
  <2>2. \A p \in acked'[v] : Recorded(p)'
    BY <1>4, <1>5, <2>1, HolderFacts DEF RegInv, Accounted
  <2>3. CASE v = w
    BY <1>1, <1>5, <2>2, <2>3, UnlostFacts
  <2>4. CASE v # w
    BY <1>1, <1>4, <2>2, <2>4, HolderFacts DEF RegInv, Accounted
  <2>5. QED
    BY <2>3, <2>4
<1>10. QED
  BY <1>6, <1>7, <1>8, <1>9 DEF Accounted

(* Pattern 3: the journal of w is gone, or is the stored one again.        *)
LEMMA RegRestart ==
  ASSUME RegInv, NEW w \in Wallet, NEW step \in {"down", "idle", "stopped"},
         NEW m \in {disk[w], Blank},
         pc' = [pc EXCEPT ![w] = step], mem' = [mem EXCEPT ![w] = m],
         UNCHANGED <<disk, archive, acked, stored, cold, losses>>
  PROVE  Unlost' /\ OneReservation' /\ Accounted'
<1>1. /\ pc'[w] = step /\ mem'[w] = m
      /\ \A v \in Wallet \ {w} : pc'[v] = pc[v] /\ mem'[v] = mem[v]
  BY DEF RegInv, IInv, TypeOK
<1>2. \A p : Recorded(p)' = Recorded(p)
  BY DEF Recorded
<1>3. Unlost'
  BY DEF RegInv, Unlost
<1>4. AtMostOne(m.pending) /\ \A p \in m.events : Recorded(p)
  <2>1. m = Blank \/ m \in archive
    BY UnlostFacts
  <2>2. QED
    BY <2>1, UnlostFacts DEF RegInv, OneReservation, Accounted, AtMostOne
<1>5. OneReservation'
  BY <1>1, <1>4 DEF RegInv, OneReservation
<1>6. ASSUME NEW v \in Wallet
      PROVE  /\ \A p \in mem'[v].events : Holder[p.ak] # v => Recorded(p)'
             /\ \A p \in acked'[v] : Recorded(p)'
             /\ pc'[v] = "reserve" => mem'[v].events = disk'[v].events
             /\ pc'[v] = "settle" /\ disk'[v] = Blank =>
                  \A p \in mem'[v].pending : Holder[p.ak] # v
  <2>1. CASE v = w
    BY <1>1, <1>2, <1>4, <2>1 DEF RegInv, Accounted
  <2>2. CASE v # w
    BY <1>1, <1>2, <2>2 DEF RegInv, Accounted
  <2>3. QED
    BY <2>1, <2>2
<1>7. \A k \in archive' : \A p \in k.events : Recorded(p)'
  BY <1>2 DEF RegInv, Accounted
<1>8. QED
  BY <1>3, <1>5, <1>6, <1>7 DEF Accounted

(* The calls: initialize, record, grantDevice and revokeDevice reserve.    *)
LEMMA RegReserves ==
  ASSUME RegInv, NEW w \in Wallet,
         \/ Initialize(w)
         \/ \E a \in Author, op \in Op : \E body \in Requests(a) :
              Request(w, a, op, body)
  PROVE  Unlost' /\ OneReservation' /\ Accounted'
<1>1. /\ pc[w] = "idle" /\ mem[w] = disk[w] /\ mem[w] \in Journal
      /\ "reserve" \in Control
  BY UnlostFacts DEF Initialize, Request, Control
<1>2. ASSUME NEW j \in Journal, Proceed(w, "reserve", j),
             AtMostOne(j.pending), j.events = mem[w].events
      PROVE  Unlost' /\ OneReservation' /\ Accounted'
  <2>1. \A p \in j.events : Holder[p.ak] # w => Recorded(p)
    BY <1>2 DEF RegInv, Accounted
  <2>2. QED
    BY <1>1, <1>2, <2>1, RegProceed
<1>3. CASE AnswerAlreadyCommitted(w)
  <2>1. /\ UNCHANGED <<pc, mem, disk, archive, stored, cold, losses>>
        /\ acked' = [acked EXCEPT ![w] = @ \cup mem[w].events]
    BY <1>3 DEF AnswerAlreadyCommitted, Acknowledge, bounds
  <2>2. \A p : Recorded(p)' = Recorded(p)
    BY <2>1 DEF Recorded
  <2>3. \A p \in mem[w].events : Recorded(p)
    BY <1>1, DiskRecorded
  <2>4. \A v \in Wallet : \A p \in acked'[v] : p \in acked[v] \/ p \in mem[w].events
    BY <2>1 DEF RegInv, IInv, TypeOK
  <2>5. Accounted'
    BY <2>1, <2>2, <2>3, <2>4 DEF RegInv, Accounted
  <2>6. QED
    BY <2>1, <2>5 DEF RegInv, Unlost, OneReservation
<1>4. CASE Proceed(w, "reserve", mem[w])
  BY <1>1, <1>2, <1>4 DEF RegInv, OneReservation
<1>5. CASE mem[w] = Blank /\ Proceed(w, "reserve", GenesisJournal)
  <2>1. /\ GenesisJournal \in Journal /\ GenesisJournal.events = {}
        /\ AtMostOne(GenesisJournal.pending)
    BY InitialJournals DEF GenesisJournal, AtMostOne
  <2>2. QED
    BY <1>2, <1>5, <2>1, UnlostFacts
<1>6. ASSUME NEW a \in Author, NEW op \in Op, NEW body \in Requests(a),
             NEW s \in 1..MaxSeq,
             Proceed(w, "reserve", Reserved(mem[w], a, s, op, body))
      PROVE  Unlost' /\ OneReservation' /\ Accounted'
  <2>1. PICK j : j = Reserved(mem[w], a, s, op, body)
    OBVIOUS
  <2>2. j \in Journal
    BY <1>1, <2>1, RequestTypes, ReservedType
  <2>3. j.events = mem[w].events /\ j.pending = {MakePayload(a, s, op, body)}
    BY <1>1, <2>1 DEF Reserved, Journal
  <2>4. AtMostOne(j.pending)
    BY <2>3 DEF AtMostOne
  <2>5. QED
    BY <1>2, <1>6, <2>1, <2>2, <2>3, <2>4
<1>7. QED
  BY <1>3, <1>4, <1>5, <1>6 DEF Initialize, Request

(* import and restore bring in what is recorded, and no reservation of a   *)
(* wallet that has stored nothing.                                         *)
LEMMA RegMerges ==
  ASSUME RegInv, NEW w \in Wallet, ImportTransfer(w) \/ RestoreBackup(w)
  PROVE  Unlost' /\ OneReservation' /\ Accounted'
<1>1. /\ pc[w] = "idle" /\ mem[w] = disk[w] /\ mem[w] \in Journal
      /\ "settle" \in Control
      /\ \A p \in mem[w].events : Recorded(p)
      /\ AtMostOne(mem[w].pending)
  BY UnlostFacts, DiskRecorded
  DEF ImportTransfer, RestoreBackup, Control, RegInv, OneReservation
<1>2. CASE ImportTransfer(w)
  <2>1. PICK E \in Transfers, c \in [Author -> -1..MaxSeq] :
          Proceed(w, "settle", Imported(mem[w], E, c))
    BY <1>2 DEF ImportTransfer
  <2>2. PICK k \in archive : E = k.events
    BY DEF Transfers
  <2>3. PICK j : j = Imported(mem[w], E, c)
    OBVIOUS
  <2>4. j \in Journal /\ j.events = mem[w].events \cup E /\ j.pending = {}
    BY <1>1, <2>2, <2>3, HolderFacts, ImportedType DEF Imported
  <2>5. \A p \in j.events : Recorded(p)
    BY <1>1, <2>2, <2>4 DEF RegInv, Accounted
  <2>6. AtMostOne(j.pending) /\ \A p \in j.pending : Holder[p.ak] # w
    BY <2>4 DEF AtMostOne
  <2>7. QED
    BY <1>1, <2>1, <2>3, <2>4, <2>5, <2>6, RegProceed
<1>3. CASE RestoreBackup(w)
  <2>1. PICK k \in archive : Proceed(w, "settle", Merged(mem[w], k))
    BY <1>3 DEF RestoreBackup
  <2>2. PICK j : j = Merged(mem[w], k)
    OBVIOUS
  <2>3. k \in Journal /\ j \in Journal
    BY <1>1, <2>2, HolderFacts, MergedType
  <2>4. /\ j.events = k.events \cup mem[w].events
        /\ j.pending \subseteq mem[w].pending \/ j.pending \subseteq k.pending
        /\ j.pending \subseteq mem[w].pending \cup k.pending
    BY <2>2 DEF Merged, MergedEvents, MergedPending
  <2>5. \A p \in j.events : Recorded(p)
    BY <1>1, <2>4 DEF RegInv, Accounted
  <2>6. AtMostOne(j.pending)
    BY <1>1, <2>4 DEF RegInv, OneReservation, AtMostOne
  <2>7. ASSUME disk[w] = Blank, NEW p \in j.pending
        PROVE  Holder[p.ak] # w
    <3>1. w \notin stored /\ mem[w].pending = {}
      BY <1>1, <2>7, UnlostFacts
    <3>2. p \in k.pending
      BY <2>4, <3>1
    <3>3. QED
      BY <3>1, <3>2 DEF RegInv, IInv, FreshInv
  <2>8. QED
    BY <1>1, <2>1, <2>2, <2>3, <2>5, <2>6, <2>7, RegProceed
<1>4. QED
  BY <1>2, <1>3

(* commitSignature, and the signer before it. *)
LEMMA RegCommits ==
  ASSUME RegInv, NEW w \in Wallet,
         CommitSignature(w) \/ Sign(w) \/ SignerFails(w)
  PROVE  Unlost' /\ OneReservation' /\ Accounted'
<1>1. CASE CommitSignature(w)
  <2>1. /\ pc[w] = "commit" /\ mem[w] = disk[w] /\ mem[w] \in Journal
        /\ "settle" \in Control /\ "idle" \in Control
        /\ \A p \in mem[w].events : Recorded(p)
        /\ \A p \in mem[w].pending : Holder[p.ak] = w
        /\ AtMostOne(mem[w].pending)
    BY <1>1, UnlostFacts, DiskRecorded
    DEF CommitSignature, Control, RegInv, OneReservation, IInv, ControlInv
  <2>2. CASE Proceed(w, "settle", Committed(mem[w]))
    <3>1. PICK j : j = Committed(mem[w])
      OBVIOUS
    <3>2. /\ j \in Journal /\ j.pending = {}
          /\ j.events = mem[w].events \cup mem[w].pending
      BY <2>1, <3>1, CommittedType DEF Committed, Journal
    <3>3. /\ \A p \in j.events : Holder[p.ak] # w => Recorded(p)
          /\ AtMostOne(j.pending) /\ \A p \in j.pending : Holder[p.ak] # w
      BY <2>1, <3>2 DEF AtMostOne
    <3>4. QED
      BY <2>1, <2>2, <3>1, <3>2, <3>3, RegProceed
  <2>3. CASE Proceed(w, "idle", mem[w])
    BY <2>1, <2>3, RegProceed
  <2>4. QED
    BY <1>1, <2>2, <2>3 DEF CommitSignature
<1>2. CASE Sign(w) \/ SignerFails(w)
  <2>1. /\ UNCHANGED <<mem, disk, archive, acked, stored, cold, losses>>
        /\ \A v \in Wallet : pc'[v] = pc[v] \/ pc'[v] \in {"idle", "commit"}
    BY <1>2 DEF Sign, SignerFails, bounds, RegInv, IInv, TypeOK
  <2>2. \A p : Recorded(p)' = Recorded(p)
    BY <2>1 DEF Recorded
  <2>3. Accounted'
    BY <2>1, <2>2 DEF RegInv, Accounted
  <2>4. QED
    BY <2>1, <2>3 DEF RegInv, Unlost, OneReservation
<1>3. QED
  BY <1>1, <1>2

(* Saves, and a save that fails. *)
LEMMA RegSaves ==
  ASSUME RegInv, NEW w \in Wallet,
         SaveReservation(w) \/ SaveAndAcknowledge(w) \/ SaveFails(w)
  PROVE  Unlost' /\ OneReservation' /\ Accounted'
<1>1. /\ mem[w] \in Journal /\ disk[w] \in Journal
      /\ mem \in [Wallet -> Journal] /\ disk \in [Wallet -> Journal]
  BY UnlostFacts DEF RegInv, IInv, TypeOK
<1>2. CASE SaveReservation(w) \/ SaveAndAcknowledge(w)
  <2>1. PICK step \in {"sign", "idle"} : pc' = [pc EXCEPT ![w] = step]
    BY <1>2 DEF SaveReservation, SaveAndAcknowledge
  <2>2. mem' = [mem EXCEPT ![w] = mem[w]]
    BY <1>1, <1>2 DEF SaveReservation, SaveAndAcknowledge
  <2>3. /\ pc[w] \in {"reserve", "settle"} /\ Saved(w)
        /\ acked' = acked \/ acked' = [acked EXCEPT ![w] = @ \cup mem[w].events]
        /\ UNCHANGED <<cold, losses>>
    BY <1>2 DEF SaveReservation, SaveAndAcknowledge, Acknowledge, bounds
  <2>4. QED
    BY <2>1, <2>2, <2>3, RegSaved
<1>3. CASE SaveFails(w)
  <2>1. /\ pc[w] \in {"reserve", "settle"}
        /\ Saved(w) \/ UNCHANGED <<disk, archive, stored>>
        /\ UNCHANGED <<acked, cold, losses>>
    BY <1>3 DEF SaveFails
  <2>2. PICK readable \in BOOLEAN : Reload(w, disk'[w], readable)
    BY <1>3 DEF SaveFails
  <2>3. PICK step \in {"idle", "stopped"} : pc' = [pc EXCEPT ![w] = step]
    BY <2>2 DEF Reload
  <2>4. disk'[w] \in Journal
    BY <1>1, <2>1 DEF Saved
  <2>5. PICK m \in {disk'[w], Blank} : mem' = [mem EXCEPT ![w] = m]
    BY <2>2, <2>4, RestoreOwn DEF Reload
  <2>6. CASE Saved(w)
    <3>1. disk'[w] = mem[w]
      BY <1>1, <2>6 DEF Saved
    <3>2. QED
      BY <2>1, <2>3, <2>5, <2>6, <3>1, RegSaved
  <2>7. CASE UNCHANGED <<disk, archive, stored>>
    BY <2>1, <2>3, <2>5, <2>7, RegRestart
  <2>8. QED
    BY <2>1, <2>6, <2>7
<1>4. QED
  BY <1>2, <1>3

(* A wallet is opened, its process ends, or it is discarded. *)
LEMMA RegRestarts ==
  ASSUME RegInv, NEW w \in Wallet, Open(w) \/ Crash(w) \/ Discard(w)
  PROVE  Unlost' /\ OneReservation' /\ Accounted'
<1>1. CASE Open(w)
  <2>1. disk[w] \in Journal /\ (disk[w] # Blank <=> w \in stored)
    BY UnlostFacts
  <2>2. /\ pc' = [pc EXCEPT ![w] = "idle"]
        /\ mem' = [mem EXCEPT ![w] = disk[w]]
    BY <1>1, <2>1, RestoreOwn DEF Open
  <2>3. UNCHANGED <<disk, archive, acked, stored, cold, losses>>
    BY <1>1, <2>1 DEF Open, bounds
  <2>4. QED
    BY <2>2, <2>3, RegRestart
<1>2. CASE Crash(w) \/ Discard(w)
  <2>1. /\ pc' = [pc EXCEPT ![w] = "down"] /\ mem' = [mem EXCEPT ![w] = Blank]
        /\ UNCHANGED <<disk, archive, acked, stored, cold, losses>>
    BY <1>2 DEF Crash, Discard, Vanish, history, bounds
  <2>2. QED
    BY <2>1, RegRestart
<1>3. QED
  BY <1>1, <1>2

(* Each action keeps the invariant; nothing deletes a snapshot.            *)
LEMMA RegInvStep ==
  ASSUME MaxLosses = 0
  PROVE  RegInv /\ [Next]_vars => RegInv'
<1> SUFFICES ASSUME RegInv, [Next]_vars
             PROVE  RegInv'
  OBVIOUS
<1>1. IInv'
  BY InvStep DEF RegInv
<1>2. CASE UNCHANGED vars
  <2>1. UNCHANGED <<pc, mem, disk, archive, acked, stored, cold, losses>>
    BY <1>2 DEF vars, history, bounds
  <2>2. \A p : Recorded(p)' = Recorded(p)
    BY <2>1 DEF Recorded
  <2>3. Accounted'
    BY <2>1, <2>2 DEF RegInv, Accounted
  <2>4. QED
    BY <1>1, <2>1, <2>3 DEF RegInv, Unlost, OneReservation
<1>3. ASSUME NEW w \in Wallet, LoseSnapshot(w)
      PROVE  FALSE
  BY <1>3 DEF LoseSnapshot, RegInv, Unlost
<1>4. QED
  BY <1>1, <1>2, <1>3, RegReserves, RegMerges, RegCommits, RegSaves,
     RegRestarts DEF Next, RegInv

LEMMA RegInvInit == Init => RegInv
<1> SUFFICES ASSUME Init
             PROVE  RegInv
  OBVIOUS
<1>1. IInv
  BY InvInit
<1>2. \A w \in Wallet : pc[w] = "down" /\ mem[w] = Blank /\ acked[w] = {}
  BY DEF Init
<1>3. Blank.events = {} /\ Blank.pending = {}
  BY DEF Blank
<1>4. Unlost /\ archive = {}
  BY DEF Init, Unlost
<1>5. QED
  BY <1>1, <1>2, <1>3, <1>4 DEF RegInv, OneReservation, Accounted, AtMostOne

-----------------------------------------------------------------------------
(* The refinement.                                                         *)

(* What the mapping says of one payload.                                   *)
Mapping ==
  /\ ReservedNow = {p \in Payload : p \in Kept(disk[Holder[p.ak]])}
  /\ RecordedNow = {p \in Payload : Recorded(p)}
  /\ ReportedNow = {p \in Payload : \E w \in Wallet : p \in acked[w]}
  /\ RecordedNow \subseteq signed
  /\ ReportedNow \subseteq RecordedNow

LEMMA MappingFacts == RegInv => Mapping
<1> SUFFICES ASSUME RegInv
             PROVE  Mapping
  OBVIOUS
<1>1. Stored = {p \in Payload : \E w \in Wallet : p \in Kept(disk[w])}
  BY HolderFacts DEF Stored, Kept
<1>2. ReservedNow = {p \in Payload : p \in Kept(disk[Holder[p.ak]])}
  BY <1>1, HolderFacts DEF ReservedNow, Kept
<1>3. RecordedNow = {p \in Payload : Recorded(p)}
  BY <1>1, HolderFacts DEF RecordedNow, Recorded, Kept
<1>4. ReportedNow = {p \in Payload : \E w \in Wallet : p \in acked[w]}
  BY HolderFacts DEF ReportedNow
<1>5. RecordedNow \subseteq signed
  <2>1. \A w \in Wallet : disk[w].events \subseteq signed
    BY UnlostFacts DEF RegInv, IInv, ArchiveInv, Sound
  <2>2. QED
    BY <1>3, <2>1, HolderFacts DEF Recorded
<1>6. ReportedNow \subseteq RecordedNow
  BY <1>3, <1>4 DEF RegInv, Accounted
<1>7. QED
  BY <1>2, <1>3, <1>4, <1>5, <1>6 DEF Mapping

LEMMA MappingNext == RegInv' => Mapping'
BY MappingFacts, PTL

(* A step that neither saves nor signs nor reports is not seen.            *)
LEMMA Unseen ==
  ASSUME UNCHANGED <<disk, signed, acked>>
  PROVE  UNCHANGED Register!vars
BY DEF Register!vars, Stored, ReservedNow, RecordedNow, ReportedNow

(* Saving a reservation reserves at most one payload, in a slot of its own *)
(* (persist, before finish calls the signer).                              *)
LEMMA ReservationMaps ==
  ASSUME RegInv, RegInv', NEW w \in Wallet, pc[w] = "reserve", Saved(w),
         UNCHANGED <<signed, acked>>
  PROVE  [Register!Next]_(Register!vars)
<1>1. /\ disk'[w] = mem[w]
      /\ \A v \in Wallet \ {w} : disk'[v] = disk[v]
  BY DEF Saved, RegInv, IInv, TypeOK
<1>2. /\ Live(w) /\ mem[w].events = disk[w].events
      /\ disk[w] # Blank => NeverForgets(disk[w], mem[w])
      /\ \A p \in mem[w].pending : Holder[p.ak] = w
      /\ AtMostOne(mem[w].pending) /\ OneSlotEach(w, mem[w])
  BY UnlostFacts
  DEF Live, RegInv, Accounted, IInv, ControlInv, JournalInv, OneReservation
<1>3. Kept(disk[w]) \subseteq Kept(mem[w])
  BY <1>2, UnlostFacts, NeverForgetsKept DEF Kept
<1>4. \A p \in Payload : Recorded(p)' <=> Recorded(p)
  BY <1>1, <1>2, HolderFacts DEF Recorded
<1>5. RecordedNow' = RecordedNow
  BY <1>4, MappingFacts, MappingNext DEF Mapping
<1>6. ReportedNow' = ReportedNow
  BY DEF ReportedNow
<1>7. /\ ReservedNow = {p \in Payload : p \in Kept(disk[Holder[p.ak]])}
      /\ ReservedNow' = {p \in Payload : p \in Kept(disk'[Holder[p.ak]])}
  BY MappingFacts, MappingNext DEF Mapping, Kept
<1>8. CASE mem[w].pending \subseteq Kept(disk[w])
  <2>1. Kept(mem[w]) = Kept(disk[w])
    BY <1>2, <1>3, <1>8 DEF Kept
  <2>2. \A p \in Payload : Kept(disk'[Holder[p.ak]]) = Kept(disk[Holder[p.ak]])
    BY <1>1, <2>1, HolderFacts
  <2>3. ReservedNow' = ReservedNow
    BY <1>7, <2>2
  <2>4. QED
    BY <1>5, <1>6, <2>3 DEF Register!vars
<1>9. ASSUME NEW n \in mem[w].pending, n \notin Kept(disk[w])
      PROVE  Register!Reserve
  <2>1. n \in Payload /\ Holder[n.ak] = w /\ mem[w].pending = {n}
    BY <1>2, <1>9, HolderFacts DEF AtMostOne
  <2>2. Kept(mem[w]) = Kept(disk[w]) \cup {n}
    BY <1>2, <1>3, <2>1 DEF Kept
  <2>3. ReservedNow' = ReservedNow \cup {n}
    <3>1. \A p \in Payload : p \in ReservedNow' <=> p \in ReservedNow \/ p = n
      BY <1>1, <1>7, <2>1, <2>2, HolderFacts
    <3>2. ReservedNow' \subseteq Payload /\ ReservedNow \subseteq Payload
      BY <1>7
    <3>3. QED
      BY <2>1, <3>1, <3>2
  <2>4. ASSUME NEW q \in ReservedNow
        PROVE  Slot(q) # Slot(n)
    <3>1. SUFFICES ASSUME Slot(q) = Slot(n)
                   PROVE  FALSE
      OBVIOUS
    <3>2. SameSlot(q, n)
      BY <3>1 DEF Slot, SameSlot
    <3>3. q \in Kept(disk[w]) /\ Holder[q.ak] = w
      BY <1>7, <2>1, <3>2 DEF SameSlot
    <3>4. q = n
      BY <1>2, <1>3, <2>2, <3>2, <3>3 DEF OneSlotEach
    <3>5. QED
      BY <1>9, <3>3, <3>4
  <2>5. QED
    BY <1>5, <1>6, <2>3, <2>4 DEF Register!Reserve
<1>10. QED
  BY <1>8, <1>9 DEF Register!Next

(* The second save of a call, and the report of what it saved, are one     *)
(* step of history; it reserves nothing (persist, receipt).                *)
LEMMA HistoryMaps ==
  ASSUME RegInv, RegInv', NEW w \in Wallet, pc[w] = "settle", Saved(w),
         UNCHANGED signed,
         \A v \in Wallet : acked[v] \subseteq acked'[v]
  PROVE  [Register!Next]_(Register!vars)
<1>1. /\ disk'[w] = mem[w]
      /\ \A v \in Wallet \ {w} : disk'[v] = disk[v]
  BY DEF Saved, RegInv, IInv, TypeOK
<1>2. /\ Live(w) /\ w \notin cold /\ Sound(mem[w])
      /\ disk[w] # Blank => NeverForgets(disk[w], mem[w])
  BY UnlostFacts DEF Live, RegInv, IInv, ControlInv, JournalInv
<1>3. /\ Kept(disk[w]) \subseteq Kept(mem[w])
      /\ disk[w].events \subseteq mem[w].events
  <2>1. CASE disk[w] = Blank
    BY <2>1, UnlostFacts DEF Kept
  <2>2. CASE disk[w] # Blank
    BY <1>2, <2>2, NeverForgetsKept DEF NeverForgets
  <2>3. QED
    BY <2>1, <2>2
<1>4. ASSUME NEW p \in Kept(mem[w]), Holder[p.ak] = w
      PROVE  p \in Kept(disk[w])
  <2>1. CASE disk[w] = Blank
    <3>1. w \notin stored
      BY <2>1, UnlostFacts
    <3>2. p \notin signed
      BY <1>4, <3>1 DEF RegInv, IInv, FreshInv
    <3>3. p \notin mem[w].pending
      BY <1>4, <2>1 DEF RegInv, Accounted
    <3>4. QED
      BY <1>2, <1>4, <3>2, <3>3 DEF Sound, Kept
  <2>2. CASE disk[w] # Blank
    <3>1. KeptByHolder(p)
      BY <1>2, <1>4 DEF RegInv, IInv, JournalInv, HistoryInv, Sound, Kept
    <3>2. QED
      BY <1>2, <1>4, <2>2, <3>1 DEF KeptByHolder, Trusted, View
  <2>3. QED
    BY <2>1, <2>2
<1>5. Mapping /\ Mapping'
  BY MappingFacts, MappingNext
<1>6. ReservedNow' = ReservedNow
  <2>1. \A p \in Payload :
          p \in Kept(disk'[Holder[p.ak]]) <=> p \in Kept(disk[Holder[p.ak]])
    BY <1>1, <1>3, <1>4, HolderFacts
  <2>2. /\ ReservedNow = {p \in Payload : p \in Kept(disk[Holder[p.ak]])}
        /\ ReservedNow' = {p \in Payload : p \in Kept(disk'[Holder[p.ak]])}
    BY <1>5 DEF Mapping, Kept
  <2>3. QED
    BY <2>1, <2>2
<1>7. RecordedNow \subseteq RecordedNow'
  <2>1. \A p \in Payload : Recorded(p) => Recorded(p)'
    BY <1>1, <1>3, HolderFacts DEF Recorded
  <2>2. QED
    BY <1>5, <2>1 DEF Mapping
<1>8. ReportedNow \subseteq ReportedNow'
  BY <1>5 DEF Mapping
<1>9. RecordedNow' \subseteq signed /\ ReportedNow' \subseteq RecordedNow'
  BY <1>5 DEF Mapping
<1>10. Register!Record
  BY <1>6, <1>7, <1>8, <1>9 DEF Register!Record
<1>11. QED
  BY <1>10 DEF Register!Next

(* A receipt that is only an answer reports what is recorded.              *)
LEMMA AnswerMaps ==
  ASSUME RegInv, RegInv', NEW w \in Wallet, AnswerAlreadyCommitted(w)
  PROVE  [Register!Next]_(Register!vars)
<1>1. /\ UNCHANGED <<disk, signed>>
      /\ \A v \in Wallet : acked[v] \subseteq acked'[v]
  BY DEF AnswerAlreadyCommitted, Acknowledge, RegInv, IInv, TypeOK
<1>2. Mapping /\ Mapping'
  BY MappingFacts, MappingNext
<1>3. ReservedNow' = ReservedNow /\ RecordedNow' = RecordedNow
  BY <1>1 DEF ReservedNow, RecordedNow, Stored
<1>4. ReportedNow \subseteq ReportedNow' /\ ReportedNow' \subseteq RecordedNow'
      /\ RecordedNow' \subseteq signed
  BY <1>1, <1>2 DEF Mapping
<1>5. QED
  BY <1>1, <1>3, <1>4 DEF Register!Next, Register!Record

(* Only a reservation that was saved is signed (finish).                   *)
LEMMA SignatureMaps ==
  ASSUME RegInv, RegInv', NEW w \in Wallet, Sign(w) \/ SignerFails(w)
  PROVE  [Register!Next]_(Register!vars)
<1>1. /\ UNCHANGED <<disk, acked>> /\ pc[w] = "sign"
      /\ signed' = signed \/ signed' = signed \cup mem[w].pending
  BY DEF Sign, SignerFails
<1>2. UNCHANGED <<ReservedNow, RecordedNow, ReportedNow>>
  BY <1>1 DEF ReservedNow, RecordedNow, ReportedNow, Stored
<1>3. CASE signed' = signed
  BY <1>2, <1>3 DEF Register!vars
<1>4. ASSUME NEW n \in mem[w].pending, signed' = signed \cup mem[w].pending
      PROVE  Register!Sign
  <2>1. mem[w].pending = {n} /\ n \in Payload /\ Holder[n.ak] = w
    BY <1>1, HolderFacts
    DEF RegInv, OneReservation, AtMostOne, IInv, ControlInv
  <2>2. n \in Kept(disk[w])
    BY <1>1, <1>4, UnlostFacts DEF Kept
  <2>3. n \in ReservedNow
    BY <2>1, <2>2, MappingFacts DEF Mapping
  <2>4. signed' = signed \cup {n}
    BY <1>4, <2>1
  <2>5. QED
    BY <1>2, <2>3, <2>4 DEF Register!Sign
<1>5. CASE mem[w].pending = {}
  BY <1>1, <1>2, <1>5 DEF Register!vars
<1>6. QED
  BY <1>1, <1>3, <1>4, <1>5 DEF Register!Next

LEMMA StepMaps ==
  ASSUME MaxLosses = 0
  PROVE  RegInv /\ RegInv' /\ [Next]_vars => [Register!Next]_(Register!vars)
<1> SUFFICES ASSUME RegInv, RegInv', [Next]_vars
             PROVE  [Register!Next]_(Register!vars)
  OBVIOUS
<1>1. ASSUME UNCHANGED <<disk, signed, acked>>
      PROVE  [Register!Next]_(Register!vars)
  BY <1>1, Unseen
<1>2. CASE UNCHANGED vars
  BY <1>1, <1>2 DEF vars, history
<1>3. ASSUME NEW w \in Wallet,
             Open(w) \/ Crash(w) \/ Discard(w) \/ ImportTransfer(w)
               \/ RestoreBackup(w) \/ CommitSignature(w)
      PROVE  [Register!Next]_(Register!vars)
  BY <1>1, <1>3 DEF Open, Crash, Discard, Vanish, ImportTransfer,
     RestoreBackup, CommitSignature, Proceed, history
<1>4. ASSUME NEW w \in Wallet, LoseSnapshot(w)
      PROVE  FALSE
  BY <1>4 DEF LoseSnapshot, RegInv, Unlost
<1>5. ASSUME NEW w \in Wallet,
             \/ Initialize(w)
             \/ \E a \in Author, op \in Op : \E body \in Requests(a) :
                  Request(w, a, op, body)
      PROVE  [Register!Next]_(Register!vars)
  <2>1. AnswerAlreadyCommitted(w) \/ UNCHANGED <<disk, signed, acked>>
    BY <1>5 DEF Initialize, Request, Proceed, history
  <2>2. QED
    BY <1>1, <2>1, AnswerMaps
<1>6. ASSUME NEW w \in Wallet, SaveReservation(w)
      PROVE  [Register!Next]_(Register!vars)
  BY <1>6, ReservationMaps DEF SaveReservation
<1>7. ASSUME NEW w \in Wallet, SaveAndAcknowledge(w)
      PROVE  [Register!Next]_(Register!vars)
  <2>1. \A v \in Wallet : acked[v] \subseteq acked'[v]
    BY <1>7 DEF SaveAndAcknowledge, Acknowledge, RegInv, IInv, TypeOK
  <2>2. QED
    BY <1>7, <2>1, HistoryMaps DEF SaveAndAcknowledge
<1>8. ASSUME NEW w \in Wallet, SaveFails(w)
      PROVE  [Register!Next]_(Register!vars)
  <2>1. /\ pc[w] \in {"reserve", "settle"} /\ UNCHANGED <<signed, acked>>
        /\ Saved(w) \/ UNCHANGED disk
    BY <1>8 DEF SaveFails
  <2>2. QED
    BY <1>1, <2>1, ReservationMaps, HistoryMaps
<1>9. ASSUME NEW w \in Wallet, Sign(w) \/ SignerFails(w)
      PROVE  [Register!Next]_(Register!vars)
  BY <1>9, SignatureMaps
<1>10. QED
  BY <1>2, <1>3, <1>4, <1>5, <1>6, <1>7, <1>8, <1>9 DEF Next

LEMMA InitMaps == Init => Register!Init
<1> SUFFICES ASSUME Init
             PROVE  Register!Init
  OBVIOUS
<1>1. /\ \A w \in Wallet : disk[w] = Blank /\ acked[w] = {}
      /\ signed = {} /\ Blank.events = {} /\ Blank.pending = {}
  BY DEF Init, Blank
<1>2. Stored = {} /\ ReportedNow = {}
  BY <1>1 DEF Stored, ReportedNow
<1>3. QED
  BY <1>1, <1>2 DEF Register!Init, ReservedNow, RecordedNow

(* As long as no stored snapshot is deleted from outside, every wallet     *)
(* keeps what storage, merges and receipts need beside IInv.               *)
THEOREM RegisterInvariant ==
  ASSUME MaxLosses = 0
  PROVE  Spec => []RegInv
<1>1. Init => RegInv
  BY RegInvInit
<1>2. RegInv /\ [Next]_vars => RegInv'
  BY RegInvStep
<1>3. QED
  BY <1>1, <1>2, PTL DEF Spec

(* The wallets of an owner are one sequence register, whatever crashes,    *)
(* failed saves, merges and old backups lie between the steps of a call    *)
(* (persist, finish, restore_snapshot): each payload is reserved in a slot *)
(* of its own before it is signed, and recorded before it is reported.     *)
THEOREM WalletsImplementRegister ==
  ASSUME MaxLosses = 0
  PROVE  Spec => ImplementsRegister
<1>1. Init => Register!Init
  BY InitMaps
<1>2. RegInv /\ RegInv' /\ [Next]_vars => [Register!Next]_(Register!vars)
  BY StepMaps
<1>3. Spec => []RegInv
  BY RegisterInvariant
<1>4. QED
  BY <1>1, <1>2, <1>3, PTL DEF Spec, ImplementsRegister, Register!Spec

-----------------------------------------------------------------------------
(* What the register promises, and with it the wallets.                    *)

(* A step of the register keeps its history in order.                      *)
LEMMA RegisterStep ==
  Register!InOrder /\ [Register!Next]_(Register!vars) => Register!InOrder'
<1> SUFFICES ASSUME Register!InOrder, [Register!Next]_(Register!vars)
             PROVE  Register!InOrder'
  OBVIOUS
<1>1. CASE UNCHANGED Register!vars
  BY <1>1 DEF Register!vars, Register!InOrder, Slot
<1>2. CASE Register!Reserve
  <2>1. PICK p \in ReservedNow' :
          /\ \A q \in ReservedNow : Slot(q) # Slot(p)
          /\ ReservedNow' = ReservedNow \cup {p}
    BY <1>2 DEF Register!Reserve
  <2>2. UNCHANGED <<signed, RecordedNow, ReportedNow>>
    BY <1>2 DEF Register!Reserve
  <2>3. QED
    BY <2>1, <2>2 DEF Register!InOrder, Slot
<1>3. CASE Register!Sign
  BY <1>3 DEF Register!Sign, Register!InOrder, Slot
<1>4. CASE Register!Record
  BY <1>4 DEF Register!Record, Register!InOrder, Slot
<1>5. QED
  BY <1>1, <1>2, <1>3, <1>4 DEF Register!Next

(* The register keeps its history in order.                                *)
THEOREM RegisterIsInOrder == Register!Spec => []Register!InOrder
<1>1. Register!Init => Register!InOrder
  BY DEF Register!Init, Register!InOrder
<1>2. QED
  BY <1>1, RegisterStep, PTL DEF Register!Spec

(* So do the wallets: what a receipt has reported is in the stored history *)
(* of its author's wallet, was signed, and took a sequence number that no  *)
(* other payload takes (record, persist, finish, receipt).                 *)
THEOREM WalletsAreInOrder ==
  ASSUME MaxLosses = 0
  PROVE  Spec => []Register!InOrder
BY WalletsImplementRegister, RegisterIsInOrder, PTL DEF ImplementsRegister

(* And no crash, failed save, merge or old backup takes anything of it     *)
(* back (persist, restore_snapshot, import_transfer).                      *)
THEOREM WalletsTakeNothingBack ==
  ASSUME MaxLosses = 0
  PROVE  Spec => Register!OnlyGrows
<1>1. [Register!Next]_(Register!vars)
        => [/\ ReservedNow \subseteq ReservedNow'
            /\ signed \subseteq signed'
            /\ RecordedNow \subseteq RecordedNow'
            /\ ReportedNow \subseteq ReportedNow']_(Register!vars)
  BY DEF Register!Next, Register!Reserve, Register!Sign, Register!Record
<1>2. QED
  BY <1>1, WalletsImplementRegister, PTL
  DEF ImplementsRegister, Register!Spec, Register!OnlyGrows

=============================================================================
