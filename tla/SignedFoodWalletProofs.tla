----------------------- MODULE SignedFoodWalletProofs ---------------------
(***************************************************************************)
(* Theorems about SignedFoodWallet, for any keys, wallets, operations and  *)
(* bounds.  First what the journal operations return, then type            *)
(* correctness, then the inductive invariant IInv and what follows from    *)
(* it.  Those promises rest on the order of the effects and on the merge   *)
(* rules, whatever Verified and Evaluates accept.  Last what a journal     *)
(* holds: it can be restored and committed, what the reducer counts in it, *)
(* and how far the loss of a snapshot reaches.                             *)
(***************************************************************************)
EXTENDS SignedFoodWallet, FiniteSetTheorems, TLAPS

-----------------------------------------------------------------------------
(* The journal operations stay inside Journal.                             *)

(* The genesis payload and every payload prepare builds are payloads.      *)
LEMMA PayloadTypes ==
  /\ GenesisPayload \in Payload
  /\ \A a \in Author, s \in 0..MaxSeq, op \in Op, body \in Body :
       MakePayload(a, s, op, body) \in Payload
BY LedgerConstants DEF GenesisPayload, MakePayload, Payload, GenesisBody,
   Body, Kind

(* Every request body is a typed body.                                     *)
LEMMA RequestTypes == \A a \in Author : Requests(a) \subseteq Body
BY LedgerConstants DEF Requests, IntakeBody, GrantBody, RevokeBody, Body,
   Kind, Device

(* None and the genesis reservation of initialize are journals.            *)
LEMMA InitialJournals == Blank \in Journal /\ GenesisJournal \in Journal
BY LedgerConstants, PayloadTypes DEF Blank, GenesisJournal, Journal

(* restore_snapshot merges two journals into a journal.                    *)
LEMMA MergedType ==
  ASSUME NEW cur \in Journal, NEW in \in Journal
  PROVE  Merged(cur, in) \in Journal
BY LedgerConstants DEF Merged, MergedEvents, MergedPending, MergedCounters, MergedReadOnly,
   Journal, LargerOf

(* A reservation leaves a journal.                                         *)
LEMMA ReservedType ==
  ASSUME NEW j \in Journal, NEW a \in Author, NEW s \in 1..MaxSeq,
         NEW op \in Op, NEW body \in Body
  PROVE  Reserved(j, a, s, op, body) \in Journal
<1>1. MakePayload(a, s, op, body) \in Payload
  BY LedgerConstants, PayloadTypes
<1>2. [j.counters EXCEPT ![a] = s] \in [Author -> -1..MaxSeq]
  BY LedgerConstants DEF Journal
<1>3. DEFINE c == [j.counters EXCEPT ![a] = s]
<1>4. Reserved(j, a, s, op, body) =
        [j EXCEPT !.counters = c, !.pending = {MakePayload(a, s, op, body)}]
  BY DEF Reserved
<1>5. QED
  <2>1. c \in [Author -> -1..MaxSeq]
    BY <1>2
  <2>2. HIDE DEF c
  <2>3. QED
    BY <1>1, <1>4, <2>1 DEF Journal

(* commit_signature and import_transfer leave a journal.                   *)
LEMMA CommittedType ==
  ASSUME NEW j \in Journal PROVE Committed(j) \in Journal
BY DEF Committed, Journal

LEMMA ImportedType ==
  ASSUME NEW j \in Journal, NEW E \in SUBSET Payload,
         NEW c \in [Author -> -1..MaxSeq]
  PROVE  Imported(j, E, c) \in Journal
BY DEF Imported, Journal

-----------------------------------------------------------------------------
(* Type correctness: no step leaves the types of the variables.            *)
LEMMA TypeInit == Init => TypeOK
BY InitialJournals, WalletConstants DEF Init, TypeOK, Control

LEMMA TypeStep == TypeOK /\ [Next]_vars => TypeOK'
<1> SUFFICES ASSUME TypeOK, [Next]_vars PROVE TypeOK'
  OBVIOUS
<1> USE InitialJournals, LedgerConstants, WalletConstants DEF TypeOK, Control
<1>1. CASE UNCHANGED vars
  BY <1>1 DEF vars, history, bounds
<1>2. ASSUME NEW w \in Wallet, Open(w) PROVE TypeOK'
  BY <1>2, MergedType DEF Open, bounds
<1>3. ASSUME NEW w \in Wallet, Crash(w) PROVE TypeOK'
  BY <1>3 DEF Crash, Vanish, history
<1>4. ASSUME NEW w \in Wallet, Discard(w) PROVE TypeOK'
  BY <1>4 DEF Discard, Vanish, history, bounds
<1>5. ASSUME NEW w \in Wallet, LoseSnapshot(w) PROVE TypeOK'
  BY <1>5 DEF LoseSnapshot, history
<1>6. ASSUME NEW w \in Wallet, NEW step \in Control, NEW j \in Journal,
             Proceed(w, step, j)
      PROVE TypeOK'
  BY <1>6 DEF Proceed, history, bounds
<1>7. ASSUME NEW w \in Wallet, AnswerAlreadyCommitted(w) PROVE TypeOK'
  <2>1. mem[w].events \subseteq Payload
    BY DEF Journal
  <2>2. QED
    BY <1>7, <2>1 DEF AnswerAlreadyCommitted, Acknowledge, bounds
<1>8. ASSUME NEW w \in Wallet, Initialize(w) PROVE TypeOK'
  BY <1>6, <1>7, <1>8 DEF Initialize
<1>9. ASSUME NEW w \in Wallet, NEW a \in Author, NEW op \in Op,
             NEW body \in Requests(a), Request(w, a, op, body)
      PROVE TypeOK'
  <2>1. body \in Body
    BY RequestTypes
  <2>2. ASSUME NEW s \in 1..MaxSeq,
               Proceed(w, "reserve", Reserved(mem[w], a, s, op, body))
        PROVE TypeOK'
    BY <1>6, <2>1, <2>2, ReservedType
  <2>3. QED
    BY <1>6, <1>7, <1>9, <2>2 DEF Request
<1>10. ASSUME NEW w \in Wallet, ImportTransfer(w) PROVE TypeOK'
  <2>1. PICK E \in Transfers, c \in [Author -> -1..MaxSeq] :
          Proceed(w, "settle", Imported(mem[w], E, c))
    BY <1>10 DEF ImportTransfer
  <2>2. E \in SUBSET Payload
    BY DEF Transfers, Journal
  <2>3. QED
    BY <1>6, <2>1, <2>2, ImportedType
<1>11. ASSUME NEW w \in Wallet, RestoreBackup(w) PROVE TypeOK'
  BY <1>6, <1>11, MergedType DEF RestoreBackup
<1>12. ASSUME NEW w \in Wallet, SaveReservation(w) PROVE TypeOK'
  BY <1>12 DEF SaveReservation, Saved, bounds
<1>13. ASSUME NEW w \in Wallet, SaveAndAcknowledge(w) PROVE TypeOK'
  <2>1. mem[w].events \subseteq Payload
    BY DEF Journal
  <2>2. QED
    BY <1>13, <2>1 DEF SaveAndAcknowledge, Saved, Acknowledge, bounds
<1>14. ASSUME NEW w \in Wallet, SaveFails(w) PROVE TypeOK'
  <2>1. disk' \in [Wallet -> Journal] /\ archive' \subseteq Journal
        /\ stored' \subseteq Wallet
    BY <1>14 DEF SaveFails, Saved
  <2>2. Merged(Blank, disk'[w]) \in Journal
    BY <2>1, MergedType
  <2>3. PICK readable \in BOOLEAN : Reload(w, disk'[w], readable)
    BY <1>14 DEF SaveFails
  <2>4. pc' \in [Wallet -> Control] /\ mem' \in [Wallet -> Journal]
        /\ durable' \in [Wallet -> BOOLEAN]
    BY <2>1, <2>2, <2>3 DEF Reload
  <2>5. QED
    BY <1>14, <2>1, <2>4 DEF SaveFails
<1>15. ASSUME NEW w \in Wallet, Sign(w) PROVE TypeOK'
  BY <1>15 DEF Sign, bounds, Journal
<1>16. ASSUME NEW w \in Wallet, SignerFails(w) PROVE TypeOK'
  BY <1>16 DEF SignerFails, Journal
<1>17. ASSUME NEW w \in Wallet, CommitSignature(w) PROVE TypeOK'
  BY <1>6, <1>17, CommittedType DEF CommitSignature
<1>18. QED
  BY <1>1, <1>2, <1>3, <1>4, <1>5, <1>8, <1>9, <1>10, <1>11, <1>12, <1>13,
     <1>14, <1>15, <1>16, <1>17 DEF Next

(* The variables keep their types in every behavior of the wallets.        *)
THEOREM TypeCorrect == Spec => []TypeOK
BY TypeInit, TypeStep, PTL DEF Spec

-----------------------------------------------------------------------------
(* What the journal operations keep.                                       *)

(* NeverForgets is a preorder on journals.                                 *)
LEMMA NeverForgetsRefl ==
  ASSUME NEW j \in Journal PROVE NeverForgets(j, j)
BY LedgerConstants DEF NeverForgets, Journal

LEMMA NeverForgetsTrans ==
  ASSUME NEW i \in Journal, NEW j \in Journal, NEW k \in Journal,
         NeverForgets(i, j), NeverForgets(j, k)
  PROVE  NeverForgets(i, k)
BY LedgerConstants DEF NeverForgets, Journal

(* Every journal knows what the empty journal knows.                       *)
LEMMA NeverForgetsBlank ==
  ASSUME NEW j \in Journal PROVE NeverForgets(Blank, j)
BY LedgerConstants DEF NeverForgets, Journal, Blank

(* A journal that never forgets another one keeps its payloads.            *)
LEMMA NeverForgetsKept ==
  ASSUME NEW j, NEW k, NeverForgets(j, k) PROVE Kept(j) \subseteq Kept(k)
BY DEF NeverForgets, Kept

(* Kept payloads of a journal are payloads.                                *)
LEMMA KeptType ==
  ASSUME NEW j \in Journal PROVE Kept(j) \subseteq Payload
BY DEF Kept, Journal

(* restore_snapshot: the union of what both journals know.                 *)
LEMMA MergedFacts ==
  ASSUME NEW cur \in Journal, NEW in \in Journal
  PROVE  /\ Merged(cur, in).events = in.events \cup cur.events
         /\ Merged(cur, in).pending \subseteq cur.pending \cup in.pending
         /\ Merged(cur, in).counters \in [Author -> -1..MaxSeq]
         /\ \A a \in Author :
              /\ in.counters[a] <= Merged(cur, in).counters[a]
              /\ cur.counters[a] <= Merged(cur, in).counters[a]
         /\ NeverForgets(cur, Merged(cur, in))
<1>1. \A a \in Author : in.counters[a] \in Int /\ cur.counters[a] \in Int
  BY LedgerConstants DEF Journal
<1>2. /\ Merged(cur, in).counters \in [Author -> -1..MaxSeq]
      /\ \A a \in Author :
           /\ in.counters[a] <= Merged(cur, in).counters[a]
           /\ cur.counters[a] <= Merged(cur, in).counters[a]
  BY <1>1, MergedType DEF Merged, MergedCounters, LargerOf, Journal
<1>3. /\ Merged(cur, in).events = in.events \cup cur.events
      /\ Merged(cur, in).pending =
           (IF cur.pending # {} THEN cur.pending ELSE in.pending)
             \ (in.events \cup cur.events)
  BY DEF Merged, MergedEvents, MergedPending
<1>4. QED
  BY <1>2, <1>3 DEF NeverForgets

(* A snapshot that validate_state accepts is restored as it is.            *)
LEMMA ValidMerges ==
  ASSUME NEW j \in Journal, ValidState(j)
  PROVE  Merged(Blank, j) = j
<1>1. ValidState(j)
  OBVIOUS
<1>2. j.pending \cap j.events = {}
  <2>1. SUFFICES ASSUME NEW p \in j.pending, p \in j.events PROVE FALSE
    OBVIOUS
  <2>2. ValidPending(j, p)
    BY <1>1, <2>1 DEF ValidState
  <2>3. QED
    BY <2>1, <2>2 DEF ValidPending, SameSlot
<1>3. Merged(Blank, j).events = j.events
  BY DEF Merged, MergedEvents, Blank
<1>4. Merged(Blank, j).pending = j.pending
  BY <1>2 DEF Merged, MergedEvents, MergedPending, Blank
<1>5. Merged(Blank, j).counters = j.counters
  <2>1. Merged(Blank, j).counters =
          [a \in Author |-> LargerOf(j.counters[a], -1)]
    BY DEF Merged, MergedCounters, Blank
  <2>2. \A a \in Author : LargerOf(j.counters[a], -1) = j.counters[a]
    BY LedgerConstants DEF LargerOf, Journal
  <2>3. QED
    BY <2>1, <2>2 DEF Journal
<1>6. Merged(Blank, j).readOnly = j.readOnly
  BY DEF Merged, MergedReadOnly, Blank, Journal
<1>7. QED
  BY <1>3, <1>4, <1>5, <1>6, MergedType, InitialJournals DEF Journal

LEMMA RestoreOwn ==
  ASSUME NEW j \in Journal, CanRestore(Blank, j)
  PROVE  Merged(Blank, j) = j
BY ValidMerges DEF CanRestore

(* A restored journal is not empty, and before there are events it holds   *)
(* nothing but the genesis reservation.                                    *)
LEMMA RestoredFacts ==
  ASSUME NEW cur \in Journal, NEW in \in Journal, CanRestore(cur, in)
  PROVE  /\ Merged(cur, in) # Blank
         /\ Merged(cur, in).events = {} =>
              Merged(cur, in).pending \subseteq {GenesisPayload}
<1> DEFINE m == Merged(cur, in)
<1>1. ValidState(m)
  BY DEF CanRestore
<1>2. m.events = {} => \A p \in m.pending : p = GenesisPayload
  BY <1>1 DEF ValidState, ValidPending
<1>3. m # Blank
  BY <1>1 DEF ValidState, Blank
<1>4. QED
  BY <1>2, <1>3

-----------------------------------------------------------------------------
(* Steps that preserve the invariant.  Most actions are instances of three *)
(* patterns: the journal moves on in memory, the journal is saved, or the  *)
(* wallet starts again from its storage.                                   *)

(* What holders vouch for survives when they vouch for no less.            *)
LEMMA KeepersGrow ==
  ASSUME TypeOK,
         \A w \in Wallet : Trusted(w)' =>
           Trusted(w) /\ Kept(View(w)) \subseteq Kept(View(w))'
  PROVE  \A p \in Payload : KeptByHolder(p) => KeptByHolder(p)'
BY WalletConstants DEF KeptByHolder, Payload

(* Pattern 1: the journal of w moves on in memory to j and never forgets   *)
(* what it knew; nothing is saved or signed.                               *)
LEMMA ProceedInv ==
  ASSUME IInv, TypeOK', NEW w \in Wallet, NEW j \in Journal, NEW step \in Control,
         Live(w), Proceed(w, step, j),
         step \in {"reserve", "settle"}
           \/ (step = "idle" /\ j = mem[w] /\ pc[w] = "commit"),
         Sound(j), j # Blank, NeverForgets(mem[w], j),
         \A p \in j.pending :
           KeptByHolder(p) \/ (Holder[p.ak] = w /\ step = "reserve"),
         \A p \in j.pending :
           \/ Holder[p.ak] = w
           \/ p \in mem[w].pending
           \/ \E k \in archive : p \in k.pending,
         step = "reserve" => \A p \in j.pending : Holder[p.ak] = w,
         w \notin cold => OneSlotEach(w, j)
  PROVE  IInv'
<1> USE DEF TypeOK
<1>1. /\ pc' = [pc EXCEPT ![w] = step] /\ mem' = [mem EXCEPT ![w] = j]
      /\ UNCHANGED <<disk, durable, archive, signed, acked, stored, cold>>
  BY DEF Proceed, history
<1>2. \A v \in Wallet : Live(v)' = Live(v)
  BY <1>1 DEF Live, Control
<1>3. Kept(mem[w]) \subseteq Kept(j) /\ mem[w].events \subseteq j.events
  BY NeverForgetsKept DEF NeverForgets
<1>4. \A v \in Wallet : /\ Trusted(v)' = Trusted(v)
                         /\ Kept(View(v)) \subseteq Kept(View(v))'
                         /\ View(v).events \subseteq View(v).events'
  BY <1>1, <1>2, <1>3 DEF Trusted, View, Kept
<1>5. \A p \in Payload : KeptByHolder(p) => KeptByHolder(p)'
  BY <1>4, KeepersGrow DEF IInv
<1>6. \A k \in Journal : Sound(k)' = Sound(k)
  BY <1>1 DEF Sound
<1>7. ArchiveInv'
  <2>1. \A k \in archive : k.pending \subseteq Payload
    BY DEF IInv, Journal
  <2>2. QED
    BY <1>1, <1>5, <1>6, <2>1 DEF IInv, ArchiveInv
<1>8. JournalInv'
  <2>1. SUFFICES ASSUME NEW v \in Wallet
        PROVE /\ Sound(mem[v])'
              /\ \A p \in mem'[v].pending :
                   KeptByHolder(p)' \/ (Holder[p.ak] = v /\ pc'[v] = "reserve")
              /\ v \notin cold => OneSlotEach(v, mem'[v]) /\ OneSlotEach(v, disk[v])
    BY <1>1 DEF JournalInv, OneSlotEach
  <2>2. mem[v].pending \subseteq Payload /\ j.pending \subseteq Payload
    BY DEF IInv, Journal
  <2>3. CASE v # w
    BY <1>1, <1>5, <1>6, <2>2, <2>3 DEF IInv, JournalInv
  <2>4. CASE v = w
    BY <1>1, <1>5, <1>6, <2>2, <2>4 DEF IInv, JournalInv
  <2>5. QED
    BY <2>3, <2>4
<1>9. ControlInv'
  <2>1. SUFFICES ASSUME NEW v \in Wallet
        PROVE /\ disk[v] # Blank => disk[v] \in archive /\ v \in stored
              /\ ~Live(v)' => mem'[v] = Blank
              /\ Live(v)' /\ disk[v] # Blank => NeverForgets(disk[v], mem'[v])
              /\ pc'[v] \in {"idle", "sign", "commit"} =>
                   disk[v] \in {mem'[v], Blank}
              /\ pc'[v] \in {"reserve", "sign", "commit", "settle"} =>
                   mem'[v] # Blank
              /\ pc'[v] \in {"reserve", "sign", "commit"} =>
                   \A p \in mem'[v].pending : Holder[p.ak] = v
              /\ pc'[v] \in {"idle", "sign", "commit"} /\ mem'[v] # Blank =>
                   v \in stored
              /\ pc'[v] = "commit" => mem'[v].pending \subseteq signed
    BY <1>1 DEF ControlInv, NeverForgets
  <2>2. CASE v # w
    BY <1>1, <1>2, <2>2 DEF IInv, ControlInv
  <2>3. CASE v = w
    <3>1. disk[w] # Blank => NeverForgets(disk[w], j)
      BY NeverForgetsTrans DEF IInv, ControlInv
    <3>2. QED
      BY <1>1, <1>2, <2>3, <3>1 DEF IInv, ControlInv
  <2>4. QED
    BY <2>2, <2>3
<1>10. FreshInv'
  <2>1. SUFFICES ASSUME NEW v \in Wallet
        PROVE /\ Live(v) /\ v \notin cold /\ ~durable[v] => v \notin stored
              /\ v \notin stored =>
                   /\ acked[v] = {}
                   /\ \A p \in signed : Holder[p.ak] # v
                   /\ \A k \in archive : \A p \in k.pending : Holder[p.ak] # v
                   /\ \A u \in Wallet \ {v} :
                        \A p \in mem'[u].pending : Holder[p.ak] # v
    BY <1>1, <1>2 DEF FreshInv
  <2>2. QED
    BY <1>1 DEF IInv, FreshInv
<1>11. HistoryInv'
  BY <1>1, <1>4, <1>5 DEF IInv, HistoryInv, NoEquivocation, SameSlot
<1>12. QED
  BY <1>7, <1>8, <1>9, <1>10, <1>11 DEF IInv

(* Pattern 2: the journal of w is saved.  Then the wallet goes on, or it   *)
(* stops because it could not read the storage after a failed save.        *)
LEMMA SavedInv ==
  ASSUME IInv, TypeOK', NEW w \in Wallet, NEW step \in Control, NEW m \in Journal,
         pc[w] \in {"reserve", "settle"}, Saved(w),
         pc' = [pc EXCEPT ![w] = step], mem' = [mem EXCEPT ![w] = m],
         \/ step = "sign" /\ pc[w] = "reserve" /\ m = mem[w]
         \/ step = "idle" /\ m = mem[w]
         \/ step = "stopped" /\ m = Blank,
         \A v \in Wallet : durable'[v] = durable[v] \/ v = w,
         step # "stopped" => durable'[w],
         \A v \in Wallet : acked'[v] = acked[v]
           \/ (v = w /\ acked'[w] = acked[w] \cup mem[w].events),
         UNCHANGED <<signed, cold>>
  PROVE  IInv'
<1> USE DEF TypeOK
<1>1. /\ disk' = [disk EXCEPT ![w] = mem[w]]
      /\ archive' = archive \cup {mem[w]}
      /\ stored' = stored \cup {w}
  BY DEF Saved
<1>2. Live(w) /\ mem[w] # Blank
  BY DEF Live, IInv, ControlInv
<1>3. disk[w] # Blank => NeverForgets(disk[w], mem[w])
  BY <1>2 DEF IInv, ControlInv
<1>4. Kept(View(w)) \subseteq Kept(mem[w]) /\ View(w).events \subseteq mem[w].events
  BY <1>3, NeverForgetsKept DEF View, NeverForgets
<1>5. \A v \in Wallet : v # w => Live(v)' = Live(v)
  BY DEF Live
<1>6. \A v \in Wallet : /\ Trusted(v)' => Trusted(v)
                         /\ Kept(View(v)) \subseteq Kept(View(v))'
                         /\ View(v).events \subseteq View(v).events'
  <2>1. SUFFICES ASSUME NEW v \in Wallet
        PROVE /\ Trusted(v)' => Trusted(v)
              /\ Kept(View(v)) \subseteq Kept(View(v))'
              /\ View(v).events \subseteq View(v).events'
    OBVIOUS
  <2>2. CASE v = w
    <3>1. View(w)' = mem[w] /\ Trusted(w) = (w \notin cold)
      BY <1>1, <1>2 DEF View, Trusted
    <3>2. QED
      BY <1>4, <2>2, <3>1 DEF Trusted, Kept
  <2>3. CASE v # w
    BY <1>1, <1>5, <2>3 DEF View, Trusted, Kept
  <2>4. QED
    BY <2>2, <2>3
<1>7. \A p \in Payload : KeptByHolder(p) => KeptByHolder(p)'
  BY <1>6, KeepersGrow DEF IInv
<1>8. \A k \in Journal : Sound(k)' = Sound(k)
  BY DEF Sound
<1>9. \A p \in mem[w].pending : KeptByHolder(p)'
  <2>1. SUFFICES ASSUME NEW p \in mem[w].pending, Holder[p.ak] = w
                 PROVE  KeptByHolder(p)'
    <3>1. mem[w].pending \subseteq Payload
      BY DEF IInv, Journal
    <3>2. QED
      BY <1>7, <3>1 DEF IInv, JournalInv
  <2>2. View(w)' = mem[w]
    BY <1>1, <1>2 DEF View
  <2>3. QED
    BY <2>1, <2>2 DEF KeptByHolder, Kept
<1>10. ArchiveInv'
  <2>1. \A k \in archive : k.pending \subseteq Payload
    BY DEF IInv, Journal
  <2>2. \A k \in archive : k # Blank /\ Sound(k)' /\ \A p \in k.pending : KeptByHolder(p)'
    BY <1>7, <1>8, <2>1 DEF IInv, ArchiveInv
  <2>3. PICK j \in Journal : j = mem[w]
    BY DEF IInv
  <2>4. Sound(j)'
    BY <1>8, <2>3 DEF IInv, JournalInv
  <2>5. QED
    BY <1>1, <1>2, <1>9, <2>2, <2>3, <2>4 DEF ArchiveInv
<1>11. Blank.pending = {} /\ Blank.events = {}
  BY DEF Blank
<1>12. JournalInv'
  <2>1. SUFFICES ASSUME NEW v \in Wallet
        PROVE /\ Sound(mem[v])'
              /\ \A p \in mem'[v].pending :
                   KeptByHolder(p)' \/ (Holder[p.ak] = v /\ pc'[v] = "reserve")
              /\ v \notin cold => OneSlotEach(v, mem'[v]) /\ OneSlotEach(v, disk'[v])
    BY DEF JournalInv, OneSlotEach
  <2>2. mem[v].pending \subseteq Payload
    BY DEF IInv, Journal
  <2>3. CASE v # w
    BY <1>1, <1>7, <1>8, <2>2, <2>3 DEF IInv, JournalInv
  <2>4. CASE v = w
    <3>1. Sound(m) /\ OneSlotEach(w, Blank)
      BY <1>11 DEF IInv, JournalInv, Sound, OneSlotEach, Kept
    <3>2. Sound(mem[w])'
      BY <1>8, <2>4, <3>1 DEF Sound
    <3>3. \A p \in m.pending : KeptByHolder(p)'
      BY <1>9, <1>11
    <3>4. QED
      BY <1>1, <2>4, <3>1, <3>2, <3>3 DEF IInv, JournalInv
  <2>5. QED
    BY <2>3, <2>4
<1>13. ControlInv'
  <2>1. SUFFICES ASSUME NEW v \in Wallet
        PROVE /\ disk'[v] # Blank => disk'[v] \in archive' /\ v \in stored'
              /\ ~Live(v)' => mem'[v] = Blank
              /\ Live(v)' /\ disk'[v] # Blank => NeverForgets(disk'[v], mem'[v])
              /\ pc'[v] \in {"idle", "sign", "commit"} =>
                   disk'[v] \in {mem'[v], Blank}
              /\ pc'[v] \in {"reserve", "sign", "commit", "settle"} =>
                   mem'[v] # Blank
              /\ pc'[v] \in {"reserve", "sign", "commit"} =>
                   \A p \in mem'[v].pending : Holder[p.ak] = v
              /\ pc'[v] \in {"idle", "sign", "commit"} /\ mem'[v] # Blank =>
                   v \in stored'
              /\ pc'[v] = "commit" => mem'[v].pending \subseteq signed
    BY DEF ControlInv, NeverForgets
  <2>2. CASE v # w
    BY <1>1, <1>5, <2>2 DEF IInv, ControlInv
  <2>3. CASE v = w
    <3>1. Live(w)' => step # "stopped"
      BY DEF Live
    <3>2. NeverForgets(mem[w], mem[w])
      BY NeverForgetsRefl DEF IInv
    <3>3. QED
      BY <1>1, <1>2, <2>3, <3>1, <3>2 DEF IInv, ControlInv, Live
  <2>4. QED
    BY <2>2, <2>3
<1>14. FreshInv'
  <2>1. SUFFICES ASSUME NEW v \in Wallet
        PROVE /\ Live(v)' /\ v \notin cold /\ ~durable'[v] => v \notin stored'
              /\ v \notin stored' =>
                   /\ acked'[v] = {}
                   /\ \A p \in signed : Holder[p.ak] # v
                   /\ \A k \in archive' : \A p \in k.pending : Holder[p.ak] # v
                   /\ \A u \in Wallet \ {v} :
                        \A p \in mem'[u].pending : Holder[p.ak] # v
    BY DEF FreshInv
  <2>2. CASE v # w
    BY <1>1, <1>5, <1>11, <2>2 DEF IInv, FreshInv
  <2>3. CASE v = w
    BY <1>1, <2>3 DEF Live
  <2>4. QED
    BY <2>2, <2>3
<1>15. HistoryInv'
  <2>1. \A v \in Wallet : Trusted(v)' => acked'[v] \subseteq View(v).events'
    <3>1. View(w)' = mem[w]
      BY <1>1, <1>2 DEF View
    <3>2. QED
      BY <1>6, <3>1 DEF IInv, HistoryInv
  <2>2. QED
    BY <1>7, <2>1 DEF IInv, HistoryInv, NoEquivocation, SameSlot
<1>16. QED
  BY <1>10, <1>12, <1>13, <1>14, <1>15 DEF IInv

(* Pattern 3: the wallet loses its journal, or starts again from what is   *)
(* stored: with that snapshot or, on an empty storage, with no journal.    *)
LEMMA RestartInv ==
  ASSUME IInv, TypeOK', NEW w \in Wallet, NEW step \in Control, NEW m \in Journal,
         pc' = [pc EXCEPT ![w] = step], mem' = [mem EXCEPT ![w] = m],
         UNCHANGED <<disk, archive, stored, signed, acked>>,
         cold \subseteq cold',
         \A v \in Wallet : durable'[v] = durable[v] \/ v = w,
         \/ step \in {"down", "stopped"} /\ m = Blank
         \/ step = "idle" /\ m = disk[w] /\ m # Blank /\ durable'[w]
         \/ /\ step = "idle" /\ m = Blank /\ disk[w] = Blank
            /\ w \notin stored \/ w \in cold'
  PROVE  IInv'
<1> USE DEF TypeOK
<1>1. Blank.pending = {} /\ Blank.events = {}
  BY DEF Blank
<1>2. \A v \in Wallet : v # w => Live(v)' = Live(v)
  BY DEF Live
<1>3. m = Blank \/ (m = disk[w] /\ m \in archive)
  BY DEF IInv, ControlInv
<1>4. \A v \in Wallet : v # w =>
        /\ Trusted(v)' => Trusted(v)
        /\ View(v)' = View(v)
  BY <1>2 DEF Trusted, View
<1>5. Trusted(w)' =>
        \/ Trusted(w) /\ View(w)' = View(w)
        \/ w \notin stored
  BY DEF Trusted, View, Live
<1>6. \A p \in Payload :
        KeptByHolder(p) /\ (Holder[p.ak] = w => w \in stored) => KeptByHolder(p)'
  <2>1. SUFFICES ASSUME NEW p \in Payload, KeptByHolder(p),
                        Holder[p.ak] = w => w \in stored
                 PROVE  KeptByHolder(p)'
    OBVIOUS
  <2>2. Holder[p.ak] \in Wallet
    BY WalletConstants DEF Payload
  <2>3. CASE Holder[p.ak] = w
    BY <1>5, <2>1, <2>3 DEF KeptByHolder, Kept
  <2>4. CASE Holder[p.ak] # w
    BY <1>4, <2>1, <2>2, <2>4 DEF KeptByHolder, Kept
  <2>5. QED
    BY <2>3, <2>4
<1>7. \A k \in Journal : Sound(k)' = Sound(k)
  BY DEF Sound
<1>8. \A k \in archive : \A p \in k.pending : KeptByHolder(p)'
  <2>1. SUFFICES ASSUME NEW k \in archive, NEW p \in k.pending
                 PROVE  KeptByHolder(p)'
    OBVIOUS
  <2>2. p \in Payload
    BY DEF IInv, Journal
  <2>3. KeptByHolder(p)
    BY DEF IInv, ArchiveInv
  <2>4. Holder[p.ak] = w => w \in stored
    BY DEF IInv, FreshInv
  <2>5. QED
    BY <1>6, <2>2, <2>3, <2>4
<1>9. ArchiveInv'
  BY <1>7, <1>8 DEF IInv, ArchiveInv
<1>10. JournalInv'
  <2>1. SUFFICES ASSUME NEW v \in Wallet
        PROVE /\ Sound(mem[v])'
              /\ \A p \in mem'[v].pending :
                   KeptByHolder(p)' \/ (Holder[p.ak] = v /\ pc'[v] = "reserve")
              /\ v \notin cold' => OneSlotEach(v, mem'[v]) /\ OneSlotEach(v, disk[v])
    BY DEF JournalInv, OneSlotEach
  <2>2. CASE v # w
    <3>1. Sound(mem[v])' /\ (v \notin cold' =>
                               OneSlotEach(v, mem'[v]) /\ OneSlotEach(v, disk[v]))
      BY <1>7, <2>2 DEF IInv, JournalInv
    <3>2. ASSUME NEW p \in mem'[v].pending,
                 ~(Holder[p.ak] = v /\ pc'[v] = "reserve")
          PROVE  KeptByHolder(p)'
      <4>1. p \in Payload /\ KeptByHolder(p)
        BY <2>2, <3>2 DEF IInv, JournalInv, Journal
      <4>2. Holder[p.ak] = w => w \in stored
        BY <2>2, <3>2 DEF IInv, FreshInv
      <4>3. QED
        BY <1>6, <4>1, <4>2
    <3>3. QED
      BY <3>1, <3>2
  <2>3. CASE v = w
    <3>1. Sound(m) /\ (w \notin cold' => OneSlotEach(w, m) /\ OneSlotEach(w, disk[w]))
      <4>1. Sound(Blank) /\ OneSlotEach(w, Blank)
        BY <1>1 DEF Sound, OneSlotEach, Kept
      <4>2. QED
        BY <1>3, <4>1 DEF IInv, JournalInv, ArchiveInv
    <3>2. \A p \in m.pending : KeptByHolder(p)'
      BY <1>1, <1>3, <1>8
    <3>3. Sound(m)'
      BY <1>7, <3>1
    <3>4. QED
      BY <2>3, <3>1, <3>2, <3>3
  <2>4. QED
    BY <2>2, <2>3
<1>11. ControlInv'
  <2>1. SUFFICES ASSUME NEW v \in Wallet
        PROVE /\ disk[v] # Blank => disk[v] \in archive /\ v \in stored
              /\ ~Live(v)' => mem'[v] = Blank
              /\ Live(v)' /\ disk[v] # Blank => NeverForgets(disk[v], mem'[v])
              /\ pc'[v] \in {"idle", "sign", "commit"} =>
                   disk[v] \in {mem'[v], Blank}
              /\ pc'[v] \in {"reserve", "sign", "commit", "settle"} =>
                   mem'[v] # Blank
              /\ pc'[v] \in {"reserve", "sign", "commit"} =>
                   \A p \in mem'[v].pending : Holder[p.ak] = v
              /\ pc'[v] \in {"idle", "sign", "commit"} /\ mem'[v] # Blank =>
                   v \in stored
              /\ pc'[v] = "commit" => mem'[v].pending \subseteq signed
    BY DEF ControlInv, NeverForgets
  <2>2. CASE v # w
    BY <1>2, <2>2 DEF IInv, ControlInv
  <2>3. CASE v = w
    <3>1. NeverForgets(m, m)
      BY NeverForgetsRefl
    <3>2. QED
      BY <2>3, <3>1 DEF IInv, ControlInv, Live
  <2>4. QED
    BY <2>2, <2>3
<1>12. FreshInv'
  <2>1. SUFFICES ASSUME NEW v \in Wallet
        PROVE /\ Live(v)' /\ v \notin cold' /\ ~durable'[v] => v \notin stored
              /\ v \notin stored =>
                   /\ acked[v] = {}
                   /\ \A p \in signed : Holder[p.ak] # v
                   /\ \A k \in archive : \A p \in k.pending : Holder[p.ak] # v
                   /\ \A u \in Wallet \ {v} :
                        \A p \in mem'[u].pending : Holder[p.ak] # v
    BY DEF FreshInv
  <2>2. Live(v)' /\ v \notin cold' /\ ~durable'[v] => v \notin stored
    BY <1>2 DEF IInv, FreshInv, Live
  <2>3. QED
    BY <1>1, <1>3, <2>2 DEF IInv, FreshInv
<1>13. HistoryInv'
  <2>1. \A p \in signed : KeptByHolder(p)'
    <3>1. SUFFICES ASSUME NEW p \in signed PROVE KeptByHolder(p)'
      OBVIOUS
    <3>2. p \in Payload /\ KeptByHolder(p) /\ (Holder[p.ak] = w => w \in stored)
      BY DEF IInv, HistoryInv, FreshInv
    <3>3. QED
      BY <1>6, <3>2
  <2>2. \A v \in Wallet : Trusted(v)' => acked[v] \subseteq View(v).events'
    BY <1>4, <1>5 DEF IInv, HistoryInv, FreshInv
  <2>3. NoEquivocation'
    BY DEF IInv, HistoryInv, NoEquivocation, SameSlot
  <2>4. QED
    BY <2>1, <2>2, <2>3 DEF HistoryInv
<1>14. QED
  BY <1>9, <1>10, <1>11, <1>12, <1>13 DEF IInv

(* The signer of w is called: the reservation, which the holder of its key *)
(* has stored, gets its signature or not.                                  *)
LEMMA SignedInv ==
  ASSUME IInv, TypeOK', NEW w \in Wallet, NEW step \in {"idle", "commit"},
         pc[w] = "sign", pc' = [pc EXCEPT ![w] = step],
         signed' \in {signed, signed \cup mem[w].pending},
         step = "commit" => signed' = signed \cup mem[w].pending,
         UNCHANGED <<mem, disk, durable, archive, acked, stored, cold>>
  PROVE  IInv'
<1> USE DEF TypeOK
<1>1. \A v \in Wallet : Live(v)' = Live(v)
  BY DEF Live, Control
<1>2. \A v \in Wallet : /\ Trusted(v)' = Trusted(v)
                         /\ View(v)' = View(v)
  BY <1>1 DEF Trusted, View
<1>3. \A p \in Payload : KeptByHolder(p)' = KeptByHolder(p)
  BY <1>2, WalletConstants DEF KeptByHolder, Kept, Payload
<1>4. \A k \in Journal : Sound(k) => Sound(k)'
  BY DEF Sound
<1>5. /\ Live(w) /\ w \in stored /\ disk[w] \in {mem[w], Blank}
      /\ mem[w].pending \subseteq Payload
      /\ \A p \in mem[w].pending : Holder[p.ak] = w /\ KeptByHolder(p)
  BY DEF IInv, ControlInv, JournalInv, Live, Journal
<1>6. ArchiveInv'
  <2>1. \A k \in archive : k.pending \subseteq Payload
    BY DEF IInv, Journal
  <2>2. QED
    BY <1>3, <1>4, <2>1 DEF IInv, ArchiveInv
<1>7. JournalInv'
  <2>1. SUFFICES ASSUME NEW v \in Wallet
        PROVE /\ Sound(mem[v])'
              /\ \A p \in mem[v].pending :
                   KeptByHolder(p)' \/ (Holder[p.ak] = v /\ pc'[v] = "reserve")
              /\ v \notin cold => OneSlotEach(v, mem[v]) /\ OneSlotEach(v, disk[v])
    BY DEF JournalInv, OneSlotEach
  <2>2. Sound(mem[v])'
    BY <1>4 DEF IInv, JournalInv
  <2>3. mem[v].pending \subseteq Payload
    BY DEF IInv, Journal
  <2>4. QED
    BY <1>3, <2>2, <2>3 DEF IInv, JournalInv
<1>8. ControlInv'
  <2>1. \A v \in Wallet : v # w => pc'[v] = pc[v]
    OBVIOUS
  <2>2. QED
    BY <1>1, <1>5, <2>1 DEF IInv, ControlInv, NeverForgets
<1>9. FreshInv'
  BY <1>1, <1>5 DEF IInv, FreshInv
<1>10. HistoryInv'
  <2>1. \A p \in signed' : KeptByHolder(p)'
    BY <1>3, <1>5 DEF IInv, HistoryInv
  <2>2. \A p \in signed' : Holder[p.ak] = w /\ w \notin cold => p \in Kept(mem[w])
    <3>1. w \notin cold => Trusted(w) /\ View(w) = mem[w]
      BY <1>5 DEF Trusted, View, IInv, ControlInv
    <3>2. QED
      BY <1>5, <3>1 DEF IInv, HistoryInv, KeptByHolder
  <2>3. NoEquivocation'
    <3>1. SUFFICES ASSUME NEW p \in signed', NEW q \in signed',
                          SameSlot(p, q), Holder[p.ak] \notin cold
                   PROVE  p = q
      BY DEF NoEquivocation, SameSlot
    <3>2. CASE Holder[p.ak] = w
      BY <2>2, <3>1, <3>2 DEF IInv, JournalInv, OneSlotEach, SameSlot
    <3>3. CASE Holder[p.ak] # w
      BY <1>5, <3>1, <3>3 DEF IInv, HistoryInv, NoEquivocation, SameSlot
    <3>4. QED
      BY <3>2, <3>3
  <2>4. QED
    BY <1>2, <2>1, <2>3 DEF IInv, HistoryInv
<1>11. QED
  BY <1>6, <1>7, <1>8, <1>9, <1>10 DEF IInv

(* The stored snapshot of w disappears: its journal, if the wallet is      *)
(* running, vouches for no less.                                           *)
LEMMA LossInv ==
  ASSUME IInv, TypeOK', NEW w \in Wallet, LoseSnapshot(w)
  PROVE  IInv'
<1> USE DEF TypeOK
<1>1. /\ disk[w] # Blank /\ disk' = [disk EXCEPT ![w] = Blank]
      /\ UNCHANGED <<pc, mem, durable, archive, signed, acked, stored, cold>>
  BY DEF LoseSnapshot, history
<1>2. \A v \in Wallet : Live(v)' = Live(v)
  BY <1>1 DEF Live
<1>3. Live(w) => Kept(disk[w]) \subseteq Kept(mem[w])
                 /\ disk[w].events \subseteq mem[w].events
  BY <1>1, NeverForgetsKept DEF IInv, ControlInv, NeverForgets
<1>4. \A v \in Wallet : Trusted(v)' =>
        /\ Trusted(v)
        /\ Kept(View(v)) \subseteq Kept(View(v))'
        /\ View(v).events \subseteq View(v).events'
  BY <1>1, <1>2, <1>3 DEF Trusted, View, Kept
<1>5. \A p \in Payload : KeptByHolder(p) => KeptByHolder(p)'
  BY <1>4, KeepersGrow DEF IInv
<1>6. \A k \in Journal : Sound(k)' = Sound(k)
  BY <1>1 DEF Sound
<1>7. ArchiveInv'
  <2>1. \A k \in archive : k.pending \subseteq Payload
    BY DEF IInv, Journal
  <2>2. QED
    BY <1>1, <1>5, <1>6, <2>1 DEF IInv, ArchiveInv
<1>8. JournalInv'
  <2>1. SUFFICES ASSUME NEW v \in Wallet
        PROVE /\ Sound(mem[v])'
              /\ \A p \in mem[v].pending :
                   KeptByHolder(p)' \/ (Holder[p.ak] = v /\ pc[v] = "reserve")
              /\ v \notin cold => OneSlotEach(v, mem[v]) /\ OneSlotEach(v, disk'[v])
    BY <1>1 DEF JournalInv, OneSlotEach
  <2>2. Sound(mem[v])'
    BY <1>1, <1>6 DEF IInv, JournalInv
  <2>3. mem[v].pending \subseteq Payload
    BY DEF IInv, Journal
  <2>4. OneSlotEach(v, Blank)
    BY DEF OneSlotEach, Kept, Blank
  <2>5. QED
    BY <1>1, <1>5, <2>2, <2>3, <2>4 DEF IInv, JournalInv
<1>9. ControlInv'
  BY <1>1, <1>2 DEF IInv, ControlInv, NeverForgets
<1>10. FreshInv'
  BY <1>1, <1>2 DEF IInv, FreshInv
<1>11. HistoryInv'
  <2>1. \A v \in Wallet : Trusted(v)' => acked[v] \subseteq View(v).events'
    BY <1>4 DEF IInv, HistoryInv
  <2>2. QED
    BY <1>1, <1>5, <2>1 DEF IInv, HistoryInv, NoEquivocation, SameSlot
<1>12. QED
  BY <1>7, <1>8, <1>9, <1>10, <1>11 DEF IInv

(* A repeated request between calls is answered from the journal, which is *)
(* the stored one: the receipt reports nothing that is not stored.         *)
LEMMA AnswerInv ==
  ASSUME IInv, TypeOK', NEW w \in Wallet, pc[w] = "idle", mem[w].events # {},
         AnswerAlreadyCommitted(w)
  PROVE  IInv'
<1> USE DEF TypeOK
<1>1. /\ acked' = [acked EXCEPT ![w] = @ \cup mem[w].events]
      /\ UNCHANGED <<pc, mem, disk, durable, archive, signed, stored, cold>>
  BY DEF AnswerAlreadyCommitted, Acknowledge
<1>2. mem[w] # Blank
  BY DEF Blank
<1>3. w \in stored /\ View(w) = mem[w]
  BY <1>2 DEF View, IInv, ControlInv
<1>4. ArchiveInv'
  BY <1>1 DEF IInv, ArchiveInv, Sound, KeptByHolder, Trusted, View, Live, Kept
<1>5. JournalInv'
  BY <1>1 DEF IInv, JournalInv, Sound, KeptByHolder, Trusted, View, Live, Kept,
     OneSlotEach, SameSlot
<1>6. ControlInv'
  BY <1>1 DEF IInv, ControlInv, NeverForgets, Live
<1>7. FreshInv'
  BY <1>1, <1>3 DEF IInv, FreshInv, Live
<1>8. HistoryInv'
  <2>1. \A v \in Wallet : /\ Trusted(v)' = Trusted(v)
                          /\ View(v)' = View(v)
    BY <1>1 DEF Trusted, View, Live
  <2>2. \A v \in Wallet : Trusted(v)' => acked'[v] \subseteq View(v).events'
    BY <1>1, <1>3, <2>1 DEF IInv, HistoryInv
  <2>3. \A p \in signed : KeptByHolder(p)'
    BY <1>1 DEF IInv, HistoryInv, KeptByHolder, Trusted, View, Live, Kept
  <2>4. NoEquivocation'
    BY <1>1 DEF IInv, HistoryInv, NoEquivocation, SameSlot
  <2>5. QED
    BY <1>1, <2>2, <2>3, <2>4 DEF HistoryInv
<1>9. QED
  BY <1>4, <1>5, <1>6, <1>7, <1>8 DEF IInv

-----------------------------------------------------------------------------
(* The inductive invariant holds.                                          *)

LEMMA InvInit == Init => IInv
<1> SUFFICES ASSUME Init PROVE IInv
  OBVIOUS
<1>1. TypeOK
  BY TypeInit
<1>2. Blank.pending = {} /\ Blank.events = {}
  BY DEF Blank
<1>3. ArchiveInv
  BY DEF Init, ArchiveInv
<1>4. JournalInv
  BY <1>2 DEF Init, JournalInv, Sound, OneSlotEach, Kept
<1>5. ControlInv
  BY DEF Init, ControlInv, Live
<1>6. FreshInv
  BY <1>2 DEF Init, FreshInv, Live
<1>7. HistoryInv
  BY DEF Init, HistoryInv, NoEquivocation
<1>8. QED
  BY <1>1, <1>3, <1>4, <1>5, <1>6, <1>7 DEF IInv

(* A new reservation takes a sequence number above all the journal knows.  *)
LEMMA ReserveInv ==
  ASSUME IInv, TypeOK', NEW w \in Wallet, NEW a \in Author, NEW s \in 1..MaxSeq,
         NEW op \in Op, NEW body \in Body,
         pc[w] = "idle", Holder[a] = w, CanReserve(mem[w], a, s, op, body),
         Proceed(w, "reserve", Reserved(mem[w], a, s, op, body))
  PROVE  IInv'
<1> DEFINE p == MakePayload(a, s, op, body)
           j == Reserved(mem[w], a, s, op, body)
<1> USE DEF TypeOK
<1>1. mem[w] \in Journal /\ j \in Journal /\ Live(w)
  BY ReservedType DEF IInv, Live
<1>2. p.ak = a /\ p.seq = s
  BY DEF MakePayload
<1>3. /\ mem[w].pending = {} /\ mem[w].events # {}
      /\ j.events = mem[w].events /\ j.pending = {p}
      /\ j.counters = [mem[w].counters EXCEPT ![a] = s]
  BY <1>1 DEF CanReserve, MayPrepare, Writable, Reserved, Journal
<1>4. Sound(mem[w])
  BY DEF IInv, JournalInv
<1>5. /\ mem[w].counters \in [Author -> Int]
      /\ mem[w].counters[a] < s /\ s \in Int
      /\ mem[w].events \subseteq Payload
  BY <1>1, LedgerConstants DEF CanReserve, IsNextSeq, Journal
<1>6. \A q \in mem[w].events : /\ q.ak \in Author /\ q.seq \in Int
                               /\ q.seq <= mem[w].counters[q.ak]
  BY <1>4, <1>5, LedgerConstants DEF Sound, Kept, Payload
<1>7. \A b \in Author : mem[w].counters[b] <= j.counters[b]
  BY <1>3, <1>5
<1>8. Sound(j)
  <2>1. \A q \in Kept(j) : q.seq <= j.counters[q.ak]
    BY <1>2, <1>3, <1>5, <1>6 DEF Kept
  <2>2. QED
    BY <1>3, <1>4, <2>1 DEF Sound
<1>9. NeverForgets(mem[w], j)
  BY <1>3, <1>7 DEF NeverForgets
<1>10. w \notin cold => OneSlotEach(w, j)
  <2>1. \A q \in mem[w].events : ~SameSlot(p, q) /\ ~SameSlot(q, p)
    BY <1>2, <1>5, <1>6 DEF SameSlot
  <2>2. w \notin cold => OneSlotEach(w, mem[w])
    BY DEF IInv, JournalInv
  <2>3. QED
    BY <1>3, <2>1, <2>2 DEF OneSlotEach, Kept
<1>11. j # Blank
  BY <1>3 DEF Blank
<1>12. "reserve" \in Control
  BY DEF Control
<1>13. QED
  <2> HIDE DEF j, p
  <2>1. Proceed(w, "reserve", j)
    BY DEF j
  <2>2. \A q \in j.pending : Holder[q.ak] = w
    BY <1>2, <1>3
  <2>3. QED
    BY <1>1, <1>8, <1>9, <1>10, <1>11, <1>12, <2>1, <2>2, ProceedInv

(* A reservation that was saved before goes to the signer again.           *)
LEMMA ResumeInv ==
  ASSUME IInv, TypeOK', NEW w \in Wallet, pc[w] = "idle", mem[w] # Blank,
         \A p \in mem[w].pending : Holder[p.ak] = w,
         Proceed(w, "reserve", mem[w])
  PROVE  IInv'
<1>1. mem[w] \in Journal /\ Live(w) /\ "reserve" \in Control
  BY DEF IInv, TypeOK, Live, Control
<1>2. Sound(mem[w]) /\ (w \notin cold => OneSlotEach(w, mem[w]))
  BY DEF IInv, JournalInv
<1>3. NeverForgets(mem[w], mem[w])
  BY <1>1, NeverForgetsRefl
<1>4. QED
  BY <1>1, <1>2, <1>3, ProceedInv

(* initialize, on a journal with no history.                               *)
LEMMA InitializeInv ==
  ASSUME IInv, TypeOK', NEW w \in Wallet, Initialize(w) PROVE IInv'
<1> USE DEF TypeOK
<1>1. pc[w] = "idle" /\ Holder[Root] = w /\ mem[w] \in Journal
  BY DEF Initialize, IInv
<1>2. GenesisPayload.ak = Root /\ GenesisPayload.seq = 0
  BY DEF GenesisPayload, MakePayload
<1>3. CASE mem[w] = Blank /\ Proceed(w, "reserve", GenesisJournal)
  <2> DEFINE j == GenesisJournal
  <2>1. /\ j.events = {} /\ j.pending = {GenesisPayload}
        /\ j.counters[Root] = 0
    BY LedgerConstants DEF GenesisJournal
  <2>2. Sound(j) /\ OneSlotEach(w, j) /\ j # Blank
    <3>1. Kept(j) = {GenesisPayload}
      BY <2>1 DEF Kept
    <3>2. Sound(j)
      BY <1>2, <2>1, <3>1 DEF Sound
    <3>3. Blank.pending = {}
      BY DEF Blank
    <3>4. QED
      BY <2>1, <3>1, <3>2, <3>3 DEF OneSlotEach
  <2>3. j \in Journal /\ Live(w) /\ "reserve" \in Control
    BY <1>1, InitialJournals DEF Live, Control
  <2>4. NeverForgets(mem[w], j)
    BY <1>3, <2>3, NeverForgetsBlank
  <2>5. \A p \in j.pending : Holder[p.ak] = w
    BY <1>1, <1>2, <2>1
  <2>6. QED
    BY <1>3, <2>2, <2>3, <2>4, <2>5, ProceedInv
<1>4. CASE mem[w] # Blank /\ mem[w].events = {} /\ Proceed(w, "reserve", mem[w])
  <2>1. \A p \in mem[w].pending : Holder[p.ak] = w
    BY <1>1, <1>2, <1>4 DEF IInv, JournalInv, Sound
  <2>2. QED
    BY <1>1, <1>4, <2>1, ResumeInv
<1>5. CASE mem[w].events # {} /\ AnswerAlreadyCommitted(w)
  BY <1>1, <1>5, AnswerInv
<1>6. QED
  BY <1>3, <1>4, <1>5 DEF Initialize

(* prepare_intake, prepare_grant and prepare_revoke.                       *)
LEMMA RequestInv ==
  ASSUME IInv, TypeOK', NEW w \in Wallet, NEW a \in Author, NEW op \in Op,
         NEW body \in Requests(a), Request(w, a, op, body)
  PROVE  IInv'
<1>1. pc[w] = "idle" /\ Holder[a] = w /\ body \in Body
  BY RequestTypes DEF Request
<1>2. CASE AlreadyCommitted(mem[w], a, op, body) /\ AnswerAlreadyCommitted(w)
  BY <1>1, <1>2, AnswerInv DEF AlreadyCommitted, Writable
<1>3. CASE CanResume(mem[w], a, op, body) /\ Proceed(w, "reserve", mem[w])
  <2>1. \A p \in mem[w].pending : p.ak = a
    BY <1>3 DEF CanResume, MakePayload
  <2>2. mem[w] # Blank
    BY <1>3 DEF CanResume, MayPrepare, Writable, Blank
  <2>3. QED
    BY <1>1, <1>3, <2>1, <2>2, ResumeInv
<1>4. ASSUME NEW s \in 1..MaxSeq, CanReserve(mem[w], a, s, op, body),
             Proceed(w, "reserve", Reserved(mem[w], a, s, op, body))
      PROVE  IInv'
  BY <1>1, <1>4, ReserveInv
<1>5. QED
  BY <1>2, <1>3, <1>4 DEF Request

(* import_transfer: the incoming events are signed, and no two signed ones *)
(* share a slot of a key this wallet holds.                                *)
LEMMA ImportInv ==
  ASSUME IInv, TypeOK', NEW w \in Wallet, ImportTransfer(w) PROVE IInv'
<1> USE DEF TypeOK
<1>1. PICK E \in Transfers, c \in [Author -> -1..MaxSeq] :
        /\ CanImport(mem[w], E)
        /\ IsRaised(mem[w].counters, mem[w].events \cup E, c)
        /\ Proceed(w, "settle", Imported(mem[w], E, c))
  BY DEF ImportTransfer
<1>2. pc[w] = "idle" /\ Live(w) /\ "settle" \in Control
  BY DEF ImportTransfer, Live, Control
<1> DEFINE j == Imported(mem[w], E, c)
<1>3. /\ j.events = mem[w].events \cup E /\ j.pending = {} /\ j.counters = c
  BY DEF Imported
<1>4. E \subseteq signed /\ E \in SUBSET Payload
  BY DEF Transfers, IInv, ArchiveInv, Sound, Journal
<1>5. mem[w] \in Journal /\ j \in Journal
  BY <1>4, ImportedType DEF IInv
<1>6. E # {} /\ mem[w].pending = {}
  BY <1>1 DEF CanImport, Verified
<1>7. mem[w].events \subseteq signed
  BY DEF IInv, JournalInv, Sound
<1>8. Sound(j)
  BY <1>1, <1>3, <1>4, <1>7 DEF Sound, Kept, IsRaised
<1>9. NeverForgets(mem[w], j)
  BY <1>1, <1>3, <1>6 DEF NeverForgets, IsRaised
<1>10. w \notin cold => OneSlotEach(w, j)
  BY <1>3, <1>4, <1>7 DEF OneSlotEach, Kept, IInv, HistoryInv, NoEquivocation
<1>11. j # Blank
  BY <1>3, <1>6 DEF Blank
<1>12. QED
  <2> HIDE DEF j
  <2>1. Proceed(w, "settle", j)
    BY <1>1 DEF j
  <2>2. QED
    BY <1>2, <1>3, <1>5, <1>8, <1>9, <1>10, <1>11, <2>1, ProceedInv

(* restore_snapshot into a journal between calls, whatever the age of the  *)
(* snapshot: what it says about keys of this wallet the wallet knows.      *)
LEMMA RestoreInv ==
  ASSUME IInv, TypeOK', NEW w \in Wallet, RestoreBackup(w) PROVE IInv'
<1> USE DEF TypeOK
<1>1. PICK k \in archive :
        CanRestore(mem[w], k) /\ Proceed(w, "settle", Merged(mem[w], k))
  BY DEF RestoreBackup
<1>2. pc[w] = "idle" /\ Live(w) /\ "settle" \in Control
  BY DEF RestoreBackup, Live, Control
<1> DEFINE j == Merged(mem[w], k)
<1>3. mem[w] \in Journal /\ k \in Journal /\ j \in Journal
  BY MergedType DEF IInv
<1>4. /\ j.events = k.events \cup mem[w].events
      /\ j.pending \subseteq mem[w].pending \cup k.pending
      /\ \A a \in Author : /\ k.counters[a] <= j.counters[a]
                           /\ mem[w].counters[a] <= j.counters[a]
      /\ NeverForgets(mem[w], j)
  BY <1>3, MergedFacts
<1>5. j # Blank /\ (j.events = {} => j.pending \subseteq {GenesisPayload})
  BY <1>1, <1>3, RestoredFacts
<1>6. Sound(mem[w]) /\ Sound(k)
  BY DEF IInv, JournalInv, ArchiveInv
<1>7. Kept(j) \subseteq Kept(mem[w]) \cup Kept(k)
  BY <1>4 DEF Kept
<1>8. Sound(j)
  <2>1. ASSUME NEW p \in Kept(j) PROVE p.seq <= j.counters[p.ak]
    <3>1. p \in Payload
      BY <1>3, KeptType
    <3>2. \/ p.seq <= mem[w].counters[p.ak]
          \/ p.seq <= k.counters[p.ak]
      BY <1>6, <1>7 DEF Sound
    <3>3. /\ p.ak \in Author /\ p.seq \in Int
          /\ mem[w].counters[p.ak] \in Int /\ k.counters[p.ak] \in Int
          /\ j.counters[p.ak] \in Int
      BY <1>3, <3>1, LedgerConstants DEF Payload, Journal
    <3>4. QED
      BY <1>4, <3>2, <3>3
  <2>2. QED
    BY <1>4, <1>5, <1>6, <2>1 DEF Sound
<1>9. /\ \A p \in mem[w].pending : KeptByHolder(p)
      /\ \A p \in k.pending : KeptByHolder(p)
      /\ \A p \in mem[w].events \cup k.events : KeptByHolder(p)
  BY <1>2, <1>6 DEF IInv, JournalInv, ArchiveInv, HistoryInv, Sound
<1>10. w \notin cold => OneSlotEach(w, j)
  <2>1. SUFFICES ASSUME w \notin cold PROVE OneSlotEach(w, j)
    OBVIOUS
  <2>2. Trusted(w) /\ View(w) = mem[w]
    BY <1>2, <2>1 DEF Trusted, View, IInv, ControlInv
  <2>3. \A p \in Kept(j) : Holder[p.ak] = w => p \in Kept(mem[w])
    BY <1>7, <1>9, <2>2 DEF KeptByHolder, Kept
  <2>4. OneSlotEach(w, mem[w])
    BY <2>1 DEF IInv, JournalInv
  <2>5. QED
    BY <2>3, <2>4 DEF OneSlotEach, SameSlot
<1>11. QED
  <2> HIDE DEF j
  <2>1. Proceed(w, "settle", j)
    BY <1>1 DEF j
  <2>2. \A p \in j.pending : /\ KeptByHolder(p)
                             /\ \/ p \in mem[w].pending
                                \/ \E i \in archive : p \in i.pending
    BY <1>4, <1>9
  <2>3. QED
    BY <1>2, <1>3, <1>4, <1>5, <1>8, <1>10, <2>1, <2>2, ProceedInv

(* commit_signature: the signed reservation becomes an event.              *)
LEMMA CommitInv ==
  ASSUME IInv, TypeOK', NEW w \in Wallet, CommitSignature(w) PROVE IInv'
<1> USE DEF TypeOK
<1>1. /\ pc[w] = "commit" /\ Live(w) /\ mem[w] \in Journal /\ mem[w] # Blank
      /\ "settle" \in Control /\ "idle" \in Control
      /\ Sound(mem[w]) /\ mem[w].pending \subseteq signed
      /\ w \notin cold => OneSlotEach(w, mem[w])
      /\ \A p \in mem[w].pending : KeptByHolder(p)
  BY DEF CommitSignature, Live, Control, IInv, ControlInv, JournalInv
<1>2. CASE CanCommit(mem[w]) /\ Proceed(w, "settle", Committed(mem[w]))
  <2> DEFINE j == Committed(mem[w])
  <2>1. /\ j.events = Kept(mem[w]) /\ j.pending = {}
        /\ j.counters = mem[w].counters
        /\ j \in Journal
    BY <1>1, CommittedType DEF Committed, Kept, Journal
  <2>2. Sound(j)
    BY <1>1, <2>1 DEF Sound, Kept
  <2>3. NeverForgets(mem[w], j)
    <3>1. \A a \in Author : mem[w].counters[a] <= mem[w].counters[a]
      BY <1>1, NeverForgetsRefl DEF NeverForgets
    <3>2. QED
      BY <2>1, <3>1 DEF NeverForgets, Kept
  <2>4. j # Blank
    BY <1>2, <2>1 DEF CanCommit, Kept, Blank
  <2>5. w \notin cold => OneSlotEach(w, j)
    BY <1>1, <2>1 DEF OneSlotEach, Kept
  <2>6. QED
    <3> HIDE DEF j
    <3>1. Proceed(w, "settle", j)
      BY <1>2 DEF j
    <3>2. QED
      BY <1>1, <2>1, <2>2, <2>3, <2>4, <2>5, <3>1, ProceedInv
<1>3. CASE Proceed(w, "idle", mem[w])
  <2>1. NeverForgets(mem[w], mem[w])
    BY <1>1, NeverForgetsRefl
  <2>2. QED
    BY <1>1, <1>3, <2>1, ProceedInv
<1>4. QED
  BY <1>2, <1>3 DEF CommitSignature

(* init of the actor.                                                      *)
LEMMA OpenInv ==
  ASSUME IInv, TypeOK', NEW w \in Wallet, Open(w) PROVE IInv'
<1> USE DEF TypeOK
<1>1. disk[w] \in Journal /\ Blank \in Journal /\ "idle" \in Control
  BY InitialJournals DEF IInv, Control
<1>2. /\ pc' = [pc EXCEPT ![w] = "idle"]
      /\ mem' = [mem EXCEPT ![w] = disk[w]]
  BY <1>1, RestoreOwn DEF Open
<1>3. /\ UNCHANGED <<disk, archive, stored, signed, acked>>
      /\ cold \subseteq cold'
      /\ \A v \in Wallet : durable'[v] = durable[v] \/ v = w
      /\ disk[w] # Blank => durable'[w]
      /\ disk[w] = Blank => w \notin stored \/ w \in cold'
  BY DEF Open, IInv
<1>4. QED
  BY <1>1, <1>2, <1>3, RestartInv

(* The process ends, and a stopped wallet is discarded.                    *)
LEMMA VanishInv ==
  ASSUME IInv, TypeOK', NEW w \in Wallet, Crash(w) \/ Discard(w) PROVE IInv'
<1>1. Blank \in Journal /\ "down" \in Control
  BY InitialJournals DEF Control
<1>2. /\ pc' = [pc EXCEPT ![w] = "down"] /\ mem' = [mem EXCEPT ![w] = Blank]
      /\ UNCHANGED <<disk, archive, stored, signed, acked, cold>>
      /\ \A v \in Wallet : durable'[v] = durable[v] \/ v = w
  BY DEF Crash, Discard, Vanish, history, IInv, TypeOK
<1>3. QED
  BY <1>1, <1>2, RestartInv

(* A save that works, and one that fails.                                  *)
LEMMA SaveInv ==
  ASSUME IInv, TypeOK', NEW w \in Wallet,
         SaveReservation(w) \/ SaveAndAcknowledge(w)
  PROVE  IInv'
<1> USE DEF TypeOK
<1>1. mem[w] \in Journal /\ mem' = [mem EXCEPT ![w] = mem[w]]
      /\ "sign" \in Control /\ "idle" \in Control
  BY DEF SaveReservation, SaveAndAcknowledge, IInv, Control
<1>2. Saved(w) /\ UNCHANGED <<signed, cold>> /\ durable'[w]
      /\ \A v \in Wallet : durable'[v] = durable[v] \/ v = w
  BY DEF SaveReservation, SaveAndAcknowledge, IInv
<1>3. CASE SaveReservation(w)
  <2>1. pc[w] = "reserve" /\ pc' = [pc EXCEPT ![w] = "sign"] /\ acked' = acked
    BY <1>3 DEF SaveReservation
  <2>2. QED
    BY <1>1, <1>2, <2>1, SavedInv
<1>4. CASE SaveAndAcknowledge(w)
  <2>1. /\ pc[w] = "settle" /\ pc' = [pc EXCEPT ![w] = "idle"]
        /\ \A v \in Wallet : acked'[v] = acked[v]
             \/ (v = w /\ acked'[w] = acked[w] \cup mem[w].events)
    BY <1>4 DEF SaveAndAcknowledge, Acknowledge, IInv
  <2>2. QED
    BY <1>1, <1>2, <2>1, SavedInv
<1>5. QED
  BY <1>3, <1>4

LEMMA SaveFailsInv ==
  ASSUME IInv, TypeOK', NEW w \in Wallet, SaveFails(w) PROVE IInv'
<1> USE DEF TypeOK
<1>1. /\ pc[w] \in {"reserve", "settle"} /\ mem[w] # Blank
      /\ mem[w] \in Journal /\ disk[w] \in Journal /\ Live(w)
      /\ Blank \in Journal /\ "idle" \in Control /\ "stopped" \in Control
  BY InitialJournals DEF SaveFails, IInv, ControlInv, Live, Control
<1>2. PICK readable \in BOOLEAN : Reload(w, disk'[w], readable)
  BY DEF SaveFails
<1>3. UNCHANGED <<signed, acked, cold>>
  BY DEF SaveFails
<1>4. \A v \in Wallet : durable'[v] = durable[v] \/ v = w
  BY <1>2 DEF Reload, IInv
<1>5. CASE Saved(w)
  <2>1. disk'[w] = mem[w]
    BY <1>5 DEF Saved, IInv
  <2>2. CASE readable /\ CanRestore(Blank, mem[w])
    <3>1. /\ pc' = [pc EXCEPT ![w] = "idle"]
          /\ mem' = [mem EXCEPT ![w] = mem[w]]
          /\ durable'[w]
      BY <1>1, <1>2, <2>1, <2>2, RestoreOwn DEF Reload, IInv
    <3>2. QED
      BY <1>1, <1>3, <1>4, <1>5, <3>1, SavedInv
  <2>3. CASE ~(readable /\ CanRestore(Blank, mem[w]))
    <3>1. /\ pc' = [pc EXCEPT ![w] = "stopped"]
          /\ mem' = [mem EXCEPT ![w] = Blank]
      BY <1>1, <1>2, <2>1, <2>3 DEF Reload
    <3>2. QED
      BY <1>1, <1>3, <1>4, <1>5, <3>1, SavedInv
  <2>4. QED
    BY <2>2, <2>3
<1>6. CASE UNCHANGED <<disk, archive, stored>>
  <2>1. CASE readable /\ disk[w] # Blank /\ CanRestore(Blank, disk[w])
    <3>1. /\ pc' = [pc EXCEPT ![w] = "idle"]
          /\ mem' = [mem EXCEPT ![w] = disk[w]]
          /\ durable'[w]
      BY <1>1, <1>2, <1>6, <2>1, RestoreOwn DEF Reload, IInv
    <3>2. QED
      BY <1>1, <1>3, <1>4, <1>6, <2>1, <3>1, RestartInv
  <2>2. CASE readable /\ disk[w] = Blank /\ ~durable[w]
    <3>1. /\ pc' = [pc EXCEPT ![w] = "idle"]
          /\ mem' = [mem EXCEPT ![w] = Blank]
      BY <1>2, <1>6, <2>2 DEF Reload
    <3>2. w \notin stored \/ w \in cold'
      BY <1>1, <1>3, <2>2 DEF IInv, FreshInv
    <3>3. QED
      BY <1>1, <1>3, <1>4, <1>6, <2>2, <3>1, <3>2, RestartInv
  <2>3. CASE /\ ~(readable /\ disk[w] # Blank /\ CanRestore(Blank, disk[w]))
             /\ ~(readable /\ disk[w] = Blank /\ ~durable[w])
    <3>1. /\ pc' = [pc EXCEPT ![w] = "stopped"]
          /\ mem' = [mem EXCEPT ![w] = Blank]
      BY <1>2, <1>6, <2>3 DEF Reload
    <3>2. QED
      BY <1>1, <1>3, <1>4, <1>6, <3>1, RestartInv
  <2>4. QED
    BY <2>1, <2>2, <2>3
<1>7. QED
  BY <1>5, <1>6 DEF SaveFails

(* The signer is called.                                                   *)
LEMMA SignInv ==
  ASSUME IInv, TypeOK', NEW w \in Wallet, Sign(w) \/ SignerFails(w) PROVE IInv'
<1>1. CASE Sign(w)
  BY <1>1, SignedInv DEF Sign
<1>2. CASE SignerFails(w)
  BY <1>2, SignedInv DEF SignerFails
<1>3. QED
  BY <1>1, <1>2

LEMMA InvStep == IInv /\ [Next]_vars => IInv'
<1> SUFFICES ASSUME IInv, [Next]_vars PROVE IInv'
  OBVIOUS
<1>1. TypeOK'
  BY TypeStep DEF IInv
<1>2. CASE UNCHANGED vars
  BY <1>2 DEF vars, history, bounds, IInv, TypeOK, ArchiveInv, JournalInv,
     ControlInv, FreshInv, HistoryInv, Sound, KeptByHolder, Trusted, View, Live,
     Kept, OneSlotEach, SameSlot, NeverForgets, NoEquivocation
<1>3. CASE Next
  BY <1>1, <1>3, OpenInv, VanishInv, LossInv, InitializeInv, RequestInv,
     ImportInv, RestoreInv, SaveInv, SaveFailsInv, SignInv, CommitInv DEF Next
<1>4. QED
  BY <1>2, <1>3

(* The inductive invariant holds in every behavior of the wallets.         *)
THEOREM InvCorrect == Spec => []IInv
BY InvInit, InvStep, PTL DEF Spec

-----------------------------------------------------------------------------
(* What follows from it.                                                   *)

(* No sequence number is signed for two payloads (prepare,                 *)
(* restore_snapshot, finish).                                              *)
THEOREM NeverEquivocates == Spec => []NoEquivocation
<1>1. IInv => NoEquivocation
  BY DEF IInv, HistoryInv
<1>2. QED
  BY <1>1, InvCorrect, PTL

(* What is signed is in the stored snapshot (finish saves before it        *)
(* signs), for good (restore_snapshot, import_transfer).                   *)
THEOREM WritesAhead == Spec => []WriteAhead
<1>1. IInv => WriteAhead
  <2>1. SUFFICES ASSUME IInv, NEW p \in signed, Holder[p.ak] \notin cold,
                        disk[Holder[p.ak]] # Blank
                 PROVE  p \in Kept(disk[Holder[p.ak]])
    BY DEF WriteAhead, Kept
  <2>2. KeptByHolder(p)
    BY <2>1 DEF IInv, HistoryInv
  <2>3. QED
    BY <2>1, <2>2 DEF KeptByHolder, Trusted, View
<1>2. QED
  BY <1>1, InvCorrect, PTL

(* What a receipt reported is in the stored snapshot (finish, persist).    *)
THEOREM ReceiptsStay == Spec => []ReceiptsDurable
<1>1. IInv => ReceiptsDurable
  BY DEF IInv, HistoryInv, ReceiptsDurable, Trusted, View
<1>2. QED
  BY <1>1, InvCorrect, PTL

(* The stored snapshot changes only to one that knows more.                *)
LEMMA DiskStep ==
  ASSUME IInv, Next, NEW w \in Wallet, disk'[w] # disk[w], disk'[w] # Blank
  PROVE  disk'[w] = mem[w] /\ pc[w] \in {"reserve", "settle"}
<1> USE DEF TypeOK
<1>1. ASSUME NEW v \in Wallet, Saved(v), pc[v] \in {"reserve", "settle"}
      PROVE  disk'[w] = mem[w] /\ pc[w] \in {"reserve", "settle"}
  BY <1>1 DEF Saved, IInv
<1>2. ASSUME NEW v \in Wallet, LoseSnapshot(v) PROVE FALSE
  BY <1>2 DEF LoseSnapshot, IInv
<1>3. ASSUME NEW v \in Wallet, NEW a \in Author, NEW op \in Op,
             NEW body \in Requests(a), Request(v, a, op, body)
      PROVE  disk' = disk
  BY <1>3 DEF Request, AnswerAlreadyCommitted, Proceed
<1>4. ASSUME NEW v \in Wallet,
             \/ Open(v) \/ Crash(v) \/ Discard(v)
             \/ Initialize(v) \/ ImportTransfer(v) \/ RestoreBackup(v)
             \/ Sign(v) \/ SignerFails(v) \/ CommitSignature(v)
      PROVE  disk' = disk
  BY <1>4 DEF Open, Crash, Discard, Initialize, ImportTransfer, RestoreBackup,
     Sign, SignerFails, CommitSignature, AnswerAlreadyCommitted, Proceed
<1>5. ASSUME NEW v \in Wallet,
             SaveReservation(v) \/ SaveAndAcknowledge(v) \/ SaveFails(v)
      PROVE  disk' = disk \/ (Saved(v) /\ pc[v] \in {"reserve", "settle"})
  BY <1>5 DEF SaveReservation, SaveAndAcknowledge, SaveFails
<1>6. QED
  BY <1>1, <1>2, <1>3, <1>4, <1>5 DEF Next

(* A stored snapshot is never replaced by one that knows less.             *)
THEOREM StorageGrows == Spec => DurableNeverForgets
<1>1. IInv /\ [Next]_vars =>
        [\A w \in Wallet : disk'[w] # Blank => NeverForgets(disk[w], disk'[w])]_vars
  <2>1. SUFFICES ASSUME IInv, Next, NEW w \in Wallet, disk'[w] # Blank
                 PROVE  NeverForgets(disk[w], disk'[w])
    OBVIOUS
  <2>2. disk[w] \in Journal /\ mem[w] \in Journal
    BY <2>1 DEF IInv, TypeOK
  <2>3. CASE disk'[w] = disk[w]
    BY <2>2, <2>3, NeverForgetsRefl
  <2>4. CASE disk'[w] # disk[w]
    <3>1. disk'[w] = mem[w] /\ Live(w)
      BY <2>1, <2>4, DiskStep DEF Live
    <3>2. NeverForgets(disk[w], mem[w])
      BY <2>1, <2>2, <3>1, NeverForgetsBlank DEF IInv, ControlInv
    <3>3. QED
      BY <3>1, <3>2
  <2>5. QED
    BY <2>3, <2>4
<1>2. QED
  BY <1>1, InvCorrect, PTL DEF Spec, DurableNeverForgets

(* A running wallet is read-only when its storage is.                      *)
ReadOnlyKept == \A w \in Wallet : Live(w) /\ disk[w].readOnly => mem[w].readOnly

LEMMA ReadOnlyProceed ==
  ASSUME IInv, ReadOnlyKept, NEW w \in Wallet, Live(w), NEW step, NEW j,
         Proceed(w, step, j), mem[w].readOnly => j.readOnly, step \in Control
  PROVE  ReadOnlyKept'
<1>1. /\ pc' = [pc EXCEPT ![w] = step] /\ mem' = [mem EXCEPT ![w] = j]
      /\ disk' = disk
  BY DEF Proceed
<1>2. pc \in [Wallet -> Control] /\ mem \in [Wallet -> Journal]
  BY DEF IInv, TypeOK
<1>3. ASSUME NEW v \in Wallet, Live(v)', disk[v].readOnly PROVE mem'[v].readOnly
  <2>1. CASE v = w
    BY <1>1, <1>2, <1>3, <2>1 DEF ReadOnlyKept
  <2>2. CASE v # w
    BY <1>1, <1>2, <1>3, <2>2 DEF ReadOnlyKept, Live
  <2>3. QED
    BY <2>1, <2>2
<1>4. QED
  BY <1>1, <1>3 DEF ReadOnlyKept

(* The operations of a journal keep it read-only.                          *)
LEMMA ReadOnlyOperations ==
  ASSUME NEW j \in Journal, j.readOnly
  PROVE  /\ \A a, s, op, body : Reserved(j, a, s, op, body).readOnly
         /\ Committed(j).readOnly
         /\ \A in : Merged(j, in).readOnly
         /\ \A E, c : Imported(j, E, c).readOnly
BY DEF Reserved, Committed, Merged, MergedReadOnly, Imported, Journal

LEMMA ReadOnlyStep == IInv /\ ReadOnlyKept /\ [Next]_vars => ReadOnlyKept'
<1> SUFFICES ASSUME IInv, ReadOnlyKept, [Next]_vars PROVE ReadOnlyKept'
  OBVIOUS
<1>1. pc \in [Wallet -> Control] /\ mem \in [Wallet -> Journal]
      /\ disk \in [Wallet -> Journal]
  BY DEF IInv, TypeOK
<1>2. /\ \A w \in Wallet : pc[w] \in {"idle", "commit"} => Live(w)
      /\ {"idle", "reserve", "settle"} \subseteq Control
      /\ ~Blank.readOnly
  BY DEF Live, Control, Blank
<1>3. CASE UNCHANGED vars
  BY <1>3 DEF vars, ReadOnlyKept, Live
<1>4. ASSUME NEW w \in Wallet, NEW m, NEW step,
             mem' = [mem EXCEPT ![w] = m], pc' = [pc EXCEPT ![w] = step],
             \A v \in Wallet \ {w} : disk'[v] = disk[v],
             step \notin {"down", "stopped"} /\ disk'[w].readOnly => m.readOnly
      PROVE  ReadOnlyKept'
  <2>1. ASSUME NEW v \in Wallet, Live(v)', disk'[v].readOnly PROVE mem'[v].readOnly
    <3>1. CASE v = w
      BY <1>1, <1>4, <2>1, <3>1 DEF Live
    <3>2. CASE v # w
      BY <1>1, <1>4, <2>1, <3>2 DEF Live, ReadOnlyKept
    <3>3. QED
      BY <3>1, <3>2
  <2>2. QED
    BY <2>1 DEF ReadOnlyKept
<1>5. ASSUME NEW w \in Wallet, Open(w) PROVE ReadOnlyKept'
  <2>1. /\ mem' = [mem EXCEPT ![w] = disk[w]] /\ pc' = [pc EXCEPT ![w] = "idle"]
        /\ disk' = disk
    BY <1>1, <1>5, RestoreOwn DEF Open
  <2>2. QED
    BY <1>4, <2>1
<1>6. ASSUME NEW w \in Wallet, Crash(w) \/ Discard(w) PROVE ReadOnlyKept'
  <2>1. /\ mem' = [mem EXCEPT ![w] = Blank] /\ pc' = [pc EXCEPT ![w] = "down"]
        /\ disk' = disk
    BY <1>6 DEF Crash, Discard, Vanish
  <2>2. QED
    BY <1>4, <2>1
<1>7. ASSUME NEW w \in Wallet, LoseSnapshot(w) PROVE ReadOnlyKept'
  BY <1>1, <1>2, <1>7 DEF LoseSnapshot, ReadOnlyKept, Live
<1>8. ASSUME NEW w \in Wallet, AnswerAlreadyCommitted(w) PROVE ReadOnlyKept'
  BY <1>8 DEF AnswerAlreadyCommitted, ReadOnlyKept, Live
<1>9. ASSUME NEW w \in Wallet, Initialize(w) PROVE ReadOnlyKept'
  BY <1>1, <1>2, <1>8, <1>9, ReadOnlyProceed DEF Initialize
<1>10. ASSUME NEW w \in Wallet, NEW a \in Author, NEW op \in Op,
              NEW body \in Requests(a), Request(w, a, op, body)
       PROVE  ReadOnlyKept'
  BY <1>1, <1>2, <1>8, <1>10, ReadOnlyProceed, ReadOnlyOperations DEF Request
<1>11. ASSUME NEW w \in Wallet,
              ImportTransfer(w) \/ RestoreBackup(w) \/ CommitSignature(w)
       PROVE  ReadOnlyKept'
  BY <1>1, <1>2, <1>11, ReadOnlyProceed, ReadOnlyOperations
  DEF ImportTransfer, RestoreBackup, CommitSignature
<1>12. ASSUME NEW w \in Wallet,
              SaveReservation(w) \/ SaveAndAcknowledge(w)
       PROVE  ReadOnlyKept'
  <2>1. PICK step \in Control :
          /\ disk' = [disk EXCEPT ![w] = mem[w]]
          /\ mem' = [mem EXCEPT ![w] = mem[w]]
          /\ pc' = [pc EXCEPT ![w] = step]
    BY <1>1, <1>12 DEF SaveReservation, SaveAndAcknowledge, Saved, Control
  <2>2. QED
    BY <1>1, <1>4, <2>1
<1>13. ASSUME NEW w \in Wallet, SaveFails(w) PROVE ReadOnlyKept'
  <2>1. /\ disk'[w] \in Journal
        /\ \A v \in Wallet \ {w} : disk'[v] = disk[v]
    BY <1>1, <1>13 DEF SaveFails, Saved
  <2>2. PICK readable \in BOOLEAN : Reload(w, disk'[w], readable)
    BY <1>13 DEF SaveFails
  <2>3. PICK m, step :
          /\ mem' = [mem EXCEPT ![w] = m] /\ pc' = [pc EXCEPT ![w] = step]
          /\ \/ m = disk'[w]
             \/ step = "stopped"
             \/ disk'[w] = Blank
    <3>1. CASE readable /\ disk'[w] # Blank /\ CanRestore(Blank, disk'[w])
      BY <2>1, <2>2, <3>1, RestoreOwn DEF Reload
    <3>2. CASE readable /\ disk'[w] = Blank /\ ~durable[w]
      BY <2>2, <3>2 DEF Reload
    <3>3. CASE /\ ~(readable /\ disk'[w] # Blank /\ CanRestore(Blank, disk'[w]))
               /\ ~(readable /\ disk'[w] = Blank /\ ~durable[w])
      BY <2>2, <3>3 DEF Reload
    <3>4. QED
      BY <3>1, <3>2, <3>3
  <2>4. QED
    BY <1>2, <1>4, <2>1, <2>3
<1>14. ASSUME NEW w \in Wallet, Sign(w) \/ SignerFails(w) PROVE ReadOnlyKept'
  BY <1>1, <1>2, <1>14 DEF Sign, SignerFails, ReadOnlyKept, Live
<1>15. QED
  BY <1>3, <1>5, <1>6, <1>7, <1>9, <1>10, <1>11, <1>12, <1>13, <1>14 DEF Next

(* A wallet that began as a public import never stores a writer's journal  *)
(* (import_transfer, restore_snapshot).                                    *)
THEOREM ReplicasStay == Spec => ReadOnlyStays
<1>1. Init => ReadOnlyKept
  BY DEF Init, ReadOnlyKept, Live
<1>2. IInv /\ ReadOnlyKept /\ [Next]_vars =>
        [\A w \in Wallet :
           disk[w].readOnly /\ disk'[w] # Blank => disk'[w].readOnly]_vars
  <2>1. SUFFICES ASSUME IInv, ReadOnlyKept, Next, NEW w \in Wallet,
                        disk[w].readOnly, disk'[w] # Blank
                 PROVE  disk'[w].readOnly
    OBVIOUS
  <2>2. CASE disk'[w] = disk[w]
    BY <2>1, <2>2
  <2>3. CASE disk'[w] # disk[w]
    <3>1. disk'[w] = mem[w] /\ Live(w)
      BY <2>1, <2>3, DiskStep DEF Live
    <3>2. QED
      BY <2>1, <3>1 DEF ReadOnlyKept
  <2>4. QED
    BY <2>2, <2>3
<1>3. QED
  BY <1>1, <1>2, InvCorrect, ReadOnlyStep, PTL DEF Spec, ReadOnlyStays

-----------------------------------------------------------------------------
(* What a journal holds can be restored and committed.                     *)

(* validate_state accepts the journal, its events are finitely many, and   *)
(* its reservation is one that prepare may have made: there is at most     *)
(* one, and it grants no key to the root.                                  *)
Usable(j) ==
  /\ ValidState(j)
  /\ IsFiniteSet(j.events)
  /\ \A p, q \in j.pending : p = q
  /\ \A p \in j.pending : p.body.kind = "DeviceKeyGrant" => p.body.device # Root

UsableInv ==
  /\ \A j \in archive : Usable(j)
  /\ \A w \in Wallet :
       /\ mem[w] # Blank => Usable(mem[w])
       /\ pc[w] \in {"reserve", "sign", "commit"} => mem[w].pending # {}

(* The sum over no payload, the one sum these proofs depend on.            *)
LEMMA EmptySum == MapThenSumSet(LAMBDA p : p.body.kcal, {}) = 0
<1> DEFINE Iter(g) ==
      g = [s \in SUBSET {} |->
             IF s = {} THEN 0
             ELSE (CHOOSE x \in s : TRUE).body.kcal + g[s \ {CHOOSE x \in s : TRUE}]]
<1>1. Iter([s \in SUBSET {} |-> 0])
  OBVIOUS
<1>2. Iter(CHOOSE g : Iter(g))
  BY <1>1
<1>3. (CHOOSE g : Iter(g))[{}] = 0
  BY <1>2
<1>4. QED
  BY <1>3 DEF MapThenSumSet, MapThenFoldSet

(* The genesis payload alone is a ledger (initialize).                     *)
LEMMA GenesisVerified == Verified({GenesisPayload})
<1> DEFINE E == {GenesisPayload}
<1>1. /\ GenesisPayload.ak = Root /\ GenesisPayload.body.kind = "LedgerGenesis"
      /\ GenesisPayload.seq = 0
  BY DEF GenesisPayload, MakePayload, GenesisBody
<1>2. Named(E, "DeviceKeyGrant") = {}
  BY <1>1 DEF Named
<1>3. Counted(E) = {}
  BY <1>1 DEF Counted, Effective
<1>4. Total(E) = 0
  BY <1>3, EmptySum DEF Total
<1>5. Cardinality(E) = 1
  BY FS_Singleton
<1>6. 1 <= MaxEvents /\ 0 <= MaxSum
  BY LedgerConstants
<1>7. Evaluates(E)
  BY <1>1, <1>4, <1>5, <1>6 DEF Evaluates
<1>8. QED
  BY <1>1, <1>2, <1>7 DEF Verified, Known

(* commit_signature never refuses the reservation of a usable journal.     *)
LEMMA UsableCommits ==
  ASSUME NEW j \in Journal, Usable(j), j.pending # {}
  PROVE  CanCommit(j)
<1>1. PICK p : j.pending = {p}
  BY DEF Usable
<1>2. ValidPending(j, p) /\ (p.body.kind = "DeviceKeyGrant" => p.body.device # Root)
  BY <1>1 DEF Usable, ValidState
<1>3. CASE p.body.kind = "LedgerGenesis"
  <2>1. j.events \cup j.pending = {GenesisPayload}
    BY <1>1, <1>2, <1>3 DEF ValidPending
  <2>2. QED
    BY <2>1, GenesisVerified DEF CanCommit
<1>4. CASE p.body.kind # "LedgerGenesis"
  <2>1. PICK E : E = j.events /\ E # {} /\ Verified(E) /\ Evaluates(E \cup {p})
                  /\ p.ak \in Authorized(E)
    BY <1>2, <1>4 DEF ValidPending, Usable, ValidState
  <2>2. \A kind : Named(E, kind) \subseteq Named(E \cup {p}, kind)
    BY DEF Named
  <2>3. Granted(E) \subseteq Named(E, "DeviceKeyGrant")
    BY DEF Granted, Effective, Named
  <2>4. p.ak \in Known(E \cup {p}) /\ \A q \in E : q.ak \in Known(E \cup {p})
    BY <2>1, <2>2, <2>3 DEF Authorized, Known, Verified
  <2>5. Root \notin Named(E \cup {p}, "DeviceKeyGrant")
    BY <1>2, <2>1 DEF Verified, Named
  <2>6. Verified(E \cup {p})
    BY <2>1, <2>4, <2>5 DEF Verified
  <2>7. QED
    BY <1>1, <2>1, <2>6 DEF CanCommit
<1>5. QED
  BY <1>3, <1>4

(* A usable journal is restored from its snapshot by a new process.        *)
LEMMA UsableRestores ==
  ASSUME NEW j \in Journal, Usable(j)
  PROVE  CanRestore(Blank, j) /\ Merged(Blank, j) = j
<1>1. ValidState(j)
  BY DEF Usable
<1>2. Cardinality(j.events) <= MaxEvents /\ Cardinality(j.events) \in Int
  <2>1. CASE j.events = {}
    BY <2>1, FS_EmptySet, LedgerConstants
  <2>2. CASE j.events # {}
    BY <1>1, <2>2, FS_CardinalityType DEF Usable, ValidState, Verified, Evaluates
  <2>3. QED
    BY <2>1, <2>2
<1>3. ListFits(Cardinality(j.events) + Cardinality(Blank.events))
  BY <1>2, FS_EmptySet DEF ListFits, Blank
<1>4. Merged(Blank, j) = j
  BY <1>1, ValidMerges
<1>5. QED
  BY <1>1, <1>3, <1>4 DEF CanRestore

-----------------------------------------------------------------------------
(* The operations of the journal keep it usable.                           *)

(* The genesis reservation alone is a usable journal.                      *)
LEMMA UsableGenesis == Usable(GenesisJournal)
<1>1. /\ GenesisPayload.ak = Root /\ GenesisPayload.seq = 0
      /\ GenesisPayload.body.kind = "LedgerGenesis"
      /\ GenesisJournal.events = {} /\ GenesisJournal.pending = {GenesisPayload}
      /\ GenesisJournal.counters[Root] = 0 /\ GenesisJournal.readOnly = FALSE
  BY LedgerConstants
  DEF GenesisPayload, MakePayload, GenesisBody, GenesisJournal
<1>2. ValidPending(GenesisJournal, GenesisPayload)
  BY <1>1 DEF ValidPending
<1>3. ValidState(GenesisJournal)
  BY <1>1, <1>2 DEF ValidState
<1>4. QED
  BY <1>1, <1>3, FS_EmptySet DEF Usable

(* A reservation request grants the root nothing and takes a new slot.     *)
LEMMA UsableReserved ==
  ASSUME NEW j \in Journal, Usable(j), NEW a \in Author, NEW s \in 1..MaxSeq,
         NEW op \in Op, NEW body \in Requests(a), CanReserve(j, a, s, op, body)
  PROVE  Usable(Reserved(j, a, s, op, body)) /\ Reserved(j, a, s, op, body).pending # {}
<1>1. PICK p, k : p = MakePayload(a, s, op, body) /\ k = Reserved(j, a, s, op, body)
  OBVIOUS
<1>2. p.ak = a /\ p.seq = s /\ p.op = op /\ p.body = body
  BY <1>1 DEF MakePayload
<1>3. /\ k.events = j.events /\ k.pending = {p} /\ k.readOnly = j.readOnly
      /\ k.counters = [j.counters EXCEPT ![a] = s]
  BY <1>1 DEF Reserved, Journal
<1>4. /\ ~j.readOnly /\ j.events # {} /\ CommittedAs(j, a, op) = {}
      /\ a \in Authorized(j.events) /\ Evaluates(j.events \cup {p})
      /\ \A q \in j.events : q.ak = a => q.seq < s
  BY <1>1 DEF CanReserve, MayPrepare, Writable, IsNextSeq
<1>5. /\ j.counters \in [Author -> -1..MaxSeq]
      /\ \A q \in j.events : q.ak \in Author /\ q.seq \in Nat /\ q.seq <= j.counters[q.ak]
  BY LedgerConstants DEF Journal, Payload, Usable, ValidState
<1>6. k.counters[a] = s /\ \A q \in j.events : q.seq <= k.counters[q.ak]
  BY <1>3, <1>4, <1>5
<1>7. /\ body.kind # "LedgerGenesis"
      /\ body.kind = "DeviceKeyGrant" => body.device # Root
  BY DEF Requests, IntakeBody, GrantBody, RevokeBody, Device
<1>8. \A q \in j.events : ~SameSlot(p, q) /\ ~SameOperation(p, q)
  BY <1>2, <1>4, <1>5 DEF SameSlot, SameOperation, CommittedAs
<1>9. ValidPending(k, p)
  BY <1>2, <1>3, <1>4, <1>6, <1>7, <1>8 DEF ValidPending
<1>10. ValidState(k)
  BY <1>3, <1>6, <1>9 DEF ValidState, Usable
<1>11. QED
  BY <1>1, <1>2, <1>3, <1>7, <1>10 DEF Usable

(* An import leaves no reservation and a verified history.                 *)
LEMMA UsableImported ==
  ASSUME NEW j \in Journal, IsFiniteSet(j.events), NEW E \in SUBSET Payload,
         IsFiniteSet(E), CanImport(j, E),
         NEW c, IsRaised(j.counters, j.events \cup E, c)
  PROVE  Usable(Imported(j, E, c))
<1>1. PICK k : k = Imported(j, E, c)
  OBVIOUS
<1>2. k.events = j.events \cup E /\ k.pending = {} /\ k.counters = c
  BY <1>1 DEF Imported
<1>3. E # {} /\ Verified(j.events \cup E) /\ IsFiniteSet(j.events \cup E)
  BY FS_Union DEF CanImport, Verified
<1>4. ValidState(k)
  BY <1>2, <1>3 DEF ValidState, IsRaised
<1>5. QED
  BY <1>1, <1>2, <1>3, <1>4 DEF Usable

(* A merge has its reservation from one side and its check at the end.     *)
LEMMA UsableMerged ==
  ASSUME NEW cur \in Journal, NEW in \in Journal, CanRestore(cur, in),
         cur # Blank => Usable(cur), Usable(in)
  PROVE  Usable(Merged(cur, in))
<1>1. PICK k : k = Merged(cur, in)
  OBVIOUS
<1>2. /\ k.events = in.events \cup cur.events
      /\ k.pending \subseteq cur.pending \/ k.pending \subseteq in.pending
  BY <1>1 DEF Merged, MergedEvents, MergedPending
<1>3. Blank.events = {} /\ Blank.pending = {}
  BY DEF Blank
<1>4. /\ IsFiniteSet(cur.events) /\ IsFiniteSet(in.events)
      /\ \A j \in {cur, in} :
           /\ \A p, q \in j.pending : p = q
           /\ \A p \in j.pending : p.body.kind = "DeviceKeyGrant" => p.body.device # Root
  BY <1>3, FS_EmptySet DEF Usable
<1>5. IsFiniteSet(k.events)
  BY <1>2, <1>4, FS_Union
<1>6. ValidState(k)
  BY <1>1 DEF CanRestore
<1>7. QED
  BY <1>1, <1>2, <1>4, <1>5, <1>6 DEF Usable

(* A commit moves the reservation into the history it was checked with.    *)
LEMMA UsableCommitted ==
  ASSUME NEW j \in Journal, Usable(j), CanCommit(j)
  PROVE  Usable(Committed(j))
<1>1. PICK k : k = Committed(j)
  OBVIOUS
<1>2. /\ k.events = j.events \cup j.pending /\ k.pending = {}
      /\ k.counters = j.counters
  BY <1>1 DEF Committed, Journal
<1>3. PICK p : j.pending = {p}
  BY DEF CanCommit, Usable
<1>4. IsFiniteSet(k.events)
  <2>1. IsFiniteSet(j.events) /\ IsFiniteSet({p})
    BY FS_Singleton DEF Usable
  <2>2. IsFiniteSet(j.events \cup {p})
    BY <2>1, FS_Union
  <2>3. QED
    BY <1>2, <1>3, <2>2
<1>5. p.seq <= j.counters[p.ak]
  BY <1>3 DEF Usable, ValidState, ValidPending
<1>6. Verified(k.events) /\ k.events # {}
  BY <1>2 DEF CanCommit
<1>7. ValidState(k)
  BY <1>2, <1>3, <1>5, <1>6 DEF ValidState, Usable
<1>8. QED
  BY <1>1, <1>2, <1>4, <1>7 DEF Usable

(* A step that changes one wallet, and saves what it has in memory.        *)
LEMMA UsableMoves ==
  ASSUME TypeOK, UsableInv, NEW w \in Wallet, NEW m, NEW step,
         mem' = [mem EXCEPT ![w] = m], pc' = [pc EXCEPT ![w] = step],
         m # Blank => Usable(m),
         step \in {"reserve", "sign", "commit"} => m.pending # {},
         \/ archive' = archive
         \/ archive' = archive \cup {mem[w]} /\ mem[w] # Blank
  PROVE  UsableInv'
<1>1. /\ mem'[w] = m /\ pc'[w] = step
      /\ \A v \in Wallet \ {w} : mem'[v] = mem[v] /\ pc'[v] = pc[v]
  BY DEF TypeOK
<1>2. \A j \in archive' : Usable(j)
  BY DEF UsableInv
<1>3. ASSUME NEW v \in Wallet
      PROVE  /\ mem'[v] # Blank => Usable(mem'[v])
             /\ pc'[v] \in {"reserve", "sign", "commit"} => mem'[v].pending # {}
  <2>1. CASE v = w
    BY <1>1, <2>1
  <2>2. CASE v # w
    BY <1>1, <2>2 DEF UsableInv
  <2>3. QED
    BY <2>1, <2>2
<1>4. QED
  BY <1>2, <1>3 DEF UsableInv

(* An action that touches neither the journals nor the archive.            *)
LEMMA UsableSame ==
  ASSUME UsableInv, UNCHANGED <<mem, archive>>,
         \A w \in Wallet :
           pc'[w] \in {"reserve", "sign", "commit"} =>
             pc[w] \in {"reserve", "sign", "commit"}
  PROVE  UsableInv'
BY DEF UsableInv

(* The calls and effects of a wallet, one by one.                          *)
LEMMA UsableOpen ==
  ASSUME IInv, UsableInv, NEW w \in Wallet, Open(w) PROVE UsableInv'
<1>1. TypeOK /\ disk[w] \in Journal /\ (disk[w] # Blank => disk[w] \in archive)
  BY DEF IInv, TypeOK, ControlInv
<1>2. /\ mem' = [mem EXCEPT ![w] = disk[w]] /\ pc' = [pc EXCEPT ![w] = "idle"]
      /\ archive' = archive
  BY <1>1, RestoreOwn DEF Open
<1>3. disk[w] # Blank => Usable(disk[w])
  BY <1>1 DEF UsableInv
<1>4. QED
  BY <1>1, <1>2, <1>3, UsableMoves

LEMMA UsableProceeds ==
  ASSUME IInv, UsableInv, NEW w \in Wallet, NEW step, NEW j, Proceed(w, step, j),
         j # Blank => Usable(j),
         step \in {"reserve", "sign", "commit"} => j.pending # {}
  PROVE  UsableInv'
BY UsableMoves DEF Proceed, IInv

LEMMA UsableInitialize ==
  ASSUME IInv, UsableInv, NEW w \in Wallet, Initialize(w) PROVE UsableInv'
<1>1. CASE AnswerAlreadyCommitted(w)
  BY <1>1, UsableSame DEF AnswerAlreadyCommitted
<1>2. CASE Proceed(w, "reserve", GenesisJournal)
  <2>1. GenesisJournal.pending # {}
    BY DEF GenesisJournal
  <2>2. QED
    BY <1>2, <2>1, UsableGenesis, UsableProceeds
<1>3. CASE mem[w] # Blank /\ mem[w].events = {} /\ Proceed(w, "reserve", mem[w])
  <2>1. Usable(mem[w]) /\ mem[w].pending # {}
    BY <1>3 DEF UsableInv, Usable, ValidState
  <2>2. QED
    BY <1>3, <2>1, UsableProceeds
<1>4. QED
  BY <1>1, <1>2, <1>3 DEF Initialize

LEMMA UsableRequest ==
  ASSUME IInv, UsableInv, NEW w \in Wallet, NEW a \in Author, NEW op \in Op,
         NEW body \in Requests(a), Request(w, a, op, body)
  PROVE  UsableInv'
<1>1. mem[w] \in Journal
  BY DEF IInv, TypeOK
<1>2. CASE AnswerAlreadyCommitted(w)
  BY <1>2, UsableSame DEF AnswerAlreadyCommitted
<1>3. CASE CanResume(mem[w], a, op, body) /\ Proceed(w, "reserve", mem[w])
  <2>1. mem[w].pending # {} /\ (mem[w] # Blank => Usable(mem[w]))
    BY <1>3 DEF CanResume, UsableInv
  <2>2. QED
    BY <1>3, <2>1, UsableProceeds
<1>4. ASSUME NEW s \in 1..MaxSeq, CanReserve(mem[w], a, s, op, body),
             Proceed(w, "reserve", Reserved(mem[w], a, s, op, body))
      PROVE  UsableInv'
  <2>1. mem[w] # Blank
    BY <1>4 DEF CanReserve, MayPrepare, Writable, Blank
  <2>2. Usable(mem[w])
    BY <2>1 DEF UsableInv
  <2>3. QED
    BY <1>1, <1>4, <2>2, UsableReserved, UsableProceeds
<1>5. QED
  BY <1>2, <1>3, <1>4 DEF Request

LEMMA UsableImport ==
  ASSUME IInv, UsableInv, NEW w \in Wallet, ImportTransfer(w) PROVE UsableInv'
<1>1. PICK E \in Transfers, c \in [Author -> -1..MaxSeq] :
        /\ CanImport(mem[w], E)
        /\ IsRaised(mem[w].counters, mem[w].events \cup E, c)
        /\ Proceed(w, "settle", Imported(mem[w], E, c))
  BY DEF ImportTransfer
<1>2. PICK k \in archive : E = k.events
  BY DEF Transfers
<1>3. /\ mem[w] \in Journal /\ k \in Journal /\ Usable(k)
      /\ mem[w] # Blank => Usable(mem[w])
  BY DEF IInv, TypeOK, UsableInv
<1>4. IsFiniteSet(mem[w].events) /\ IsFiniteSet(E) /\ E \in SUBSET Payload
  <2>1. IsFiniteSet(Blank.events)
    BY FS_EmptySet DEF Blank
  <2>2. IsFiniteSet(mem[w].events)
    BY <1>3, <2>1 DEF Usable
  <2>3. QED
    BY <1>2, <1>3, <2>2 DEF Usable, Journal
<1>5. Usable(Imported(mem[w], E, c))
  BY <1>1, <1>3, <1>4, UsableImported
<1>6. QED
  BY <1>1, <1>5, UsableProceeds

LEMMA UsableRestore ==
  ASSUME IInv, UsableInv, NEW w \in Wallet, RestoreBackup(w) PROVE UsableInv'
<1>1. PICK j \in archive : CanRestore(mem[w], j)
                           /\ Proceed(w, "settle", Merged(mem[w], j))
  BY DEF RestoreBackup
<1>2. /\ mem[w] \in Journal /\ j \in Journal /\ Usable(j)
      /\ mem[w] # Blank => Usable(mem[w])
  BY DEF IInv, TypeOK, UsableInv
<1>3. QED
  BY <1>1, <1>2, UsableMerged, UsableProceeds

LEMMA UsableSave ==
  ASSUME IInv, UsableInv, NEW w \in Wallet,
         SaveReservation(w) \/ SaveAndAcknowledge(w)
  PROVE  UsableInv'
<1>1. TypeOK /\ mem[w] # Blank /\ Usable(mem[w])
      /\ (pc[w] = "reserve" => mem[w].pending # {})
  BY DEF SaveReservation, SaveAndAcknowledge, IInv, ControlInv, UsableInv
<1>2. PICK step :
        /\ step = "idle" \/ (step = "sign" /\ pc[w] = "reserve")
        /\ mem' = [mem EXCEPT ![w] = mem[w]] /\ pc' = [pc EXCEPT ![w] = step]
        /\ archive' = archive \cup {mem[w]}
  BY <1>1 DEF SaveReservation, SaveAndAcknowledge, Saved, TypeOK
<1>3. QED
  BY <1>1, <1>2, UsableMoves

LEMMA UsableSaveFails ==
  ASSUME IInv, UsableInv, NEW w \in Wallet, SaveFails(w) PROVE UsableInv'
<1>1. /\ TypeOK /\ mem[w] # Blank /\ Usable(mem[w])
      /\ mem[w] \in Journal /\ disk[w] \in Journal
      /\ disk[w] # Blank => disk[w] \in archive
  BY DEF SaveFails, IInv, ControlInv, UsableInv, TypeOK
<1>2. /\ archive' = archive \/ archive' = archive \cup {mem[w]}
      /\ disk'[w] \in {disk[w], mem[w]}
  BY <1>1 DEF SaveFails, Saved, TypeOK
<1>3. disk'[w] \in Journal /\ (disk'[w] # Blank => Usable(disk'[w]))
  BY <1>1, <1>2 DEF UsableInv
<1>4. PICK readable \in BOOLEAN : Reload(w, disk'[w], readable)
  BY DEF SaveFails
<1>5. PICK m, step : /\ mem' = [mem EXCEPT ![w] = m] /\ m \in {Blank, disk'[w]}
                     /\ pc' = [pc EXCEPT ![w] = step] /\ step \in {"idle", "stopped"}
  <2>1. CASE readable /\ disk'[w] # Blank /\ CanRestore(Blank, disk'[w])
    BY <1>3, <1>4, <2>1, RestoreOwn DEF Reload
  <2>2. CASE ~(readable /\ disk'[w] # Blank /\ CanRestore(Blank, disk'[w]))
    BY <1>4, <2>2 DEF Reload
  <2>3. QED
    BY <2>1, <2>2
<1>6. QED
  BY <1>1, <1>2, <1>3, <1>5, UsableMoves

LEMMA UsableCommit ==
  ASSUME IInv, UsableInv, NEW w \in Wallet, CommitSignature(w) PROVE UsableInv'
<1>1. mem[w] \in Journal /\ mem[w] # Blank /\ Usable(mem[w])
  BY DEF CommitSignature, IInv, TypeOK, ControlInv, UsableInv
<1>2. CASE CanCommit(mem[w])
  BY <1>1, <1>2, UsableCommitted, UsableProceeds DEF CommitSignature
<1>3. CASE ~CanCommit(mem[w])
  BY <1>1, <1>3, UsableProceeds DEF CommitSignature
<1>4. QED
  BY <1>2, <1>3

(* Every step of every wallet keeps the journals usable.                   *)
LEMMA UsableStep == IInv /\ UsableInv /\ [Next]_vars => UsableInv'
<1> SUFFICES ASSUME IInv, UsableInv, [Next]_vars PROVE UsableInv'
  OBVIOUS
<1>1. TypeOK
  BY DEF IInv
<1>2. CASE UNCHANGED vars
  BY <1>2, UsableSame DEF vars
<1>3. ASSUME NEW w \in Wallet, Crash(w) \/ Discard(w) PROVE UsableInv'
  BY <1>1, <1>3, UsableMoves DEF Crash, Discard, Vanish
<1>4. ASSUME NEW w \in Wallet, LoseSnapshot(w) PROVE UsableInv'
  BY <1>4, UsableSame DEF LoseSnapshot
<1>5. ASSUME NEW w \in Wallet, Sign(w) \/ SignerFails(w) PROVE UsableInv'
  BY <1>1, <1>5, UsableSame DEF Sign, SignerFails, TypeOK
<1>6. QED
  BY <1>2, <1>3, <1>4, <1>5, UsableOpen, UsableInitialize, UsableRequest,
     UsableImport, UsableRestore, UsableSave, UsableSaveFails, UsableCommit
  DEF Next

(* Whatever is in memory or was ever stored is usable.                     *)
THEOREM UsableCorrect == Spec => [](IInv /\ UsableInv)
<1>1. Init => UsableInv
  BY DEF Init, UsableInv
<1>2. QED
  BY <1>1, InvCorrect, UsableStep, PTL DEF Spec

(* Every snapshot that was ever stored is one a new process can restore    *)
(* (validate_state, restore_snapshot).                                     *)
THEOREM SnapshotsStayRestorable == Spec => []SnapshotsRestorable
<1>1. IInv /\ UsableInv => SnapshotsRestorable
  BY UsableRestores DEF IInv, TypeOK, UsableInv, SnapshotsRestorable
<1>2. QED
  BY <1>1, UsableCorrect, PTL

(* The journal never holds a reservation it would refuse once it is signed *)
(* (prepare, validate_preparation, commit_signature).                      *)
THEOREM ReservationsStayCommittable == Spec => []PendingCommittable
<1>1. IInv /\ UsableInv => PendingCommittable
  <2>1. SUFFICES ASSUME IInv, UsableInv, NEW w \in Wallet, mem[w].pending # {}
                 PROVE  CanCommit(mem[w])
    BY DEF PendingCommittable
  <2>2. mem[w] # Blank /\ mem[w] \in Journal
    BY <2>1 DEF Blank, IInv, TypeOK
  <2>3. QED
    BY <2>1, <2>2, UsableCommits DEF UsableInv
<1>2. QED
  BY <1>1, UsableCorrect, PTL

(* A signature the signer has given is accepted by the journal, and a      *)
(* wallet that was ever used is opened again (finish, commit_signature,    *)
(* init).                                                                  *)
NothingBlocks ==
  \A w \in Wallet :
    /\ pc[w] = "commit" => CanCommit(mem[w])
    /\ disk[w] # Blank => CanRestore(Blank, disk[w]) /\ Merged(Blank, disk[w]) = disk[w]

(* No signed reservation is refused by the journal that asked for it, and  *)
(* no stored snapshot by the process that opens it (finish, init).         *)
THEOREM WalletsGoOn == Spec => []NothingBlocks
<1>1. IInv /\ UsableInv => NothingBlocks
  <2>1. SUFFICES ASSUME IInv, UsableInv, NEW w \in Wallet
                 PROVE  /\ pc[w] = "commit" => CanCommit(mem[w])
                        /\ disk[w] # Blank =>
                             CanRestore(Blank, disk[w]) /\ Merged(Blank, disk[w]) = disk[w]
    BY DEF NothingBlocks
  <2>2. mem[w] \in Journal /\ disk[w] \in Journal
    BY <2>1 DEF IInv, TypeOK
  <2>3. CASE pc[w] = "commit"
    <3>1. Usable(mem[w]) /\ mem[w].pending # {}
      BY <2>1, <2>3 DEF IInv, ControlInv, UsableInv
    <3>2. CanCommit(mem[w])
      BY <2>2, <3>1, UsableCommits
    <3>3. disk[w] # Blank => Usable(disk[w])
      BY <2>1 DEF IInv, ControlInv, UsableInv
    <3>4. QED
      BY <2>2, <3>2, <3>3, UsableRestores
  <2>4. CASE pc[w] # "commit"
    <3>1. disk[w] # Blank => Usable(disk[w])
      BY <2>1 DEF IInv, ControlInv, UsableInv
    <3>2. QED
      BY <2>2, <2>4, <3>1, UsableRestores
  <2>5. QED
    BY <2>3, <2>4
<1>2. QED
  BY <1>1, UsableCorrect, PTL

(* An identical retry is answered with AlreadyCommitted by every wallet    *)
(* but a replica: what RepeatIsAnswered leaves of the documented promise   *)
(* (prepare, find_committed).                                              *)
WritersAnswerRepeats ==
  \A w \in Wallet \ cold :
    pc[w] = "idle" /\ disk[w] # Blank /\ ~mem[w].readOnly =>
      \A p \in acked[w] : AlreadyCommitted(mem[w], p.ak, p.op, p.body)

(* Nothing but a replica's read-only journal keeps a wallet from answering *)
(* a retry of what it has acknowledged (prepare).                          *)
THEOREM RepeatsAreAnswered == Spec => []WritersAnswerRepeats
<1>1. IInv => WritersAnswerRepeats
  <2>1. SUFFICES ASSUME IInv, NEW w \in Wallet \ cold, pc[w] = "idle",
                        disk[w] # Blank, ~mem[w].readOnly, NEW p \in acked[w]
                 PROVE  AlreadyCommitted(mem[w], p.ak, p.op, p.body)
    BY DEF WritersAnswerRepeats
  <2>2. disk[w] = mem[w] /\ acked[w] \subseteq disk[w].events
    BY <2>1 DEF IInv, ControlInv, HistoryInv, Trusted, View
  <2>3. QED
    BY <2>1, <2>2 DEF AlreadyCommitted, Writable, CommittedAs
<1>2. QED
  BY <1>1, InvCorrect, PTL

-----------------------------------------------------------------------------
(* What the reducer makes of it, and how far the loss of a snapshot        *)
(* reaches.                                                                *)

(* Two payloads take each other out in the ledger of some wallet only if   *)
(* their author's wallet was opened on an empty storage after it had lost  *)
(* its snapshot (reduce_ledger).                                           *)
ConflictsConfined ==
  LET confined(j) == \A p \in Conflicted(j.events) : Holder[p.ak] \in cold
  IN  /\ \A j \in archive : confined(j)
      /\ \A w \in Wallet : confined(mem[w]) /\ confined(disk[w])

(* A conflict needs two signatures in a slot.                              *)
LEMMA ConflictFacts ==
  ASSUME IInv, NEW j \in Journal, Sound(j)
  PROVE  \A p \in Conflicted(j.events) : Holder[p.ak] \in cold
<1>1. \A p, q \in signed : SameSlot(p, q) /\ Holder[p.ak] \notin cold => p = q
  BY DEF IInv, HistoryInv, NoEquivocation
<1>2. j.events \subseteq signed
  BY DEF Sound
<1>3. QED
  BY <1>1, <1>2 DEF Conflicted

(* All ledgers in circulation consist of signed payloads.                  *)
LEMMA ConflictStep == IInv => ConflictsConfined
<1> SUFFICES ASSUME IInv PROVE ConflictsConfined
  OBVIOUS
<1>1. \A j \in archive : j \in Journal /\ Sound(j)
  BY DEF IInv, TypeOK, ArchiveInv
<1>2. ASSUME NEW w \in Wallet
      PROVE  /\ mem[w] \in Journal /\ Sound(mem[w])
             /\ disk[w] \in Journal /\ (disk[w] # Blank => Sound(disk[w]))
  BY <1>1 DEF IInv, TypeOK, JournalInv, ControlInv
<1>3. Conflicted(Blank.events) = {}
  BY DEF Conflicted, Blank
<1>4. QED
  BY <1>1, <1>2, <1>3, ConflictFacts DEF ConflictsConfined

(* No ledger has a conflict but of a key whose wallet lost its snapshot    *)
(* (reduce_ledger, prepare).                                               *)
THEOREM ConflictsStayConfined == Spec => []ConflictsConfined
BY InvCorrect, ConflictStep, PTL

(* A revocation in a stored ledger is there for good, and an intake it     *)
(* counts is counted from then on unless its key is revoked, whatever is   *)
(* merged in: for keys whose wallet, and a root whose wallet, was never    *)
(* opened on a lost storage (reduce_ledger, restore_snapshot,              *)
(* import_transfer).                                                       *)
LedgerGrows(E, F, lost) ==
  /\ Revoked(E) \subseteq Revoked(F)
  /\ \A p \in Counted(E) :
       Holder[p.ak] \notin lost => p \in Counted(F) \/ p.ak \in Revoked(F)
LedgersGrow ==
  [][\A w \in Wallet : disk'[w] # Blank /\ Holder[Root] \notin cold' =>
       LedgerGrows(disk[w].events, disk'[w].events, cold')]_vars

(* What the reducer counts is monotone where there is no conflict.         *)
LEMMA LedgerFacts ==
  ASSUME NEW E, NEW F, NEW lost, E \subseteq F, Holder[Root] \notin lost,
         \A p \in Conflicted(F) : Holder[p.ak] \in lost
  PROVE  LedgerGrows(E, F, lost)
<1>1. \A p \in Effective(E) : Holder[p.ak] \notin lost => p \in Effective(F)
  BY DEF Effective
<1>2. ASSUME NEW kind
      PROVE  Named(Effective(E), kind) \subseteq Named(Effective(F), kind)
  BY <1>1 DEF Named
<1>3. Revoked(E) \subseteq Revoked(F) /\ Granted(E) \subseteq Granted(F)
  BY <1>2 DEF Revoked, Granted
<1>4. QED
  BY <1>1, <1>3 DEF LedgerGrows, Counted, Authorized

(* No step of a wallet takes back a revocation or a counted intake of its  *)
(* stored ledger (reduce_ledger, restore_snapshot, import_transfer).       *)
THEOREM LedgersOnlyGrow == Spec => LedgersGrow
<1>1. [\A w \in Wallet : disk'[w] # Blank => NeverForgets(disk[w], disk'[w])]_vars
        /\ ConflictsConfined' =>
          [\A w \in Wallet : disk'[w] # Blank /\ Holder[Root] \notin cold' =>
             LedgerGrows(disk[w].events, disk'[w].events, cold')]_vars
  BY LedgerFacts DEF NeverForgets, ConflictsConfined
<1>2. QED
  BY <1>1, StorageGrows, ConflictsStayConfined, PTL
  DEF LedgersGrow, DurableNeverForgets
=============================================================================
