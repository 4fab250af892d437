------------------------- MODULE AiBoundaryProofs -------------------------
(***************************************************************************)
(* Theorems about AiBoundary, for any registry size, time to live, objects *)
(* and number of calls in flight.                                          *)
(***************************************************************************)
EXTENDS AiBoundary, SdkStoreProofs

LOCAL Q == INSTANCE Sequences

-----------------------------------------------------------------------------
(* The invariant.                                                          *)

(* An object applied outside of every section is in the store, and in the  *)
(* snapshot that an outermost call would go back to.                       *)
Kept == /\ lone \subseteq store.objects
        /\ saved # None => lone \subseteq saved.objects

(* Every entry stands for one token that was not used, and every token     *)
(* that is neither used nor expired has one.                               *)
Registered ==
  /\ IsFiniteSet(entries) /\ Cardinality(entries) <= MaxPending
  /\ \A e, f \in entries : e.id = f.id => e = f
  /\ \A e \in entries :
       /\ e.id \in DOMAIN tokens /\ tokens[e.id].used = 0
       /\ e.cid = tokens[e.id].cid
       /\ e.expires = tokens[e.id].issued + Ttl
  /\ \A i \in DOMAIN tokens :
       /\ tokens[i].used \in 0..1
       /\ tokens[i].used = 0 /\ now <= tokens[i].issued + Ttl =>
            \E e \in entries : e.id = i

AiInv == SdkInv /\ AiTypeOK /\ Kept /\ Registered

-----------------------------------------------------------------------------
(* The store's own steps.                                                  *)

(* No step of a call touches an object, but a rollback, and the snapshot   *)
(* is only ever taken of the store.                                        *)
LEMMA ObjectsStay ==
  ASSUME SdkInv, [Next]_vars
  PROVE  /\ store'.objects = store.objects \/ (store' = saved /\ saved # None)
         /\ saved' \in {saved, store, None}
<1>1. ASSUME NEW c \in Call, NEW op, NEW arg, NEW copy, NEW stage, NEW n,
             \/ Enter(c, op, arg, copy, stage, n)
             \/ Begin(c, op, arg, copy, stage, n, FALSE) /\ UNCHANGED saved
      PROVE  store' = store /\ saved' \in {saved, store}
  BY <1>1 DEF Enter, Begin
<1>2. ASSUME NEW c \in Call, CreateRoot(c) \/ SetActiveAk(c)
      PROVE  store' = store /\ saved' = saved
  BY <1>2 DEF CreateRoot, SetActiveAk, Begin
<1>3. ASSUME NEW c \in Call,
             \/ AddDeviceKey(c) \/ RevokeDeviceKey(c) \/ ImportBundle(c)
             \/ WriteRecord(c)
      PROVE  store' = store /\ saved' \in {saved, store}
  <2>1. CASE AddDeviceKey(c)
    BY <1>1, <2>1 DEF AddDeviceKey
  <2>2. CASE RevokeDeviceKey(c)
    BY <1>1, <2>2 DEF RevokeDeviceKey
  <2>3. CASE ImportBundle(c)
    BY <1>1, <2>3 DEF ImportBundle
  <2>4. CASE WriteRecord(c)
    BY <1>1, <2>4 DEF WriteRecord
  <2>5. QED
    BY <1>3, <2>1, <2>2, <2>3, <2>4
<1>4. ASSUME NEW c \in Call,
             \/ Reserve(c) \/ Save(c) \/ Append(c) \/ Load(c)
             \/ Merge(c) \/ Install(c) \/ Throw(c)
      PROVE  store'.objects = store.objects /\ saved' = saved
  <2>1. CASE Reserve(c) \/ Save(c) \/ Append(c) \/ Install(c)
    <3>1. store'.objects = store.objects
      BY <2>1, ReserveFacts, SaveFacts, AppendFacts, InstallFacts
    <3>2. QED
      BY <2>1, <3>1 DEF Reserve, Save, Append, Install
  <2>2. CASE Load(c) \/ Merge(c) \/ Throw(c)
    BY <2>2 DEF Load, Merge, Throw
  <2>3. QED
    BY <1>4, <2>1, <2>2
<1>5. ASSUME NEW c \in Call, Exit(c) \/ Rollback(c)
      PROVE  /\ store' = store \/ (store' = saved /\ saved # None)
             /\ saved' \in {saved, None}
  BY <1>5, EndFacts, NoneIsNothing
<1>6. CASE ExportBundle \/ OtherClient
  BY <1>6, OutsideFacts
<1>7. CASE UNCHANGED vars
  BY <1>7 DEF vars
<1>8. QED
  BY <1>2, <1>3, <1>4, <1>5, <1>6, <1>7 DEF Next, Idle

(* What is applied alone is in the store, and no section is open that      *)
(* could take it away.                                                     *)
LEMMA KeptStays ==
  ASSUME AiInv, \/ \E o \in Object : Accept(o)
                \/ \E e \in entries : Apply(e) \/ ApplyExpired(e)
                \/ Tick \/ SdkStep \/ UNCHANGED allVars
  PROVE  Kept'
<1>1. /\ lone \subseteq store.objects
      /\ saved # None => lone \subseteq saved.objects
      /\ SdkInv
  BY DEF AiInv, Kept
<1>2. CASE UNCHANGED <<store, saved, lone>>
  BY <1>1, <1>2 DEF Kept
<1>3. CASE SdkStep
  <2>1. lone' = lone /\ [Next]_vars
    BY <1>3 DEF SdkStep
  <2>2. store # None /\ store \in Store
    BY <1>1, StoreTypes DEF SdkInv, TypeOK
  <2>3. QED
    BY <1>1, <2>1, <2>2, ObjectsStay DEF Kept
<1>4. ASSUME NEW e \in entries, Apply(e)
      PROVE  Kept'
  <2>1. saved' = saved /\ Put(e.cid)
    BY <1>4 DEF Apply
  <2>2. depth = 0 => saved = None
    <3>1. SectionCalls \in SUBSET Running
      BY DEF SectionCalls, InSection, Running
    <3>2. IsFiniteSet(SectionCalls)
      BY <1>1, <3>1, FS_Subset DEF SdkInv, Sections
    <3>3. depth = 0 => SectionCalls = {}
      BY <1>1, <3>2, FS_EmptySet DEF SdkInv, Sections
    <3>4. QED
      BY <1>1, <3>3 DEF SdkInv, Sections, SectionCalls
  <2>3. CASE UNCHANGED <<store, lone>>
    BY <1>1, <2>1, <2>3 DEF Kept
  <2>4. CASE /\ store' = [store EXCEPT !.objects = @ \cup {e.cid}]
             /\ lone' = IF depth = 0 THEN lone \cup {e.cid} ELSE lone
    <3>1. store'.objects = store.objects \cup {e.cid}
      BY <1>1, <2>4 DEF SdkInv, TypeOK, Store
    <3>2. QED
      BY <1>1, <2>1, <2>2, <2>4, <3>1 DEF Kept
  <2>5. QED
    BY <2>1, <2>3, <2>4 DEF Put
<1>5. QED
  BY <1>2, <1>3, <1>4 DEF Accept, ApplyExpired, Tick, allVars, vars

(* Nothing that the sidecar does disturbs the calls of the store.          *)
LEMMA StoreStaysSound ==
  ASSUME AiInv, \/ \E o \in Object : Accept(o)
                \/ \E e \in entries : Apply(e) \/ ApplyExpired(e)
                \/ Tick \/ SdkStep \/ UNCHANGED allVars
  PROVE  SdkInv'
<1>1. CASE SdkStep \/ UNCHANGED vars
  BY <1>1, SdkInvStep DEF SdkStep, AiInv
<1>2. ASSUME NEW e \in entries, Apply(e)
      PROVE  SdkInv'
  <2>1. /\ store \in Store /\ SdkInv /\ e.cid \in Object
        /\ UNCHANGED <<depth, saved, call, files, drawn, faults, before>>
    BY <1>2 DEF AiInv, AiTypeOK, Entry, SdkInv, TypeOK, Apply
  <2>2. /\ store' \in Store /\ store'.bundle = store.bundle
    <3>1. PICK s : s = store.objects \cup {e.cid}
      OBVIOUS
    <3>2. s \in SUBSET Object
      BY <2>1, <3>1, StoreTypes
    <3>3. store' = store \/ store' = [store EXCEPT !.objects = s]
      BY <1>2, <2>1, <3>1 DEF Apply, Put, Store
    <3>4. QED
      BY <2>1, <3>2, <3>3 DEF Store
  <2>3. TypeOK'
    BY <2>1, <2>2 DEF SdkInv, TypeOK
  <2>4. Running' = Running /\ SectionCalls' = SectionCalls
    BY <2>1 DEF Running, SectionCalls, InSection
  <2>5. Sections'
    BY <2>1, <2>4 DEF SdkInv, Sections, InSection
  <2>6. HoldsValid(store')
    BY <2>1, <2>2 DEF SdkInv, HoldsValid
  <2>7. QED
    BY <2>1, <2>3, <2>5, <2>6 DEF SdkInv
<1>3. QED
  BY <1>1, <1>2 DEF Accept, ApplyExpired, Tick, allVars

(* A full registry refuses; one that is not gives a new entry to the new   *)
(* token, and forgets only what has expired.                               *)
LEMMA CleanupFacts ==
  ASSUME AiInv
  PROVE  /\ Cleanup \subseteq entries /\ IsFiniteSet(Cleanup)
         /\ Cardinality(Cleanup) \in Nat
         /\ Cardinality(Cleanup) <= MaxPending
         /\ now \in Nat /\ Ttl \in Nat /\ MaxPending \in Nat
         /\ MaxTokens \in Nat /\ MaxNow \in Nat
         /\ \A e \in entries :
              /\ e.id \in 1..MaxTokens /\ e.cid \in Object /\ e.expires \in Nat
         /\ \E n \in 0..MaxTokens :
              n = Q!Len(tokens) /\ tokens \in [1..n -> Token]
<1>1. Cleanup \in SUBSET entries
  BY DEF Cleanup
<1>2. /\ IsFiniteSet(entries) /\ Cardinality(entries) <= MaxPending
      /\ now \in Nat /\ Ttl \in Nat /\ MaxPending \in Nat
      /\ MaxTokens \in Nat /\ MaxNow \in Nat
  BY AiConstants DEF AiInv, Registered, AiTypeOK
<1>3. /\ IsFiniteSet(Cleanup) /\ Cardinality(Cleanup) \in Nat
      /\ Cardinality(entries) \in Nat
      /\ Cardinality(Cleanup) <= Cardinality(entries)
  BY <1>1, <1>2, FS_Subset, FS_CardinalityType
<1>4. \E n \in 0..MaxTokens : n = Q!Len(tokens) /\ tokens \in [1..n -> Token]
  BY AiConstants DEF AiInv, AiTypeOK
<1>5. QED
  BY <1>1, <1>2, <1>3, <1>4 DEF AiInv, AiTypeOK, Entry

LEMMA AcceptRegistered ==
  ASSUME AiInv, NEW o \in Object, Accept(o)
  PROVE  AiTypeOK' /\ Registered'
<1>1. PICK n \in Nat :
        n = Q!Len(tokens) /\ tokens \in [1..n -> Token] /\ n <= MaxTokens
  BY CleanupFacts
<1>2. now' = now /\ lone' = lone
  BY DEF Accept
<1>3. CASE entries' = Cleanup /\ tokens' = tokens
  <2>1. AiTypeOK'
    BY <1>2, <1>3, CleanupFacts DEF AiInv, AiTypeOK
  <2>2. \A i \in DOMAIN tokens :
          tokens[i].used = 0 /\ now <= tokens[i].issued + Ttl =>
            \E e \in Cleanup : e.id = i
    BY DEF AiInv, Registered, Cleanup
  <2>3. Registered'
    BY <1>2, <1>3, <2>2, CleanupFacts DEF AiInv, Registered
  <2>4. QED
    BY <2>1, <2>3
<1>4. CASE ~(Cardinality(Cleanup) >= MaxPending) /\ n + 1 <= MaxTokens
           /\ entries' = Cleanup \cup
                {[id |-> n + 1, cid |-> o, expires |-> now + Ttl]}
           /\ tokens' = Q!Append(tokens, [cid |-> o, issued |-> now, used |-> 0])
  <2>1. PICK x : x = [id |-> n + 1, cid |-> o, expires |-> now + Ttl]
    OBVIOUS
  <2>2. PICK t : t = [cid |-> o, issued |-> now, used |-> 0]
    OBVIOUS
  <2>3. /\ x \in Entry /\ x.id = n + 1 /\ x.cid = o /\ x.expires = now + Ttl
        /\ t \in Token /\ t.cid = o /\ t.issued = now /\ t.used = 0
    <3>1. /\ n + 1 \in 1..MaxTokens /\ now + Ttl \in Nat
          /\ now \in 0..MaxNow /\ 0 \in Nat
      <4>1. now \in 0..MaxNow
        BY DEF AiInv, AiTypeOK
      <4>2. now + Ttl \in Nat
        BY CleanupFacts
      <4>3. n + 1 \in 1..MaxTokens
        <5>1. n \in Nat /\ n + 1 <= MaxTokens
          BY <1>1, <1>4
        <5>2. MaxTokens \in Nat
          BY CleanupFacts
        <5>3. QED
          BY <5>1, <5>2
      <4>4. QED
        BY <4>1, <4>2, <4>3
    <3>2. x \in Entry /\ t \in Token
      BY <2>1, <2>2, <3>1 DEF Entry, Token
    <3>3. QED
      BY <2>1, <2>2, <3>2
  <2>4. entries' = Cleanup \cup {x}
    BY <1>4, <2>1
  <2>5. /\ tokens' \in [1..(n + 1) -> Token] /\ tokens'[n + 1] = t
        /\ \A i \in 1..n : tokens'[i] = tokens[i]
        /\ tokens' \in Q!Seq(Token) /\ Q!Len(tokens') = n + 1
    <3>1. tokens \in Q!Seq(Token) /\ tokens' = Q!Append(tokens, t) /\ t \in Token
      BY <1>4, <2>2, <2>3 DEF AiInv, AiTypeOK
    <3>2. tokens' \in Q!Seq(Token) /\ Q!Len(tokens') = n + 1
      BY <1>1, <3>1
    <3>3. tokens'[n + 1] = t /\ \A i \in 1..n : tokens'[i] = tokens[i]
      BY <1>1, <3>1
    <3>4. QED
      BY <3>2, <3>3
  <2>6. AiTypeOK'
    BY <1>2, <1>4, <2>3, <2>4, <2>5, CleanupFacts DEF AiInv, AiTypeOK
  <2>7. x \notin Cleanup
    BY <1>1, <2>3, CleanupFacts DEF AiInv, Registered
  <2>8. IsFiniteSet(entries') /\ Cardinality(entries') <= MaxPending
    <3>1. /\ IsFiniteSet(entries')
          /\ Cardinality(entries') = Cardinality(Cleanup) + 1
      BY <2>4, <2>7, CleanupFacts, FS_AddElement
    <3>2. QED
      BY <1>4, <3>1, CleanupFacts
  <2>9. DOMAIN tokens = 1..n /\ DOMAIN tokens' = 1..(n + 1)
    BY <1>1, <2>5
  <2>10. \A e, f \in entries' : e.id = f.id => e = f
    <3>1. ASSUME NEW e \in Cleanup
          PROVE  e \in entries /\ e.id # x.id
      <4>1. e \in entries
        BY DEF Cleanup
      <4>2. e.id \in DOMAIN tokens
        BY <4>1 DEF AiInv, Registered
      <4>3. e.id \in 1..n
        BY <2>9, <4>2
      <4>4. QED
        BY <1>1, <2>3, <4>1, <4>3
    <3>2. \A e, f \in Cleanup : e.id = f.id => e = f
      BY <3>1 DEF AiInv, Registered
    <3>3. QED
      BY <2>4, <3>1, <3>2
  <2>11. ASSUME NEW e \in entries'
         PROVE  /\ e.id \in DOMAIN tokens' /\ tokens'[e.id].used = 0
                /\ e.cid = tokens'[e.id].cid
                /\ e.expires = tokens'[e.id].issued + Ttl
    <3>1. CASE e = x
      BY <1>1, <2>3, <2>5, <2>9, <3>1
    <3>2. CASE e \in Cleanup
      <4>1. e \in entries /\ e.id \in 1..n
        BY <2>9, <3>2, CleanupFacts DEF AiInv, Registered
      <4>2. tokens'[e.id] = tokens[e.id] /\ e.id \in 1..(n + 1)
        BY <1>1, <2>5, <4>1
      <4>3. QED
        BY <2>9, <4>1, <4>2 DEF AiInv, Registered
    <3>3. QED
      BY <2>4, <3>1, <3>2
  <2>12. ASSUME NEW i \in DOMAIN tokens'
         PROVE  /\ tokens'[i].used \in 0..1
                /\ tokens'[i].used = 0 /\ now <= tokens'[i].issued + Ttl =>
                     \E e \in entries' : e.id = i
    <3>1. CASE i = n + 1
      BY <2>3, <2>4, <2>5, <3>1
    <3>2. CASE i \in 1..n
      <4>1. tokens'[i] = tokens[i] /\ i \in DOMAIN tokens
        BY <2>5, <2>9, <3>2
      <4>2. tokens[i].used = 0 /\ now <= tokens[i].issued + Ttl =>
              \E e \in Cleanup : e.id = i
        BY <4>1 DEF AiInv, Registered, Cleanup
      <4>3. QED
        BY <2>4, <4>1, <4>2 DEF AiInv, Registered
    <3>3. QED
      BY <1>1, <2>9, <3>1, <3>2
  <2>13. QED
    BY <1>2, <2>6, <2>8, <2>10, <2>11, <2>12 DEF Registered
<1>5. QED
  BY <1>1, <1>3, <1>4 DEF Accept

(* A token that is used loses its entry and is counted as used, whether    *)
(* the store keeps the object or throws.                                   *)
LEMMA ApplyRegistered ==
  ASSUME AiInv, NEW e \in entries, Apply(e)
  PROVE  AiTypeOK' /\ Registered'
<1>1. PICK n \in Nat :
        n = Q!Len(tokens) /\ tokens \in [1..n -> Token] /\ n <= MaxTokens
  BY CleanupFacts
<1>2. /\ now' = now /\ entries' = Cleanup \ {e} /\ e \in Cleanup
      /\ tokens' = [tokens EXCEPT ![e.id].used = @ + 1]
  BY DEF Apply, Cleanup
<1>3. /\ e.id \in 1..n /\ tokens[e.id] \in Token /\ tokens[e.id].used = 0
      /\ e.cid \in Object
  BY <1>1, CleanupFacts DEF AiInv, Registered
<1>4. PICK t : t = [tokens[e.id] EXCEPT !.used = @ + 1]
  OBVIOUS
<1>5. /\ t \in Token /\ t.used = 1 /\ t.cid = tokens[e.id].cid
      /\ t.issued = tokens[e.id].issued
  BY <1>3, <1>4 DEF Token
<1>6. tokens' = [tokens EXCEPT ![e.id] = t]
  BY <1>2, <1>4
<1>7. /\ tokens' \in [1..n -> Token] /\ tokens'[e.id] = t
      /\ \A i \in 1..n : i # e.id => tokens'[i] = tokens[i]
  BY <1>1, <1>3, <1>5, <1>6
<1>8. tokens' \in Q!Seq(Token) /\ Q!Len(tokens') = n
  BY <1>1, <1>7
<1>9. lone' \subseteq Object
  BY <1>3 DEF Apply, Put, AiInv, AiTypeOK
<1>10. AiTypeOK'
  <2>1. entries' \subseteq Entry /\ now' \in 0..MaxNow
    BY <1>2, CleanupFacts DEF AiInv, AiTypeOK
  <2>2. QED
    BY <1>1, <1>8, <1>9, <2>1 DEF AiTypeOK
<1>11. IsFiniteSet(entries') /\ Cardinality(entries') <= MaxPending
  <2>1. Cleanup \ {e} \in SUBSET Cleanup
    OBVIOUS
  <2>2. /\ IsFiniteSet(Cleanup \ {e}) /\ Cardinality(Cleanup \ {e}) \in Nat
        /\ Cardinality(Cleanup \ {e}) <= Cardinality(Cleanup)
    BY <2>1, CleanupFacts, FS_Subset, FS_CardinalityType
  <2>3. QED
    BY <1>2, <2>2, CleanupFacts
<1>12. DOMAIN tokens = 1..n /\ DOMAIN tokens' = 1..n
  BY <1>1, <1>7
<1>13. \A f \in entries' : f \in entries /\ f.id # e.id
  BY <1>2, CleanupFacts DEF AiInv, Registered
<1>14. \A f, g \in entries' : f.id = g.id => f = g
  BY <1>13 DEF AiInv, Registered
<1>15. ASSUME NEW f \in entries'
       PROVE  /\ f.id \in DOMAIN tokens' /\ tokens'[f.id].used = 0
              /\ f.cid = tokens'[f.id].cid
              /\ f.expires = tokens'[f.id].issued + Ttl
  <2>1. f \in entries /\ f.id # e.id /\ f.id \in 1..n
    BY <1>12, <1>13 DEF AiInv, Registered
  <2>2. tokens'[f.id] = tokens[f.id]
    BY <1>7, <2>1
  <2>3. QED
    BY <1>12, <2>1, <2>2 DEF AiInv, Registered
<1>16. ASSUME NEW i \in DOMAIN tokens'
       PROVE  /\ tokens'[i].used \in 0..1
              /\ tokens'[i].used = 0 /\ now <= tokens'[i].issued + Ttl =>
                   \E f \in entries' : f.id = i
  <2>1. CASE i = e.id
    BY <1>5, <1>7, <2>1
  <2>2. CASE i # e.id
    <3>1. tokens'[i] = tokens[i] /\ i \in DOMAIN tokens
      BY <1>7, <1>12, <2>2
    <3>2. tokens[i].used = 0 /\ now <= tokens[i].issued + Ttl =>
            \E f \in Cleanup : f.id = i
      BY <3>1 DEF AiInv, Registered, Cleanup
    <3>3. QED
      BY <1>2, <2>2, <3>1, <3>2 DEF AiInv, Registered
  <2>3. QED
    BY <2>1, <2>2
<1>17. QED
  BY <1>2, <1>10, <1>11, <1>14, <1>15, <1>16 DEF Registered

(* An expired token is forgotten, and as time goes on others expire.       *)
LEMMA OthersRegistered ==
  ASSUME AiInv, \/ \E e \in entries : ApplyExpired(e)
                \/ Tick \/ SdkStep \/ UNCHANGED allVars
  PROVE  AiTypeOK' /\ Registered'
<1>1. ASSUME NEW e \in entries, ApplyExpired(e)
      PROVE  AiTypeOK' /\ Registered'
  <2>1. /\ entries' = entries \ {e} /\ tokens' = tokens /\ now' = now
        /\ lone' = lone /\ e.expires < now
    BY <1>1 DEF ApplyExpired
  <2>2. AiTypeOK'
    BY <2>1 DEF AiInv, AiTypeOK
  <2>3. entries \ {e} \in SUBSET entries
    OBVIOUS
  <2>4. /\ IsFiniteSet(entries) /\ Cardinality(entries) \in Nat
        /\ Cardinality(entries) <= MaxPending
    BY FS_CardinalityType DEF AiInv, Registered
  <2>5. /\ IsFiniteSet(entries') /\ Cardinality(entries') \in Nat
        /\ Cardinality(entries') <= Cardinality(entries)
    BY <2>1, <2>3, <2>4, FS_Subset, FS_CardinalityType
  <2>6. Cardinality(entries') <= MaxPending
    BY <2>4, <2>5, CleanupFacts
  <2>7. ASSUME NEW i \in DOMAIN tokens, tokens[i].used = 0,
               now <= tokens[i].issued + Ttl
        PROVE  \E f \in entries' : f.id = i
    <3>1. PICK f \in entries : f.id = i
      BY <2>7 DEF AiInv, Registered
    <3>2. f.expires = tokens[i].issued + Ttl
      BY <3>1 DEF AiInv, Registered
    <3>3. e.expires < now /\ now <= f.expires /\ e.expires \in Nat /\ now \in Nat
          /\ f.expires \in Nat
      BY <2>1, <2>7, <3>2, CleanupFacts
    <3>4. f # e
      BY <3>3
    <3>5. QED
      BY <2>1, <3>1, <3>4
  <2>8. Registered'
    BY <2>1, <2>5, <2>6, <2>7 DEF AiInv, Registered
  <2>9. QED
    BY <2>2, <2>8
<1>2. CASE Tick
  <2>1. /\ now' = now + 1 /\ now < MaxNow
        /\ UNCHANGED <<entries, tokens, lone>>
    BY <1>2 DEF Tick
  <2>2. now \in 0..MaxNow /\ now \in Nat /\ MaxNow \in Nat
    BY CleanupFacts DEF AiInv, AiTypeOK
  <2>3. AiTypeOK'
    BY <2>1, <2>2 DEF AiInv, AiTypeOK
  <2>4. ASSUME NEW i \in DOMAIN tokens, now' <= tokens[i].issued + Ttl
        PROVE  now <= tokens[i].issued + Ttl
    <3>1. PICK n \in Nat : tokens \in [1..n -> Token]
      BY CleanupFacts
    <3>2. tokens[i].issued \in Nat /\ Ttl \in Nat
      BY <2>2, <3>1, CleanupFacts DEF Token
    <3>3. QED
      BY <2>1, <2>2, <2>4, <3>2
  <2>5. Registered'
    BY <2>1, <2>4 DEF AiInv, Registered
  <2>6. QED
    BY <2>3, <2>5
<1>3. CASE UNCHANGED <<entries, tokens, now, lone>>
  BY <1>3 DEF AiInv, AiTypeOK, Registered
<1>4. QED
  BY <1>1, <1>2, <1>3 DEF SdkStep, allVars

LEMMA AiInvStep == AiInv /\ [AiNext]_allVars => AiInv'
<1> SUFFICES ASSUME AiInv, [AiNext]_allVars
             PROVE  AiInv'
  OBVIOUS
<1>1. \/ \E o \in Object : Accept(o)
      \/ \E e \in entries : Apply(e) \/ ApplyExpired(e)
      \/ Tick \/ SdkStep \/ UNCHANGED allVars
  BY DEF AiNext
<1>2. SdkInv' /\ Kept'
  BY <1>1, StoreStaysSound, KeptStays
<1>3. AiTypeOK' /\ Registered'
  BY <1>1, AcceptRegistered, ApplyRegistered, OthersRegistered
<1>4. QED
  BY <1>2, <1>3 DEF AiInv

LEMMA AiInvInit == AiInit => AiInv
<1> SUFFICES ASSUME AiInit
             PROVE  AiInv
  OBVIOUS
<1>1. SdkInv /\ saved = None
  BY SdkInit DEF AiInit, Init
<1>2. /\ entries = {} /\ now = 0 /\ lone = {} /\ tokens = <<>>
      /\ IsFiniteSet({}) /\ Cardinality({}) = 0
  BY FS_EmptySet DEF AiInit
<1>3. AiTypeOK
  BY <1>2, AiConstants DEF AiTypeOK
<1>4. DOMAIN tokens = {}
  BY <1>2
<1>5. Kept /\ Registered
  BY <1>1, <1>2, <1>4, AiConstants DEF Kept, Registered
<1>6. QED
  BY <1>1, <1>3, <1>5 DEF AiInv

-----------------------------------------------------------------------------
(* The theorems.                                                           *)

(* The invariant of registry and store, for any registry size, time to     *)
(* live and number of calls in flight (accept.ts, token_registry.ts).      *)
THEOREM AiInvariant == AiSpec => []AiInv
BY AiInvInit, AiInvStep, PTL DEF AiSpec

(* A token gives its payload to at most one call of applyAccepted, also    *)
(* when the store throws, and is kept with the payload it was issued for   *)
(* until then or until it expires; the registry never holds more than      *)
(* max_pending entries (issue, consume, cleanup).                          *)
THEOREM TokensAreGoodForOnce == AiSpec => []TokenGoodForOnce
<1>1. ASSUME AiInv
      PROVE  TokenGoodForOnce
  <2>1. ASSUME NEW i \in DOMAIN tokens
        PROVE  LET t == tokens[i]
                   kept == \E e \in entries : e.id = i /\ e.cid = t.cid
               IN  /\ t.used <= 1
                   /\ t.used = 0 /\ now <= t.issued + Ttl => kept
                   /\ t.used = 1 => ~kept
    <3>1. tokens[i].used \in 0..1
      BY <1>1 DEF AiInv, Registered
    <3>2. \A e \in entries : e.id = i =>
            e.cid = tokens[i].cid /\ tokens[i].used = 0
      BY <1>1 DEF AiInv, Registered
    <3>3. tokens[i].used = 0 /\ now <= tokens[i].issued + Ttl =>
            \E e \in entries : e.id = i
      BY <1>1 DEF AiInv, Registered
    <3>4. QED
      BY <3>1, <3>2, <3>3
  <2>2. Cardinality(entries) <= MaxPending
    BY <1>1 DEF AiInv, Registered
  <2>3. QED
    BY <2>1, <2>2 DEF TokenGoodForOnce
<1>2. AiInv => TokenGoodForOnce
  BY <1>1
<1>3. QED
  BY AiInvariant, <1>2, PTL

(* An object applied while no section was open is in the store for good:   *)
(* no section that begins later goes back to a time before it, however     *)
(* sections overlap and fail (captureSnapshot, restoreSnapshot).           *)
THEOREM AppliedObjectsStay == AiSpec => []AppliedStays
<1>1. AiInv => AppliedStays
  BY DEF AiInv, Kept, AppliedStays
<1>2. QED
  BY AiInvariant, <1>1, PTL

-----------------------------------------------------------------------------
(* The store's own promises, with the sidecar at work.                     *)

(* The sidecar changes nothing of the store but its objects. *)
LEMMA SidecarSteps ==
  ASSUME SdkInv, [AiNext]_allVars
  PROVE  \/ [Next]_vars
         \/ /\ UNCHANGED <<call, drawn>> /\ store'.bundle = store.bundle
            /\ store'.seqs = store.seqs /\ store'.log = store.log
<1>1. ASSUME NEW e \in entries, Apply(e)
      PROVE  /\ UNCHANGED <<call, drawn>> /\ store'.bundle = store.bundle
             /\ store'.seqs = store.seqs /\ store'.log = store.log
  <2>1. PICK s : s = store.objects \cup {e.cid}
    OBVIOUS
  <2>2. store' = store \/ store' = [store EXCEPT !.objects = s]
    BY <1>1, <2>1 DEF Apply, Put
  <2>3. store \in Store
    BY DEF SdkInv, TypeOK
  <2>4. QED
    BY <1>1, <2>2, <2>3 DEF Apply, Store
<1>2. ASSUME \/ \E o \in Object : Accept(o)
             \/ \E e \in entries : ApplyExpired(e)
             \/ Tick \/ UNCHANGED allVars
      PROVE  UNCHANGED vars
  BY <1>2 DEF Accept, ApplyExpired, Tick, allVars
<1>3. QED
  BY <1>1, <1>2 DEF AiNext, SdkStep

(* Calls that overlap keep every record and draw every number once, also   *)
(* while accepted objects are applied between their steps                  *)
(* (reserveNextSeq, atomic, applyAccepted).                                *)
THEOREM OverlapsKeepRecordsBesideSidecar ==
  ASSUME OneIdentity
  PROVE  AiSpec => []OverlapKeepsRecords
<1>1. AiInit => OverlapInv
  BY OverlapInit DEF AiInit
<1>2. AiInv /\ OverlapInv /\ [AiNext]_allVars => OverlapInv'
  BY SidecarSteps, OverlapStep, OverlapSame DEF AiInv
<1>3. QED
  BY AiInvariant, <1>1, <1>2, OverlapKeeps, PTL DEF AiSpec

(* The depth counts the calls in a section and the snapshot is there       *)
(* exactly while one would go back to it, also with the sidecar writing    *)
(* between their steps (atomic, applyAccepted).                            *)
THEOREM SectionsStayBalancedBesideSidecar == AiSpec => []SectionsBalance
BY AiInvariant, SectionsOfInv, PTL DEF AiInv

=============================================================================
