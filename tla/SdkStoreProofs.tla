--------------------------- MODULE SdkStoreProofs --------------------------
(***************************************************************************)
(* Theorems about SdkStore, for any calls, keys and objects and any        *)
(* bounds: first what holds however many calls are in flight, then what    *)
(* the managers promise when every call is awaited, up to the refinement   *)
(* of AtomicStore, and last what holds of calls that overlap.              *)
(***************************************************************************)
EXTENDS SdkStore, FiniteSetTheorems, TLAPS

-----------------------------------------------------------------------------
(* The invariant for any number of calls in flight.                        *)

(* atomic's bookkeeping: the depth counts the calls in a section, at most  *)
(* one of them is the outermost, and its snapshot is there while it runs.  *)
SectionCalls == {c \in Call : InSection(c)}
Sections ==
  /\ IsFiniteSet(Running) /\ Cardinality(Running) <= MaxRunning
  /\ depth = Cardinality(SectionCalls)
  /\ \A c \in Call : call[c].outer => InSection(c)
  /\ \A c, d \in Call : call[c].outer /\ call[d].outer => c = d
  /\ (saved # None) = (\E c \in Call : call[c].outer)

(* What the local copies of a call are good for at each of its stages.     *)
Short == {"createRoot", "setActiveAk"}
Granters == {"addDeviceKey", "revokeDeviceKey"}
Writers == Granters \cup {"append", "correct", "manifest"}

Coherent(s) ==
  /\ s.at \in Stages \cup Ended => s.op \in Operations
  /\ s.at \in Stages /\ s.op \in Short => s.at = "save"
  /\ s.at \in {"reserve", "save", "append", "merge", "install"} =>
       s.seen \in Bundle /\ Valid(s.seen)
  /\ s.at \in {"merge", "install"} => s.op = "importBundle"
  /\ s.at = "save" => s.op \in Short \cup Granters \cup {"importBundle"}
  /\ s.at \in {"reserve", "append", "load"} =>
       s.op \in Writers /\ s.left \in 1..2
  /\ s.at \in {"reserve", "append", "load"} /\ s.left = 2 => s.op = "correct"
  /\ s.at = "load" => s.op = "correct" /\ s.left = 1
  /\ s.at \in {"reserve", "save", "append"} /\ s.op \in Granters =>
       s.arg \in Device /\ s.left = 1
  /\ s.at \in {"save", "append"} /\ s.op \notin Short \cup {"importBundle"} =>
       s.n \in 1..MaxSeq

(* The identity bundle of a store is one validate_identity_bundle accepts. *)
HoldsValid(st) == st.bundle # None => Valid(st.bundle)

SdkInv ==
  /\ TypeOK /\ Sections
  /\ \A c \in Call : Coherent(call[c])
  /\ HoldsValid(store) /\ (saved # None => HoldsValid(saved))

-----------------------------------------------------------------------------
(* How a call changes its own record.                                      *)

Rest(c) == \A d \in Call \ {c} : call'[d] = call[d]

LEMMA BeginFacts ==
  ASSUME TypeOK, NEW c \in Call, NEW op \in Operations,
         NEW arg \in Key \cup {None}, NEW copy \in Bundle \cup {None},
         NEW stage \in Stages \cup {"failed"}, NEW writes \in 0..2,
         NEW outermost \in BOOLEAN,
         Begin(c, op, arg, copy, stage, writes, outermost)
  PROVE  /\ call' \in [Call -> CallState] /\ Rest(c)
         /\ call'[c].at = stage /\ call'[c].op = op /\ call'[c].arg = arg
         /\ call'[c].seen = copy /\ call'[c].left = writes
         /\ call'[c].outer = outermost /\ call'[c].n = 0
<1>1. PICK x : x = [Fresh EXCEPT !.at = stage, !.op = op, !.arg = arg,
                      !.seen = copy, !.left = writes, !.outer = outermost]
  OBVIOUS
<1>2. /\ x \in CallState
      /\ x.at = stage /\ x.op = op /\ x.arg = arg
      /\ x.seen = copy /\ x.left = writes
      /\ x.outer = outermost /\ x.n = 0
  <2>1. 0 \in 0..MaxSeq /\ stage \in {"ready"} \cup Stages \cup Ended
    BY SdkConstants DEF Ended
  <2>2. x = [at |-> stage, op |-> op, arg |-> arg, seen |-> copy, n |-> 0,
             left |-> writes, outer |-> outermost]
    BY <1>1 DEF Fresh
  <2>3. QED
    BY <2>1, <2>2 DEF CallState
<1>3. call' = [call EXCEPT ![c] = x]
  BY <1>1 DEF Begin
<1>4. QED
  BY <1>2, <1>3 DEF TypeOK, Rest

LEMMA LeaveFacts ==
  ASSUME TypeOK, NEW c \in Call, NEW outcome \in Ended,
         call' = Leave(c, outcome)
  PROVE  /\ call' \in [Call -> CallState] /\ Rest(c)
         /\ call'[c].at = outcome /\ call'[c].op = call[c].op
         /\ call'[c].arg = call[c].arg /\ call'[c].outer = FALSE
<1>1. PICK x : x = [Fresh EXCEPT !.at = outcome, !.op = call[c].op,
                      !.arg = call[c].arg]
  OBVIOUS
<1>2. call[c] \in CallState
  BY DEF TypeOK
<1>3. PICK op \in Operations \cup {None}, arg \in Key \cup {None} :
        op = call[c].op /\ arg = call[c].arg
  BY <1>2 DEF CallState
<1>4. /\ x \in CallState /\ x.at = outcome /\ x.op = op /\ x.arg = arg
      /\ x.outer = FALSE
  <2>1. /\ 0 \in 0..MaxSeq /\ 0 \in 0..2 /\ None \in Bundle \cup {None}
        /\ outcome \in {"ready"} \cup Stages \cup Ended
    BY SdkConstants
  <2>2. x = [at |-> outcome, op |-> op, arg |-> arg, seen |-> None, n |-> 0,
             left |-> 0, outer |-> FALSE]
    BY <1>1, <1>3 DEF Fresh
  <2>3. QED
    BY <2>1, <2>2 DEF CallState
<1>5. call' = [call EXCEPT ![c] = x]
  BY <1>1 DEF Leave
<1>6. QED
  BY <1>3, <1>4, <1>5 DEF TypeOK, Rest

-----------------------------------------------------------------------------
(* atomic keeps its books.                                                 *)

(* store.atomic, entered *)
LEMMA SectionEntered ==
  ASSUME TypeOK, Sections, NEW c \in Call, call[c].at = "ready",
         Cardinality(Running) < MaxRunning,
         Rest(c), call'[c].at \in Stages, call'[c].op \notin Short,
         call'[c].outer = (depth = 0), depth' = depth + 1,
         saved' = IF depth = 0 THEN store ELSE saved
  PROVE  Sections'
<1>1. c \notin Running /\ c \notin SectionCalls /\ ~call[c].outer
  BY DEF Running, SectionCalls, InSection, Sections, Stages
<1>2. Running' = Running \cup {c} /\ SectionCalls' = SectionCalls \cup {c}
  BY DEF Rest, Running, SectionCalls, InSection, Short
<1>3. SectionCalls \in SUBSET Running
  BY DEF SectionCalls, InSection, Running
<1>4. /\ IsFiniteSet(Running) /\ IsFiniteSet(SectionCalls)
      /\ Cardinality(Running) \in Nat /\ Cardinality(SectionCalls) \in Nat
  BY <1>3, FS_Subset, FS_CardinalityType DEF Sections
<1>5. /\ IsFiniteSet(Running') /\ Cardinality(Running') = Cardinality(Running) + 1
      /\ Cardinality(SectionCalls') = Cardinality(SectionCalls) + 1
  BY <1>1, <1>2, <1>4, FS_AddElement
<1>6. Cardinality(Running') <= MaxRunning /\ depth' = Cardinality(SectionCalls')
  BY <1>4, <1>5, SdkConstants DEF Sections
<1>7. depth = 0 => \A d \in Call : ~call[d].outer
  <2>1. depth = 0 => SectionCalls = {}
    BY <1>4, FS_EmptySet DEF Sections
  <2>2. QED
    BY <2>1 DEF Sections, SectionCalls
<1>8. ASSUME NEW d \in Call, call'[d].outer
      PROVE  InSection(d)' /\ (d # c => call[d].outer /\ depth # 0)
  <2>1. CASE d = c
    BY <2>1 DEF InSection, Short
  <2>2. CASE d # c
    BY <1>7, <1>8, <2>2 DEF Rest, Sections, InSection
  <2>3. QED
    BY <2>1, <2>2
<1>9. ASSUME NEW d \in Call, NEW e \in Call, call'[d].outer, call'[e].outer
      PROVE  d = e
  <2>1. call'[c].outer <=> depth = 0
    OBVIOUS
  <2>2. CASE d = c \/ e = c
    BY <1>8, <1>9, <2>1, <2>2
  <2>3. CASE d # c /\ e # c
    BY <1>8, <1>9, <2>3 DEF Sections
  <2>4. QED
    BY <2>2, <2>3
<1>10. (saved' # None) = (\E d \in Call : call'[d].outer)
  <2>1. CASE depth = 0
    BY <2>1, NoneIsNothing DEF TypeOK
  <2>2. CASE depth # 0
    BY <1>1, <2>2 DEF Rest, Sections
  <2>3. QED
    BY <2>1, <2>2
<1>11. QED
  BY <1>5, <1>6, <1>8, <1>9, <1>10 DEF Sections

(* A call goes on within its section, or outside of every section. *)
LEMMA SectionKept ==
  ASSUME TypeOK, Sections, NEW c \in Call,
         Rest(c), call[c].at \in Stages, call'[c].at \in Stages,
         call'[c].op = call[c].op, call'[c].outer = call[c].outer,
         UNCHANGED <<depth, saved>>
  PROVE  Sections'
<1>1. Running' = Running /\ SectionCalls' = SectionCalls
  BY DEF Rest, Running, SectionCalls, InSection
<1>2. \A d \in Call : call'[d].outer = call[d].outer /\ InSection(d)' = InSection(d)
  BY DEF Rest, InSection
<1>3. QED
  BY <1>1, <1>2 DEF Sections

(* atomic returns or throws *)
LEMMA SectionLeft ==
  ASSUME TypeOK, Sections, NEW c \in Call, InSection(c),
         Rest(c), call'[c].at \in Ended, ~call'[c].outer, depth' = depth - 1,
         saved' = IF call[c].outer THEN None ELSE saved
  PROVE  Sections' /\ depth \in 1..MaxRunning
<1>1. c \in Running /\ c \in SectionCalls
  BY DEF Running, SectionCalls, InSection
<1>2. Running' = Running \ {c} /\ SectionCalls' = SectionCalls \ {c}
  BY DEF Rest, Running, SectionCalls, InSection, Ended, Stages
<1>3. SectionCalls \in SUBSET Running
  BY DEF SectionCalls, InSection, Running
<1>4. /\ IsFiniteSet(Running) /\ IsFiniteSet(SectionCalls)
      /\ Cardinality(Running) \in Nat /\ Cardinality(SectionCalls) \in Nat
      /\ Cardinality(SectionCalls) <= Cardinality(Running)
      /\ Cardinality(SectionCalls) # 0
  BY <1>1, <1>3, FS_Subset, FS_CardinalityType, FS_EmptySet DEF Sections
<1>5. /\ IsFiniteSet(Running') /\ Cardinality(Running') = Cardinality(Running) - 1
      /\ Cardinality(SectionCalls') = Cardinality(SectionCalls) - 1
  BY <1>1, <1>2, <1>4, FS_RemoveElement
<1>6. /\ Cardinality(Running') <= MaxRunning
      /\ depth' = Cardinality(SectionCalls')
      /\ depth \in 1..MaxRunning
  BY <1>4, <1>5, SdkConstants DEF Sections
<1>7. \A d \in Call : call'[d].outer =>
        d # c /\ call[d].outer /\ InSection(d)'
  BY DEF Rest, Sections, InSection
<1>8. \A d, e \in Call : call'[d].outer /\ call'[e].outer => d = e
  BY <1>7 DEF Sections
<1>9. (saved' # None) = (\E d \in Call : call'[d].outer)
  <2>1. CASE call[c].outer
    BY <1>7, <2>1 DEF Sections
  <2>2. CASE ~call[c].outer
    BY <2>2 DEF Rest, Sections
  <2>3. QED
    BY <2>1, <2>2
<1>10. QED
  BY <1>5, <1>6, <1>7, <1>8, <1>9 DEF Sections

(* createRoot and setActiveAk have no section.                             *)
LEMMA ShortBegun ==
  ASSUME TypeOK, Sections, NEW c \in Call, call[c].at = "ready",
         Cardinality(Running) < MaxRunning,
         Rest(c), call'[c].at \in Stages \cup Ended, call'[c].op \in Short,
         ~call'[c].outer, UNCHANGED <<depth, saved>>
  PROVE  Sections'
<1>1. c \notin Running /\ c \notin SectionCalls /\ ~call[c].outer
  BY DEF Running, SectionCalls, InSection, Sections, Stages
<1>2. /\ Running' = Running \cup {c} \/ Running' = Running
      /\ SectionCalls' = SectionCalls
  <2>1. CASE call'[c].at \in Stages
    BY <1>1, <2>1 DEF Rest, Running, SectionCalls, InSection, Short
  <2>2. CASE call'[c].at \notin Stages
    BY <1>1, <2>2 DEF Rest, Running, SectionCalls, InSection, Short
  <2>3. QED
    BY <2>1, <2>2
<1>3. IsFiniteSet(Running) /\ Cardinality(Running) \in Nat
  BY FS_CardinalityType DEF Sections
<1>4. IsFiniteSet(Running') /\ Cardinality(Running') <= MaxRunning
  <2>1. /\ IsFiniteSet(Running \cup {c})
        /\ Cardinality(Running \cup {c}) = Cardinality(Running) + 1
    BY <1>1, <1>3, FS_AddElement
  <2>2. CASE Running' = Running
    BY <2>2 DEF Sections
  <2>3. CASE Running' = Running \cup {c}
    BY <1>3, <2>1, <2>3, SdkConstants
  <2>4. QED
    BY <1>2, <2>2, <2>3
<1>5. ASSUME NEW d \in Call
      PROVE  /\ call'[d].outer <=> call[d].outer
             /\ call[d].outer => InSection(d)'
  <2>1. CASE d = c
    BY <1>1, <2>1
  <2>2. CASE d # c
    BY <2>2 DEF Rest, Sections, InSection
  <2>3. QED
    BY <2>1, <2>2
<1>6. QED
  BY <1>2, <1>4, <1>5 DEF Sections

LEMMA ShortLeft ==
  ASSUME TypeOK, Sections, NEW c \in Call, call[c].op \in Short,
         Rest(c), call'[c].at \in Ended, call'[c].op = call[c].op,
         ~call'[c].outer, UNCHANGED <<depth, saved>>
  PROVE  Sections'
<1>1. c \notin SectionCalls /\ ~call[c].outer
  BY DEF SectionCalls, InSection, Sections, Short
<1>2. Running' = Running \ {c} /\ SectionCalls' = SectionCalls
  BY <1>1 DEF Rest, Running, SectionCalls, InSection, Ended, Stages, Short
<1>3. Running \ {c} \in SUBSET Running
  OBVIOUS
<1>4. /\ IsFiniteSet(Running') /\ Cardinality(Running') <= MaxRunning
  <2>1. /\ IsFiniteSet(Running \ {c}) /\ Cardinality(Running \ {c}) \in Nat
        /\ Cardinality(Running) \in Nat
        /\ Cardinality(Running \ {c}) <= Cardinality(Running)
    BY <1>3, FS_Subset, FS_CardinalityType DEF Sections
  <2>2. QED
    BY <1>2, <2>1, SdkConstants DEF Sections
<1>5. ASSUME NEW d \in Call
      PROVE  /\ call'[d].outer <=> call[d].outer
             /\ call[d].outer => InSection(d)'
  <2>1. CASE d = c
    BY <1>1, <2>1
  <2>2. CASE d # c
    BY <2>2 DEF Rest, Sections, InSection
  <2>3. QED
    BY <2>1, <2>2
<1>6. QED
  BY <1>2, <1>4, <1>5 DEF Sections

-----------------------------------------------------------------------------
(* Identity bundles                                                        *)

(* Nothing of an earlier bundle is missing from a later one. *)
Improves(b, k) ==
  k # None => /\ b # None /\ b.root = k.root
              /\ k.devices \subseteq b.devices
              /\ k.revoked \subseteq b.revoked

LEMMA ValidFacts ==
  ASSUME NEW b \in Bundle
  PROVE  /\ b # None /\ b.root \in Root /\ b.active \in Key
         /\ b.devices \in SUBSET Device /\ b.revoked \in SUBSET Device
         /\ b.seq \in Counters /\ b.root \notin b.revoked
         /\ Valid(b) <=> b.active = b.root \/ b.active \in b.devices \ b.revoked
<1>1. /\ b # None /\ b.root \in Root /\ b.active \in Key
      /\ b.devices \in SUBSET Device /\ b.revoked \in SUBSET Device
      /\ b.seq \in Counters
  BY NoneIsNothing DEF Bundle
<1>2. b.root \notin b.revoked
  BY <1>1, SdkConstants
<1>3. QED
  BY <1>1, <1>2 DEF Valid, IsAuthorized

LEMMA ZeroFacts == Zero \in Counters /\ 0 \in 0..MaxSeq
BY SdkConstants DEF Zero, Counters

LEMMA MaximaFacts ==
  ASSUME NEW f \in Counters, NEW g \in Counters
  PROVE  /\ Maxima(f, g) \in Counters
         /\ \A k \in Key : f[k] <= Maxima(f, g)[k] /\ g[k] <= Maxima(f, g)[k]
<1>1. \A k \in Key : f[k] \in 0..MaxSeq /\ g[k] \in 0..MaxSeq
  BY DEF Counters
<1>2. \A k \in Key : /\ LargerOf(f[k], g[k]) \in 0..MaxSeq
                     /\ f[k] <= LargerOf(f[k], g[k])
                     /\ g[k] <= LargerOf(f[k], g[k])
  BY <1>1, SdkConstants DEF LargerOf
<1>3. QED
  BY <1>2 DEF Maxima, Counters

(* createRoot *)
LEMMA NewBundleFacts ==
  ASSUME NEW r \in Root
  PROVE  NewBundle(r) \in Bundle /\ Valid(NewBundle(r))
<1>1. PICK b : b = NewBundle(r)
  OBVIOUS
<1>2. b \in Bundle /\ b.active = b.root
  BY <1>1, ZeroFacts DEF NewBundle, Bundle, Key
<1>3. QED
  BY <1>1, <1>2, ValidFacts

(* setActiveAk *)
LEMMA ActiveFacts ==
  ASSUME NEW b \in Bundle, NEW k \in Key, IsAuthorized(b, k)
  PROVE  LET a == [b EXCEPT !.active = k] IN
         /\ a \in Bundle /\ Valid(a) /\ Improves(a, b)
         /\ a.seq = b.seq
<1>1. PICK a : a = [b EXCEPT !.active = k]
  OBVIOUS
<1>2. /\ a \in Bundle /\ a.root = b.root /\ a.active = k
      /\ a.devices = b.devices /\ a.revoked = b.revoked /\ a.seq = b.seq
  BY <1>1 DEF Bundle
<1>3. Valid(a) /\ Improves(a, b)
  BY <1>2, ValidFacts DEF IsAuthorized, Improves
<1>4. QED
  BY <1>1, <1>2, <1>3

(* addDeviceKey *)
LEMMA WithDeviceFacts ==
  ASSUME NEW b \in Bundle, Valid(b), NEW d \in Device
  PROVE  LET a == WithDevice(b, d) IN
         /\ a \in Bundle /\ Valid(a) /\ Improves(a, b)
         /\ d \in a.devices /\ a.seq = b.seq
<1>1. PICK a, D : a = [b EXCEPT !.devices = D] /\ D = b.devices \cup {d}
  OBVIOUS
<1>2. D \in SUBSET Device
  BY <1>1, ValidFacts
<1>3. /\ a \in Bundle /\ a.root = b.root /\ a.active = b.active
      /\ a.devices = D /\ a.revoked = b.revoked /\ a.seq = b.seq
  BY <1>1, <1>2 DEF Bundle
<1>4. Valid(a) /\ Improves(a, b)
  BY <1>1, <1>3, ValidFacts DEF Improves
<1>5. a = WithDevice(b, d)
  BY <1>1 DEF WithDevice
<1>6. QED
  BY <1>1, <1>3, <1>4, <1>5

(* revokeDeviceKey: the root is selected instead of the revoked key.       *)
LEMMA WithoutDeviceFacts ==
  ASSUME NEW b \in Bundle, Valid(b), NEW d \in Device
  PROVE  LET a == WithoutDevice(b, d) IN
         /\ a \in Bundle /\ Valid(a) /\ Improves(a, b)
         /\ d \in a.revoked /\ a.seq = b.seq
<1>1. PICK a, R, k : /\ a = [b EXCEPT !.revoked = R, !.active = k]
                     /\ R = b.revoked \cup {d}
                     /\ k = IF b.active = d THEN b.root ELSE b.active
  OBVIOUS
<1>2. R \in SUBSET Device /\ k \in Key
  BY <1>1, ValidFacts DEF Key
<1>3. /\ a \in Bundle /\ a.root = b.root /\ a.active = k
      /\ a.devices = b.devices /\ a.revoked = R /\ a.seq = b.seq
  BY <1>1, <1>2 DEF Bundle
<1>4. Valid(a) /\ Improves(a, b)
  BY <1>1, <1>3, ValidFacts DEF Improves
<1>5. a = WithoutDevice(b, d)
  BY <1>1 DEF WithoutDevice
<1>6. QED
  BY <1>1, <1>3, <1>4, <1>5

(* A number or all numbers of a bundle change. *)
LEMMA SeqFacts ==
  ASSUME NEW b \in Bundle, NEW q \in Counters
  PROVE  LET a == [b EXCEPT !.seq = q] IN
         /\ a \in Bundle /\ a.seq = q /\ (Valid(b) => Valid(a))
         /\ a.root = b.root /\ a.active = b.active
         /\ a.devices = b.devices /\ a.revoked = b.revoked
<1>1. PICK a : a = [b EXCEPT !.seq = q]
  OBVIOUS
<1>2. /\ a \in Bundle /\ a.root = b.root /\ a.active = b.active
      /\ a.devices = b.devices /\ a.revoked = b.revoked /\ a.seq = q
  BY <1>1 DEF Bundle
<1>3. Valid(b) => Valid(a)
  BY <1>2, ValidFacts
<1>4. QED
  BY <1>1, <1>2, <1>3

(* importBundle, mergeIdentityAuthorization: an import forgets nothing and *)
(* what it selects may write.                                              *)
LEMMA MergedFacts ==
  ASSUME NEW b \in Bundle \cup {None}, NEW in \in Bundle, CanMerge(b, in)
  PROVE  LET a == Merged(b, in) IN
         /\ a \in Bundle /\ Valid(a) /\ Improves(a, b)
<1>1. CASE b = None
  BY <1>1, NoneIsNothing DEF Merged, Improves, CanMerge
<1>2. CASE b # None
  <2>1. b \in Bundle
    BY <1>2
  <2>2. PICK D, R, S : /\ D = b.devices \cup in.devices
                       /\ R = b.revoked \cup in.revoked
                       /\ S = Maxima(b.seq, in.seq)
    OBVIOUS
  <2>3. D \in SUBSET Device /\ R \in SUBSET Device /\ S \in Counters
    BY <2>1, <2>2, ValidFacts, MaximaFacts
  <2>4. PICK m : m = [b EXCEPT !.devices = D, !.revoked = R, !.seq = S]
    OBVIOUS
  <2>5. /\ m \in Bundle /\ m.root = b.root /\ m.active = b.active
        /\ m.devices = D /\ m.revoked = R
    BY <2>1, <2>3, <2>4 DEF Bundle
  <2>6. m = MergedKeys(b, in)
    BY <2>2, <2>4 DEF MergedKeys
  <2>7. PICK k \in Key : /\ k = IF IsAuthorized(m, m.active) THEN m.active
                                ELSE IF IsAuthorized(m, in.active) THEN in.active
                                     ELSE m.root
                         /\ IsAuthorized(m, k)
    <3>1. m.root \in Key /\ m.active \in Key /\ in.active \in Key
      BY <2>5, ValidFacts DEF Key
    <3>2. IsAuthorized(m, m.root)
      BY DEF IsAuthorized
    <3>3. QED
      BY <3>1, <3>2
  <2>8. PICK a : a = [m EXCEPT !.active = k]
    OBVIOUS
  <2>9. a \in Bundle /\ Valid(a) /\ Improves(a, m)
    BY <2>5, <2>7, <2>8, ActiveFacts
  <2>10. Improves(a, b)
    BY <2>2, <2>5, <2>9, ValidFacts DEF Improves
  <2>11. a = Merged(b, in)
    BY <1>2, <2>6, <2>7, <2>8 DEF Merged
  <2>12. QED
    BY <2>9, <2>10, <2>11
<1>3. QED
  BY <1>1, <1>2

-----------------------------------------------------------------------------
(* The steps of a running call: what each makes of the call and the store. *)

Same(c) ==
  /\ call'[c].op = call[c].op /\ call'[c].arg = call[c].arg
  /\ call'[c].outer = call[c].outer

LEMMA CallTypes ==
  ASSUME SdkInv, NEW c \in Call
  PROVE  /\ call[c] \in CallState /\ Coherent(call[c])
         /\ call[c].at \in {"ready"} \cup Stages \cup Ended
         /\ call[c].op \in Operations \cup {None}
         /\ call[c].arg \in Key \cup {None}
         /\ call[c].seen \in Bundle \cup {None}
         /\ call[c].n \in 0..MaxSeq /\ call[c].left \in 0..2
         /\ call[c].outer \in BOOLEAN
         /\ Lifecycle(c) <=> call[c].op \in Granters
BY DEF SdkInv, TypeOK, CallState, Lifecycle, Granters

LEMMA StoreTypes ==
  ASSUME NEW st \in Store
  PROVE  /\ st # None /\ st.bundle \in Bundle \cup {None}
         /\ st.seqs \in Counters /\ st.log \in SUBSET Record
         /\ st.objects \in SUBSET Object
BY NoneIsNothing DEF Store

(* requireAuthorizedAk gives a key to every record that is written.        *)
LEMMA AuthorFacts ==
  ASSUME SdkInv, NEW c \in Call, call[c].at \in {"reserve", "append"}
  PROVE  /\ call[c].seen \in Bundle /\ Author(c) \in Key
         /\ Lifecycle(c) => Author(c) = call[c].seen.root
         /\ ~Lifecycle(c) => Author(c) = Resolved(call[c].seen, Named(c))
<1>1. call[c].seen \in Bundle /\ call[c].arg \in Key \cup {None}
  BY CallTypes DEF Coherent
<1>2. call[c].seen.root \in Key /\ call[c].seen.active \in Key
  BY <1>1, ValidFacts DEF Key
<1>3. Resolved(call[c].seen, Named(c)) \in Key
  BY <1>1, <1>2 DEF Resolved, Named
<1>4. QED
  BY <1>1, <1>2, <1>3 DEF Author

LEMMA ReserveFacts ==
  ASSUME SdkInv, NEW c \in Call, Reserve(c)
  PROVE  /\ call' \in [Call -> CallState] /\ Rest(c) /\ Same(c)
         /\ call'[c].left = call[c].left /\ call'[c].n = NextSeq(c)
         /\ NextSeq(c) \in 1..MaxSeq /\ NextSeq(c) = store.seqs[Author(c)] + 1
         /\ call'[c].at = IF Lifecycle(c) THEN "save" ELSE "append"
         /\ call'[c].seen \in Bundle /\ Valid(call'[c].seen)
         /\ ~Lifecycle(c) => call'[c].seen = call[c].seen
         /\ call'[c].seen.root = call[c].seen.root
         /\ call'[c].seen.devices = call[c].seen.devices
         /\ call'[c].seen.revoked = call[c].seen.revoked
         /\ store' \in Store /\ store'.bundle = store.bundle
         /\ store'.log = store.log /\ store'.objects = store.objects
         /\ store'.seqs = [store.seqs EXCEPT ![Author(c)] = NextSeq(c)]
<1>1. /\ call[c].seen \in Bundle /\ Author(c) \in Key
      /\ Valid(call[c].seen) /\ call[c].seen.seq \in Counters
  BY AuthorFacts, CallTypes, ValidFacts DEF Reserve, Coherent
<1>2. store \in Store /\ call \in [Call -> CallState] /\ store.seqs \in Counters
  BY StoreTypes DEF SdkInv, TypeOK
<1>3. /\ NextSeq(c) = store.seqs[Author(c)] + 1 /\ NextSeq(c) \in 1..MaxSeq
      /\ NextSeq(c) \in 0..MaxSeq
  BY <1>1, <1>2, SdkConstants DEF NextSeq, Reserve, Counters
<1>4. PICK n, a, q, w, l : /\ n = NextSeq(c) /\ a = Author(c)
                           /\ q = [call[c].seen.seq EXCEPT ![a] = n]
                           /\ w = [store.seqs EXCEPT ![a] = n]
                           /\ l = Lifecycle(c)
  OBVIOUS
<1>5. q \in Counters /\ w \in Counters
  BY <1>1, <1>2, <1>3, <1>4 DEF Counters
<1>6. PICK b : b = IF Lifecycle(c) THEN [call[c].seen EXCEPT !.seq = q]
                                    ELSE call[c].seen
  OBVIOUS
<1>7. /\ b \in Bundle /\ Valid(b) /\ b.root = call[c].seen.root
      /\ b.devices = call[c].seen.devices /\ b.revoked = call[c].seen.revoked
      /\ ~Lifecycle(c) => b = call[c].seen
  BY <1>1, <1>5, <1>6, SeqFacts
<1>8. [call[c].seen EXCEPT !.seq[a] = n] = [call[c].seen EXCEPT !.seq = q]
  BY <1>4
<1>9. PICK t : t = IF Lifecycle(c) THEN "save" ELSE "append"
  OBVIOUS
<1>10. call' = [call EXCEPT ![c].n = n, ![c].at = t, ![c].seen = b]
  <2>1. call' = [call EXCEPT ![c].n = n, ![c].at = t,
                   ![c].seen = IF Lifecycle(c)
                               THEN [@ EXCEPT !.seq[a] = n] ELSE @]
    BY <1>4, <1>9 DEF Reserve
  <2>2. QED
    BY <1>2, <1>6, <1>8, <2>1
<1>11. t \in Stages /\ n \in 0..MaxSeq
  BY <1>3, <1>4, <1>9 DEF Stages
<1>12. /\ call' \in [Call -> CallState] /\ Rest(c) /\ Same(c)
       /\ call'[c].left = call[c].left /\ call'[c].n = n
       /\ call'[c].at = t /\ call'[c].seen = b
  <2>1. PICK x : x = [call[c] EXCEPT !.n = n, !.at = t, !.seen = b]
    OBVIOUS
  <2>2. call[c] \in CallState
    BY <1>2
  <2>3. /\ x \in CallState /\ x.n = n /\ x.at = t /\ x.seen = b
        /\ x.op = call[c].op /\ x.arg = call[c].arg /\ x.left = call[c].left
        /\ x.outer = call[c].outer
    BY <1>7, <1>11, <2>1, <2>2 DEF CallState
  <2>4. call' = [call EXCEPT ![c] = x]
    BY <1>2, <1>10, <2>1
  <2>5. call' \in [Call -> CallState] /\ Rest(c) /\ call'[c] = x
    BY <1>2, <2>3, <2>4 DEF Rest
  <2>6. QED
    BY <2>3, <2>5 DEF Same
<1>13. store' = [store EXCEPT !.seqs = w]
  BY <1>4 DEF Reserve
<1>14. /\ store' \in Store /\ store'.bundle = store.bundle
       /\ store'.log = store.log /\ store'.objects = store.objects
       /\ store'.seqs = w
  BY <1>2, <1>5, <1>13 DEF Store
<1>15. QED
  BY <1>3, <1>4, <1>7, <1>9, <1>12, <1>14

LEMMA SaveFacts ==
  ASSUME SdkInv, NEW c \in Call, Save(c)
  PROVE  /\ call' \in [Call -> CallState] /\ Rest(c)
         /\ call'[c].op = call[c].op /\ call'[c].arg = call[c].arg
         /\ call[c].op \in Short => call'[c].at = "done" /\ ~call'[c].outer
         /\ call[c].op \notin Short =>
              /\ Same(c) /\ call'[c].at = IF Lifecycle(c) THEN "append" ELSE "exit"
              /\ call'[c].left = call[c].left /\ call'[c].n = call[c].n
              /\ call'[c].seen = call[c].seen
         /\ store' \in Store /\ store'.bundle = call[c].seen
         /\ store'.seqs = call[c].seen.seq
         /\ store'.log = store.log /\ store'.objects = store.objects
         /\ call[c].seen \in Bundle /\ Valid(call[c].seen)
<1>1. /\ call[c].seen \in Bundle /\ call[c].seen.seq \in Counters
      /\ Valid(call[c].seen)
  BY CallTypes, ValidFacts DEF Save, Coherent
<1>2. store \in Store /\ call \in [Call -> CallState]
  BY DEF SdkInv, TypeOK
<1>3. PICK b, q : b = call[c].seen /\ q = call[c].seen.seq
  OBVIOUS
<1>4. store' = [store EXCEPT !.bundle = b, !.seqs = q]
  BY <1>3 DEF Save
<1>5. /\ store' \in Store /\ store'.bundle = b /\ store'.seqs = q
      /\ store'.log = store.log /\ store'.objects = store.objects
  BY <1>1, <1>2, <1>3, <1>4 DEF Store
<1>6. CASE call[c].op \in Short
  <2>1. call' = Leave(c, "done")
    BY <1>6 DEF Save, Short
  <2>2. QED
    BY <1>1, <1>3, <1>5, <1>6, <2>1, LeaveFacts DEF SdkInv, Ended
<1>7. CASE call[c].op \notin Short
  <2>1. PICK t : t = IF Lifecycle(c) THEN "append" ELSE "exit"
    OBVIOUS
  <2>2. call' = [call EXCEPT ![c].at = t]
    BY <1>7, <2>1 DEF Save, Short
  <2>3. t \in Stages
    BY <2>1 DEF Stages
  <2>4. /\ call' \in [Call -> CallState] /\ Rest(c) /\ Same(c)
        /\ call'[c].at = t /\ call'[c].left = call[c].left
        /\ call'[c].n = call[c].n /\ call'[c].seen = call[c].seen
    BY <1>2, <2>2, <2>3 DEF CallState, Rest, Same
  <2>5. QED
    BY <1>1, <1>3, <1>5, <1>7, <2>1, <2>4 DEF Same
<1>8. QED
  BY <1>6, <1>7

LEMMA RecordFacts ==
  ASSUME SdkInv, NEW c \in Call, call[c].at = "append"
  PROVE  /\ RecordOf(c) \in Record
         /\ RecordOf(c).by = c /\ RecordOf(c).ak = Author(c)
         /\ RecordOf(c).seq = call[c].n /\ RecordOf(c).kind = KindOf(c)
<1>1. Author(c) \in Key /\ call[c].n \in 1..MaxSeq
  BY AuthorFacts, CallTypes DEF Coherent, Writers, Granters, Short
<1>2. Lifecycle(c) => call[c].arg \in Device
  BY CallTypes DEF Coherent
<1>3. KindOf(c) \in {"event", "correction", "manifest",
                     "DeviceKeyGrant", "DeviceKeyRevoke"}
  BY DEF KindOf
<1>4. PICK d \in Device \cup {None} : d = IF Lifecycle(c) THEN call[c].arg ELSE None
  BY <1>2
<1>5. RecordOf(c) = [kind |-> KindOf(c), ak |-> Author(c), seq |-> call[c].n,
                     device |-> d, by |-> c]
  BY <1>4 DEF RecordOf
<1>6. QED
  BY <1>1, <1>3, <1>5 DEF Record

LEMMA AppendFacts ==
  ASSUME SdkInv, NEW c \in Call, Append(c)
  PROVE  /\ call' \in [Call -> CallState] /\ Rest(c) /\ Same(c)
         /\ call'[c].at = AfterRecord(c) /\ call'[c].left = call[c].left - 1
         /\ call[c].left \in 1..2 /\ call'[c].seen = call[c].seen
         /\ RecordOf(c) \in Record
         /\ store' \in Store /\ store'.log = store.log \cup {RecordOf(c)}
         /\ store'.bundle = store.bundle /\ store'.seqs = store.seqs
         /\ store'.objects = store.objects
<1>1. RecordOf(c) \in Record /\ call[c].left \in 1..2
  BY RecordFacts, CallTypes DEF Append, Coherent
<1>2. store \in Store /\ call \in [Call -> CallState] /\ store.log \in SUBSET Record
  BY StoreTypes DEF SdkInv, TypeOK
<1>3. PICK w, l, t : /\ w = store.log \cup {RecordOf(c)}
                     /\ l = call[c].left - 1 /\ t = AfterRecord(c)
  OBVIOUS
<1>4. w \in SUBSET Record /\ l \in 0..2 /\ t \in Stages
  BY <1>1, <1>2, <1>3 DEF AfterRecord, Stages
<1>5. store' = [store EXCEPT !.log = w]
  BY <1>3 DEF Append
<1>6. call' = [call EXCEPT ![c].left = l, ![c].at = t]
  BY <1>2, <1>3 DEF Append
<1>7. /\ store' \in Store /\ store'.log = w /\ store'.bundle = store.bundle
      /\ store'.seqs = store.seqs /\ store'.objects = store.objects
  BY <1>2, <1>4, <1>5 DEF Store
<1>8. /\ call' \in [Call -> CallState] /\ Rest(c) /\ Same(c)
      /\ call'[c].at = t /\ call'[c].left = l /\ call'[c].seen = call[c].seen
  BY <1>2, <1>4, <1>6 DEF CallState, Rest, Same
<1>9. QED
  BY <1>1, <1>3, <1>7, <1>8

LEMMA LoadFacts ==
  ASSUME SdkInv, NEW c \in Call, Load(c)
  PROVE  /\ call' \in [Call -> CallState] /\ Rest(c) /\ Same(c)
         /\ call'[c].left = call[c].left
         /\ call'[c].seen = store.bundle
         /\ call'[c].at = Granting(store.bundle, call[c].arg)
         /\ call'[c].at \in {"reserve", "rollback"}
         /\ call'[c].at = "reserve" =>
              /\ store.bundle \in Bundle /\ Valid(store.bundle)
              /\ CanWrite(store.bundle, call[c].arg)
<1>1. store.bundle \in Bundle \cup {None} /\ call \in [Call -> CallState]
  BY StoreTypes DEF SdkInv, TypeOK
<1>2. PICK b, t : b = store.bundle /\ t = Granting(store.bundle, call[c].arg)
  OBVIOUS
<1>3. t \in {"reserve", "rollback"} /\ t \in Stages
  BY <1>2 DEF Granting, Stages
<1>4. call' = [call EXCEPT ![c].seen = b, ![c].at = t]
  BY <1>2 DEF Load
<1>5. /\ call' \in [Call -> CallState] /\ Rest(c) /\ Same(c)
      /\ call'[c].left = call[c].left /\ call'[c].seen = b /\ call'[c].at = t
  BY <1>1, <1>2, <1>3, <1>4 DEF CallState, Rest, Same
<1>6. t = "reserve" => /\ store.bundle \in Bundle /\ Valid(store.bundle)
                       /\ CanWrite(store.bundle, call[c].arg)
  BY <1>1, <1>2 DEF Granting, CanWrite, SdkInv, HoldsValid
<1>7. QED
  BY <1>2, <1>3, <1>5, <1>6

LEMMA MergeFacts ==
  ASSUME SdkInv, NEW c \in Call, Merge(c)
  PROVE  /\ call' \in [Call -> CallState] /\ Rest(c) /\ Same(c)
         /\ call'[c].left = call[c].left /\ call'[c].at = "install"
         /\ call[c].seen \in Bundle
         /\ call'[c].seen \in Bundle /\ Valid(call'[c].seen)
         /\ call'[c].seen.root = call[c].seen.root
         /\ call'[c].seen.devices = call[c].seen.devices
         /\ call'[c].seen.revoked = call[c].seen.revoked
         /\ call'[c].seen.seq \in Counters
         /\ \A k \in Key : store.seqs[k] <= call'[c].seen.seq[k]
<1>1. /\ call[c].seen \in Bundle /\ Valid(call[c].seen)
      /\ call[c].seen.seq \in Counters
  BY CallTypes, ValidFacts DEF Merge, Coherent
<1>2. store.seqs \in Counters /\ call \in [Call -> CallState]
  BY StoreTypes DEF SdkInv, TypeOK
<1>3. PICK q : q = Maxima(call[c].seen.seq, store.seqs)
  OBVIOUS
<1>4. q \in Counters /\ \A k \in Key : store.seqs[k] <= q[k]
  BY <1>1, <1>2, <1>3, MaximaFacts
<1>5. PICK b : b = [call[c].seen EXCEPT !.seq = q]
  OBVIOUS
<1>6. /\ b \in Bundle /\ Valid(b) /\ b.seq = q /\ b.root = call[c].seen.root
      /\ b.devices = call[c].seen.devices /\ b.revoked = call[c].seen.revoked
  BY <1>1, <1>4, <1>5, SeqFacts
<1>7. call' = [call EXCEPT ![c].seen = b, ![c].at = "install"]
  <2>1. call' = [call EXCEPT ![c].seen.seq = q, ![c].at = "install"]
    BY <1>3 DEF Merge
  <2>2. QED
    BY <1>2, <1>5, <2>1
<1>8. /\ call' \in [Call -> CallState] /\ Rest(c) /\ Same(c)
      /\ call'[c].left = call[c].left /\ call'[c].at = "install"
      /\ call'[c].seen = b
  BY <1>2, <1>6, <1>7 DEF CallState, Rest, Same, Stages
<1>9. QED
  BY <1>1, <1>4, <1>6, <1>8

LEMMA InstallFacts ==
  ASSUME SdkInv, NEW c \in Call, Install(c)
  PROVE  /\ call' \in [Call -> CallState] /\ Rest(c) /\ Same(c)
         /\ call'[c].left = call[c].left /\ call'[c].at = "save"
         /\ call'[c].seen = call[c].seen /\ call[c].seen \in Bundle
         /\ store' \in Store /\ store'.seqs = call[c].seen.seq
         /\ store'.bundle = store.bundle /\ store'.log = store.log
         /\ store'.objects = store.objects
<1>1. call[c].seen \in Bundle /\ call[c].seen.seq \in Counters
  BY CallTypes, ValidFacts DEF Install, Coherent
<1>2. store \in Store /\ call \in [Call -> CallState]
  BY DEF SdkInv, TypeOK
<1>3. PICK q : q = call[c].seen.seq
  OBVIOUS
<1>4. store' = [store EXCEPT !.seqs = q] /\ call' = [call EXCEPT ![c].at = "save"]
  BY <1>3 DEF Install
<1>5. /\ store' \in Store /\ store'.seqs = q /\ store'.bundle = store.bundle
      /\ store'.log = store.log /\ store'.objects = store.objects
  BY <1>1, <1>2, <1>3, <1>4 DEF Store
<1>6. /\ call' \in [Call -> CallState] /\ Rest(c) /\ Same(c)
      /\ call'[c].left = call[c].left /\ call'[c].at = "save"
      /\ call'[c].seen = call[c].seen
  BY <1>2, <1>4 DEF CallState, Rest, Same, Stages
<1>7. QED
  BY <1>1, <1>3, <1>5, <1>6

-----------------------------------------------------------------------------
(* Every step keeps the invariant.                                         *)

LEMMA InvAfter ==
  ASSUME SdkInv, NEW c \in Call,
         call' \in [Call -> CallState], Rest(c), Coherent(call'[c]), Sections',
         store' \in Store, HoldsValid(store'),
         saved' \in Store \cup {None}, saved' # None => HoldsValid(saved'),
         files' \subseteq Bundle, drawn' \subseteq Key,
         faults' \in 0..MaxFaults, before' \in Store
  PROVE  SdkInv'
<1>1. \A d \in Call : Coherent(call'[d])
  BY DEF SdkInv, Rest
<1>2. depth' \in 0..MaxRunning
  <2>1. SectionCalls' \in SUBSET Running'
    BY DEF SectionCalls, InSection, Running
  <2>2. /\ Cardinality(Running') \in Nat /\ Cardinality(SectionCalls') \in Nat
        /\ Cardinality(SectionCalls') <= Cardinality(Running')
    BY <2>1, FS_Subset, FS_CardinalityType DEF Sections
  <2>3. QED
    BY <2>2, SdkConstants DEF Sections
<1>3. TypeOK'
  BY <1>2 DEF TypeOK
<1>4. QED
  BY <1>1, <1>3 DEF SdkInv

(* A call that enters its section. *)
LEMMA EnterInv ==
  ASSUME SdkInv, NEW c \in Call, NEW op \in Operations \ Short,
         NEW arg \in Key \cup {None}, NEW copy \in Bundle \cup {None},
         NEW stage \in {"reserve", "merge", "rollback"}, NEW writes \in 0..2,
         Enter(c, op, arg, copy, stage, writes), drawn' \subseteq Key,
         stage # "rollback" => copy \in Bundle /\ Valid(copy),
         stage = "reserve" => op \in Writers /\ writes \in 1..2,
         stage = "reserve" /\ writes = 2 => op = "correct",
         stage = "reserve" /\ op \in Granters => arg \in Device /\ writes = 1,
         stage = "merge" => op = "importBundle"
  PROVE  SdkInv'
<1>1. stage \in Stages \cup {"failed"} /\ stage \in Stages /\ (depth = 0) \in BOOLEAN
  BY DEF Stages
<1>2. PICK o \in BOOLEAN : o = (depth = 0)
  BY <1>1
<1>3. Begin(c, op, arg, copy, stage, writes, o)
  BY <1>2 DEF Enter
<1>4. /\ call' \in [Call -> CallState] /\ Rest(c)
      /\ call'[c].at = stage /\ call'[c].op = op /\ call'[c].arg = arg
      /\ call'[c].seen = copy /\ call'[c].left = writes
      /\ call'[c].outer = o
  BY <1>1, <1>3, BeginFacts DEF SdkInv
<1>5. Coherent(call'[c])
  BY <1>4 DEF Coherent, Stages, Ended
<1>6. Sections'
  <2>1. /\ call[c].at = "ready" /\ Cardinality(Running) < MaxRunning
        /\ depth' = depth + 1 /\ saved' = IF depth = 0 THEN store ELSE saved
    BY DEF Enter, Begin
  <2>2. call'[c].outer = (depth = 0) /\ call'[c].at \in Stages /\ call'[c].op \notin Short
    BY <1>1, <1>2, <1>4
  <2>3. QED
    BY <1>4, <2>1, <2>2, SectionEntered DEF SdkInv
<1>7. /\ store' = store /\ files' = files /\ faults' = faults
      /\ before' \in Store /\ saved' \in {store, saved}
  BY DEF Enter, Begin, SdkInv, TypeOK
<1>8. /\ saved' \in Store \cup {None} /\ (saved' # None => HoldsValid(saved'))
  BY <1>7 DEF SdkInv, TypeOK
<1>9. QED
  BY <1>4, <1>5, <1>6, <1>7, <1>8, InvAfter DEF SdkInv, TypeOK

(* A call of createRoot or setActiveAk that begins. *)
LEMMA ShortInv ==
  ASSUME SdkInv, NEW c \in Call, NEW op \in Short,
         NEW arg \in Key \cup {None}, NEW copy \in Bundle \cup {None},
         NEW stage \in {"save", "failed"},
         Begin(c, op, arg, copy, stage, 0, FALSE), UNCHANGED <<depth, saved>>,
         drawn' \subseteq Key,
         stage = "save" => copy \in Bundle /\ Valid(copy)
  PROVE  SdkInv'
<1>1. /\ stage \in Stages \cup {"failed"} /\ op \in Operations
      /\ 0 \in 0..2 /\ FALSE \in BOOLEAN
  BY DEF Stages, Short, Operations
<1>2. /\ call' \in [Call -> CallState] /\ Rest(c)
      /\ call'[c].at = stage /\ call'[c].op = op /\ call'[c].seen = copy
      /\ call'[c].outer = FALSE
  BY <1>1, BeginFacts DEF SdkInv
<1>3. Coherent(call'[c])
  BY <1>1, <1>2 DEF Coherent, Stages, Ended, Short, Granters
<1>4. Sections'
  <2>1. call[c].at = "ready" /\ Cardinality(Running) < MaxRunning
    BY DEF Begin
  <2>2. call'[c].at \in Stages \cup Ended /\ call'[c].op \in Short /\ ~call'[c].outer
    BY <1>1, <1>2 DEF Ended
  <2>3. QED
    BY <1>2, <2>1, <2>2, ShortBegun DEF SdkInv
<1>5. store' = store /\ files' = files /\ faults' = faults /\ before' \in Store
  BY DEF Begin, SdkInv, TypeOK
<1>6. QED
  BY <1>2, <1>3, <1>4, <1>5, InvAfter DEF SdkInv, TypeOK

LEMMA CreateRootInv ==
  ASSUME SdkInv, NEW c \in Call, CreateRoot(c)
  PROVE  SdkInv'
<1>1. PICK r \in Root \ drawn :
        /\ drawn' = drawn \cup {r}
        /\ IF store.bundle = None
           THEN Begin(c, "createRoot", None, NewBundle(r), "save", 0, FALSE)
           ELSE Begin(c, "createRoot", None, None, "failed", 0, FALSE)
  BY DEF CreateRoot
<1>2. drawn' \subseteq Key /\ UNCHANGED <<depth, saved>>
  BY <1>1 DEF CreateRoot, SdkInv, TypeOK, Key
<1>3. NewBundle(r) \in Bundle /\ Valid(NewBundle(r))
  BY NewBundleFacts
<1>4. CASE store.bundle = None
  BY <1>1, <1>2, <1>3, <1>4, ShortInv DEF Short
<1>5. CASE store.bundle # None
  BY <1>1, <1>2, <1>5, ShortInv DEF Short
<1>6. QED
  BY <1>4, <1>5

LEMMA SetActiveAkInv ==
  ASSUME SdkInv, NEW c \in Call, SetActiveAk(c)
  PROVE  SdkInv'
<1>1. PICK k \in Key :
        IF CanWrite(store.bundle, k)
        THEN Begin(c, "setActiveAk", k, [store.bundle EXCEPT !.active = k],
                   "save", 0, FALSE)
        ELSE Begin(c, "setActiveAk", k, None, "failed", 0, FALSE)
  BY DEF SetActiveAk
<1>2. drawn' \subseteq Key /\ UNCHANGED <<depth, saved>>
  BY DEF SetActiveAk, SdkInv, TypeOK
<1>3. CASE CanWrite(store.bundle, k)
  <2>1. store.bundle \in Bundle /\ IsAuthorized(store.bundle, k)
    BY <1>3, SdkConstants, StoreTypes DEF CanWrite, Resolved, Key, SdkInv, TypeOK
  <2>2. PICK a : a = [store.bundle EXCEPT !.active = k]
    OBVIOUS
  <2>3. a \in Bundle /\ Valid(a)
    BY <2>1, <2>2, ActiveFacts
  <2>4. Begin(c, "setActiveAk", k, a, "save", 0, FALSE)
    BY <1>1, <1>3, <2>2
  <2>5. QED
    BY <1>2, <2>3, <2>4, ShortInv DEF Short
<1>4. CASE ~CanWrite(store.bundle, k)
  BY <1>1, <1>2, <1>4, ShortInv DEF Short
<1>5. QED
  BY <1>3, <1>4

LEMMA BundleIs ==
  ASSUME SdkInv
  PROVE  /\ store.bundle \in Bundle \cup {None}
         /\ store.bundle # None => store.bundle \in Bundle /\ Valid(store.bundle)
BY StoreTypes DEF SdkInv, TypeOK, HoldsValid

LEMMA AddDeviceKeyInv ==
  ASSUME SdkInv, NEW c \in Call, AddDeviceKey(c)
  PROVE  SdkInv'
<1>1. PICK d \in Device \ drawn :
        /\ drawn' = drawn \cup {d}
        /\ IF store.bundle # None
           THEN Enter(c, "addDeviceKey", d, WithDevice(store.bundle, d),
                      "reserve", 1)
           ELSE Enter(c, "addDeviceKey", d, None, "rollback", 1)
  BY DEF AddDeviceKey
<1>2. drawn' \subseteq Key /\ d \in Key \cup {None}
  BY <1>1 DEF SdkInv, TypeOK, Key
<1>3. "addDeviceKey" \in Operations \ Short /\ "addDeviceKey" \in Writers
  BY DEF Operations, Short, Writers, Granters
<1>4. CASE store.bundle # None
  <2>1. PICK a : a = WithDevice(store.bundle, d)
    OBVIOUS
  <2>2. a \in Bundle /\ Valid(a)
    BY <1>4, <2>1, BundleIs, WithDeviceFacts
  <2>3. Enter(c, "addDeviceKey", d, a, "reserve", 1)
    BY <1>1, <1>4, <2>1
  <2>4. QED
    BY <1>2, <1>3, <2>2, <2>3, EnterInv
<1>5. CASE store.bundle = None
  BY <1>1, <1>2, <1>3, <1>5, EnterInv
<1>6. QED
  BY <1>4, <1>5

LEMMA RevokeDeviceKeyInv ==
  ASSUME SdkInv, NEW c \in Call, RevokeDeviceKey(c)
  PROVE  SdkInv'
<1>1. PICK k \in Key :
        IF store.bundle # None /\ k \in store.bundle.devices
        THEN Enter(c, "revokeDeviceKey", k, WithoutDevice(store.bundle, k),
                   "reserve", 1)
        ELSE Enter(c, "revokeDeviceKey", k, None, "rollback", 1)
  BY DEF RevokeDeviceKey
<1>2. drawn' \subseteq Key
  BY DEF RevokeDeviceKey, SdkInv, TypeOK
<1>3. "revokeDeviceKey" \in Operations \ Short /\ "revokeDeviceKey" \in Writers
  BY DEF Operations, Short, Writers, Granters
<1>4. CASE store.bundle # None /\ k \in store.bundle.devices
  <2>1. PICK a : a = WithoutDevice(store.bundle, k)
    OBVIOUS
  <2>2. k \in Device /\ a \in Bundle /\ Valid(a)
    BY <1>4, <2>1, BundleIs, ValidFacts, WithoutDeviceFacts
  <2>3. Enter(c, "revokeDeviceKey", k, a, "reserve", 1)
    BY <1>1, <1>4, <2>1
  <2>4. QED
    BY <1>2, <1>3, <2>2, <2>3, EnterInv
<1>5. CASE ~(store.bundle # None /\ k \in store.bundle.devices)
  <2>1. Enter(c, "revokeDeviceKey", k, None, "rollback", 1)
    BY <1>1, <1>5
  <2>2. QED
    BY <1>2, <1>3, <2>1, EnterInv
<1>6. QED
  BY <1>4, <1>5

LEMMA ImportBundleInv ==
  ASSUME SdkInv, NEW c \in Call, ImportBundle(c)
  PROVE  SdkInv'
<1>1. PICK in \in files :
        IF CanMerge(store.bundle, in)
        THEN Enter(c, "importBundle", None, Merged(store.bundle, in), "merge", 0)
        ELSE Enter(c, "importBundle", None, None, "rollback", 0)
  BY DEF ImportBundle
<1>2. drawn' \subseteq Key /\ in \in Bundle
  BY DEF ImportBundle, SdkInv, TypeOK
<1>3. "importBundle" \in Operations \ Short
  BY DEF Operations, Short
<1>4. CASE CanMerge(store.bundle, in)
  <2>1. PICK a : a = Merged(store.bundle, in)
    OBVIOUS
  <2>2. a \in Bundle /\ Valid(a)
    BY <1>2, <1>4, <2>1, BundleIs, MergedFacts
  <2>3. Enter(c, "importBundle", None, a, "merge", 0)
    BY <1>1, <1>4, <2>1
  <2>4. QED
    BY <1>2, <1>3, <2>2, <2>3, EnterInv
<1>5. CASE ~CanMerge(store.bundle, in)
  BY <1>1, <1>2, <1>3, <1>5, EnterInv
<1>6. QED
  BY <1>4, <1>5

LEMMA WriteRecordInv ==
  ASSUME SdkInv, NEW c \in Call, WriteRecord(c)
  PROVE  SdkInv'
<1>1. PICK k \in Key \cup {None} :
        \/ Enter(c, "append", k, store.bundle, Granting(store.bundle, k), 1)
        \/ Enter(c, "correct", k, store.bundle, Granting(store.bundle, None), 2)
        \/ Enter(c, "manifest", k, store.bundle, Granting(store.bundle, k), 1)
  BY DEF WriteRecord
<1>2. drawn' \subseteq Key
  BY DEF WriteRecord, SdkInv, TypeOK
<1>3. PICK op \in {"append", "correct", "manifest"},
           stage \in {"reserve", "rollback"}, n \in 1..2 :
        /\ Enter(c, op, k, store.bundle, stage, n)
        /\ n = 2 => op = "correct"
        /\ stage = "reserve" => store.bundle # None
  BY <1>1 DEF Granting, CanWrite
<1>4. /\ op \in Operations \ Short /\ op \in Writers /\ op \notin Granters
      /\ n \in 0..2
  BY DEF Operations, Short, Writers, Granters
<1>5. stage = "reserve" => store.bundle \in Bundle /\ Valid(store.bundle)
  BY <1>3, BundleIs
<1>6. QED
  BY <1>2, <1>3, <1>4, <1>5, BundleIs, EnterInv

LEMMA RunningInv ==
  ASSUME SdkInv, NEW c \in Call,
         \/ Reserve(c) \/ Save(c) \/ Append(c)
         \/ Load(c) \/ Merge(c) \/ Install(c)
  PROVE  SdkInv'
<1>1. /\ UNCHANGED <<depth, saved, faults, files, drawn, before>>
      /\ call[c].at \in Stages
  BY DEF Reserve, Save, Append, Load, Merge, Install, Others, Stages
<1>2. /\ saved' \in Store \cup {None} /\ (saved' # None => HoldsValid(saved'))
      /\ files' \subseteq Bundle /\ drawn' \subseteq Key
      /\ faults' \in 0..MaxFaults /\ before' \in Store
  BY <1>1 DEF SdkInv, TypeOK, HoldsValid
<1>3. /\ store \in Store /\ HoldsValid(store)
      /\ call[c] \in CallState /\ Coherent(call[c])
  BY CallTypes DEF SdkInv, TypeOK
<1>4. Lifecycle(c) <=> call[c].op \in Granters
  BY CallTypes
<1>5. CASE Reserve(c)
  <2>1. call[c].at = "reserve"
    BY <1>5 DEF Reserve
  <2>2. Coherent(call'[c])
    BY <1>3, <1>4, <1>5, <2>1, ReserveFacts
    DEF Coherent, Same, Stages, Ended, Short, Writers, Granters
  <2>3. call'[c].at \in Stages
    BY <1>5, ReserveFacts DEF Stages
  <2>4. Sections'
    BY <1>1, <1>5, <2>3, ReserveFacts, SectionKept DEF Same, SdkInv
  <2>5. store' \in Store /\ HoldsValid(store')
    BY <1>3, <1>5, ReserveFacts DEF HoldsValid
  <2>6. QED
    BY <1>2, <1>5, <2>2, <2>4, <2>5, ReserveFacts, InvAfter
<1>6. CASE Save(c)
  <2>1. call[c].at = "save"
    BY <1>6 DEF Save
  <2>2. store' \in Store /\ HoldsValid(store')
    BY <1>6, SaveFacts DEF HoldsValid
  <2>3. CASE call[c].op \in Short
    <3>1. Coherent(call'[c])
      BY <1>3, <1>6, <2>1, <2>3, SaveFacts
      DEF Coherent, Stages, Ended, Short, Operations
    <3>2. Sections'
      BY <1>1, <1>6, <2>3, SaveFacts, ShortLeft DEF Ended, SdkInv
    <3>3. QED
      BY <1>2, <1>6, <2>2, <3>1, <3>2, SaveFacts, InvAfter
  <2>4. CASE call[c].op \notin Short
    <3>1. call'[c].at = IF Lifecycle(c) THEN "append" ELSE "exit"
      BY <1>6, <2>4, SaveFacts
    <3>2. Coherent(call'[c])
      BY <1>3, <1>4, <1>6, <2>1, <2>4, <3>1, SaveFacts
      DEF Coherent, Same, Stages, Ended, Short, Writers, Granters
    <3>3. call'[c].at \in Stages
      BY <3>1 DEF Stages
    <3>4. Sections'
      BY <1>1, <1>6, <2>4, <3>3, SaveFacts, SectionKept DEF Same, SdkInv
    <3>5. QED
      BY <1>2, <1>6, <2>2, <3>2, <3>4, SaveFacts, InvAfter
  <2>5. QED
    BY <2>3, <2>4
<1>7. CASE Append(c)
  <2>1. call[c].at = "append"
    BY <1>7 DEF Append
  <2>2. AfterRecord(c) = IF call[c].left > 1 THEN "load" ELSE "exit"
    BY DEF AfterRecord
  <2>3. Coherent(call'[c])
    BY <1>3, <1>7, <2>1, <2>2, AppendFacts
    DEF Coherent, Same, Stages, Ended, Short, Writers, Granters
  <2>4. call'[c].at \in Stages
    BY <1>7, <2>2, AppendFacts DEF Stages
  <2>5. Sections'
    BY <1>1, <1>7, <2>4, AppendFacts, SectionKept DEF Same, SdkInv
  <2>6. store' \in Store /\ HoldsValid(store')
    BY <1>3, <1>7, AppendFacts DEF HoldsValid
  <2>7. QED
    BY <1>2, <1>7, <2>3, <2>5, <2>6, AppendFacts, InvAfter
<1>8. CASE Load(c)
  <2>1. call[c].at = "load" /\ store' = store
    BY <1>8 DEF Load
  <2>2. Coherent(call'[c])
    BY <1>3, <1>8, <2>1, LoadFacts
    DEF Coherent, Same, Stages, Ended, Short, Writers, Granters
  <2>3. call'[c].at \in Stages
    BY <1>8, LoadFacts DEF Stages
  <2>4. Sections'
    BY <1>1, <1>8, <2>3, LoadFacts, SectionKept DEF Same, SdkInv
  <2>5. QED
    BY <1>2, <1>3, <1>8, <2>1, <2>2, <2>4, LoadFacts, InvAfter
<1>9. CASE Merge(c)
  <2>1. call[c].at = "merge" /\ store' = store
    BY <1>9 DEF Merge
  <2>2. Coherent(call'[c])
    BY <1>3, <1>9, <2>1, MergeFacts
    DEF Coherent, Same, Stages, Ended, Short, Writers, Granters
  <2>3. call'[c].at \in Stages
    BY <1>9, MergeFacts DEF Stages
  <2>4. Sections'
    BY <1>1, <1>9, <2>3, MergeFacts, SectionKept DEF Same, SdkInv
  <2>5. QED
    BY <1>2, <1>3, <1>9, <2>1, <2>2, <2>4, MergeFacts, InvAfter
<1>10. CASE Install(c)
  <2>1. call[c].at = "install"
    BY <1>10 DEF Install
  <2>2. Coherent(call'[c])
    BY <1>3, <1>10, <2>1, InstallFacts
    DEF Coherent, Same, Stages, Ended, Short, Writers, Granters
  <2>3. call'[c].at \in Stages
    BY <1>10, InstallFacts DEF Stages
  <2>4. Sections'
    BY <1>1, <1>10, <2>3, InstallFacts, SectionKept DEF Same, SdkInv
  <2>5. store' \in Store /\ HoldsValid(store')
    BY <1>3, <1>10, InstallFacts DEF HoldsValid
  <2>6. QED
    BY <1>2, <1>10, <2>2, <2>4, <2>5, InstallFacts, InvAfter
<1>11. QED
  BY <1>5, <1>6, <1>7, <1>8, <1>9, <1>10

(* The outermost call goes back to the snapshot it took. *)
LEMMA EndFacts ==
  ASSUME SdkInv, NEW c \in Call, Exit(c) \/ Rollback(c)
  PROVE  /\ call' = Leave(c, IF Exit(c) THEN "done" ELSE "failed")
         /\ InSection(c) /\ call[c].op \in Operations
         /\ depth' = depth - 1
         /\ saved' = IF call[c].outer THEN None ELSE saved
         /\ Exit(c) => store' = store
         /\ Rollback(c) => store' = IF call[c].outer THEN saved ELSE store
         /\ call[c].outer => saved \in Store
         /\ UNCHANGED <<faults, files, drawn, before>>
<1>1. call[c].at \in {"exit", "rollback"} /\ call[c].at \in Stages
  BY DEF Exit, Rollback, Stages
<1>2. InSection(c) /\ call[c].op \in Operations
  BY <1>1, CallTypes DEF InSection, Coherent, Short
<1>3. call[c].outer => saved \in Store
  BY DEF SdkInv, TypeOK, Sections
<1>4. ~(Exit(c) /\ call[c].at = "rollback") /\ ~(Rollback(c) /\ call[c].at = "exit")
  BY DEF Exit, Rollback
<1>5. QED
  BY <1>1, <1>2, <1>3, <1>4 DEF Exit, Rollback, Restored, Others

LEMMA EndInv ==
  ASSUME SdkInv, NEW c \in Call, Exit(c) \/ Rollback(c)
  PROVE  SdkInv'
<1>1. PICK t \in Ended : call' = Leave(c, t)
  BY EndFacts DEF Ended
<1>2. /\ call' \in [Call -> CallState] /\ Rest(c)
      /\ call'[c].at = t /\ call'[c].op = call[c].op /\ call'[c].outer = FALSE
  BY <1>1, LeaveFacts DEF SdkInv
<1>3. call[c].op \in Operations /\ InSection(c)
  BY EndFacts
<1>4. Coherent(call'[c])
  BY <1>2, <1>3 DEF Coherent, Stages, Ended
<1>5. depth' = depth - 1 /\ saved' = IF call[c].outer THEN None ELSE saved
  BY EndFacts
<1>6. Sections'
  BY <1>2, <1>3, <1>5, SectionLeft DEF SdkInv
<1>7. store' \in {store, saved} /\ (store' = saved => store' = store \/ saved \in Store)
  BY EndFacts
<1>8. store' \in Store /\ HoldsValid(store')
  BY <1>7, StoreTypes DEF SdkInv, TypeOK
<1>9. saved' \in Store \cup {None} /\ (saved' # None => HoldsValid(saved'))
  BY <1>5 DEF SdkInv, TypeOK
<1>10. UNCHANGED <<faults, files, drawn, before>>
  BY EndFacts
<1>11. QED
  BY <1>2, <1>4, <1>6, <1>8, <1>9, <1>10, InvAfter DEF SdkInv, TypeOK

LEMMA ThrowInv ==
  ASSUME SdkInv, NEW c \in Call, Throw(c)
  PROVE  SdkInv'
<1>1. /\ call[c].at \in Stages /\ call[c].op \in Operations
      /\ UNCHANGED <<store, depth, saved, files, drawn, before>>
      /\ faults' \in 0..MaxFaults
  BY CallTypes, SdkConstants DEF Throw, Others, Coherent, SdkInv, TypeOK
<1>2. CASE call[c].op \in Short
  <2>1. call' = Leave(c, "failed")
    BY <1>2 DEF Throw, Short
  <2>2. /\ call' \in [Call -> CallState] /\ Rest(c)
        /\ call'[c].at = "failed" /\ call'[c].op = call[c].op
        /\ call'[c].outer = FALSE
    BY <2>1, LeaveFacts DEF SdkInv, Ended
  <2>3. Coherent(call'[c])
    BY <1>1, <2>2 DEF Coherent, Stages, Ended
  <2>4. Sections'
    BY <1>1, <1>2, <2>2, ShortLeft DEF SdkInv, Ended
  <2>5. QED
    BY <1>1, <2>2, <2>3, <2>4, InvAfter DEF SdkInv, TypeOK
<1>3. CASE call[c].op \notin Short
  <2>1. call' = [call EXCEPT ![c].at = "rollback"]
    BY <1>3 DEF Throw, Short
  <2>2. /\ call' \in [Call -> CallState] /\ Rest(c) /\ Same(c)
        /\ call'[c].at = "rollback"
    BY <2>1 DEF SdkInv, TypeOK, CallState, Rest, Same, Stages
  <2>3. Coherent(call'[c])
    BY <1>1, <1>3, <2>2 DEF Coherent, Same, Stages, Ended
  <2>4. call'[c].at \in Stages
    BY <2>2 DEF Stages
  <2>5. Sections'
    BY <1>1, <2>2, <2>4, SectionKept DEF Same, SdkInv
  <2>6. QED
    BY <1>1, <2>2, <2>3, <2>5, InvAfter DEF SdkInv, TypeOK
<1>4. QED
  BY <1>2, <1>3

(* Whatever other clients export is a bundle. *)
LEMMA OutsideFacts ==
  ASSUME SdkInv, ExportBundle \/ OtherClient
  PROVE  /\ UNCHANGED <<store, depth, saved, call, faults, before>>
         /\ files' \subseteq Bundle /\ drawn' \subseteq Key
<1>1. CASE ExportBundle
  BY <1>1, BundleIs DEF ExportBundle, Circulate, SdkInv, TypeOK
<1>2. CASE OtherClient
  <2>1. CASE \E r \in Root \ drawn :
               Circulate(NewBundle(r)) /\ drawn' = drawn \cup {r}
    BY <2>1, NewBundleFacts DEF Circulate, SdkInv, TypeOK, Key
  <2>2. ASSUME NEW b \in files, b.seq[b.root] < MaxSeq,
               LET numbered == [b EXCEPT !.seq[b.root] = @ + 1] IN
               \/ \E d \in Device \ drawn :
                    /\ Circulate(WithDevice(numbered, d))
                    /\ drawn' = drawn \cup {d}
               \/ \E d \in b.devices :
                    Circulate(WithoutDevice(numbered, d)) /\ UNCHANGED drawn
               \/ \E k \in Key :
                    /\ IsAuthorized(b, k)
                    /\ Circulate([b EXCEPT !.active = k])
                    /\ UNCHANGED drawn
        PROVE  /\ UNCHANGED <<store, depth, saved, call, faults, before>>
               /\ files' \subseteq Bundle /\ drawn' \subseteq Key
    <3>1. b \in Bundle /\ b.root \in Key /\ b.seq \in Counters
      BY ValidFacts DEF SdkInv, TypeOK, Key
    <3>2. PICK q : q = [b.seq EXCEPT ![b.root] = @ + 1]
      OBVIOUS
    <3>3. q \in Counters
      BY <2>2, <3>1, <3>2, SdkConstants DEF Counters
    <3>4. PICK a : a = [b EXCEPT !.seq = q]
      OBVIOUS
    <3>5. a \in Bundle /\ a.devices = b.devices
      BY <3>1, <3>3, <3>4, SeqFacts
    <3>6. [b EXCEPT !.seq[b.root] = @ + 1] = a
      BY <3>1, <3>2, <3>4
    <3>7. \/ \E d \in Device \ drawn :
               Circulate(WithDevice(a, d)) /\ drawn' = drawn \cup {d}
          \/ \E d \in b.devices : Circulate(WithoutDevice(a, d)) /\ UNCHANGED drawn
          \/ \E k \in Key :
               /\ IsAuthorized(b, k) /\ Circulate([b EXCEPT !.active = k])
               /\ UNCHANGED drawn
      BY <2>2, <3>6
    <3>8. ASSUME NEW d \in Device
          PROVE  WithDevice(a, d) \in Bundle /\ WithoutDevice(a, d) \in Bundle
      <4>1. PICK D, R, k : /\ D = a.devices \cup {d} /\ R = a.revoked \cup {d}
                           /\ k = IF a.active = d THEN a.root ELSE a.active
        OBVIOUS
      <4>2. D \in SUBSET Device /\ R \in SUBSET Device /\ k \in Key
        BY <3>5, <4>1, ValidFacts DEF Key
      <4>3. /\ [a EXCEPT !.devices = D] \in Bundle
            /\ [a EXCEPT !.revoked = R, !.active = k] \in Bundle
        BY <3>5, <4>2 DEF Bundle
      <4>4. QED
        BY <4>1, <4>3 DEF WithDevice, WithoutDevice
    <3>9. b.devices \subseteq Device /\ files \subseteq Bundle /\ drawn \subseteq Key
      BY <3>1, ValidFacts DEF SdkInv, TypeOK
    <3>10. \A k \in Key : [b EXCEPT !.active = k] \in Bundle
      BY <3>1 DEF Bundle
    <3>11. QED
      BY <3>7, <3>8, <3>9, <3>10 DEF Circulate, Key
  <2>3. QED
    BY <1>2, <2>1, <2>2 DEF OtherClient
<1>3. QED
  BY <1>1, <1>2

LEMMA SdkSame ==
  ASSUME SdkInv, UNCHANGED <<store, depth, saved, call, faults, before>>,
         files' \subseteq Bundle, drawn' \subseteq Key
  PROVE  SdkInv'
<1>1. TypeOK'
  BY DEF SdkInv, TypeOK
<1>2. Running' = Running /\ SectionCalls' = SectionCalls
  BY DEF Running, SectionCalls, InSection
<1>3. Sections'
  BY <1>2 DEF SdkInv, Sections, InSection
<1>4. QED
  BY <1>1, <1>3 DEF SdkInv, HoldsValid

LEMMA SdkInit == Init => SdkInv
<1> SUFFICES ASSUME Init
             PROVE  SdkInv
  OBVIOUS
<1>1. EmptyStore \in Store /\ EmptyStore.bundle = None
  BY ZeroFacts DEF EmptyStore, Store
<1>2. Fresh \in CallState /\ Fresh.at = "ready" /\ Fresh.outer = FALSE
  BY ZeroFacts DEF Fresh, CallState
<1>3. TypeOK
  BY <1>1, <1>2, SdkConstants DEF Init, TypeOK
<1>4. \A c \in Call : /\ call[c].at = "ready" /\ call[c].outer = FALSE
                      /\ Coherent(call[c])
  BY <1>2 DEF Init, Coherent, Stages, Ended
<1>5. Running = {} /\ SectionCalls = {}
  BY <1>4 DEF Running, SectionCalls, InSection, Stages
<1>6. Sections
  <2>1. /\ IsFiniteSet(Running) /\ Cardinality(Running) = 0
        /\ Cardinality(SectionCalls) = 0 /\ depth = 0 /\ 0 <= MaxRunning
    BY <1>5, FS_EmptySet, SdkConstants DEF Init
  <2>2. saved = None /\ \A c \in Call : ~call[c].outer
    BY <1>4 DEF Init
  <2>3. QED
    BY <2>1, <2>2 DEF Sections
<1>7. HoldsValid(store) /\ saved = None
  BY <1>1 DEF Init, HoldsValid
<1>8. QED
  BY <1>3, <1>4, <1>6, <1>7 DEF SdkInv

LEMMA SdkInvStep == SdkInv /\ [Next]_vars => SdkInv'
<1> SUFFICES ASSUME SdkInv, [Next]_vars
             PROVE  SdkInv'
  OBVIOUS
<1>1. ASSUME NEW c \in Call,
             \/ CreateRoot(c) \/ SetActiveAk(c)
             \/ AddDeviceKey(c) \/ RevokeDeviceKey(c) \/ ImportBundle(c)
             \/ WriteRecord(c)
             \/ Reserve(c) \/ Save(c) \/ Append(c) \/ Load(c)
             \/ Merge(c) \/ Install(c)
             \/ Exit(c) \/ Rollback(c) \/ Throw(c)
      PROVE  SdkInv'
  BY <1>1, CreateRootInv, SetActiveAkInv, AddDeviceKeyInv, RevokeDeviceKeyInv,
     ImportBundleInv, WriteRecordInv, RunningInv, EndInv, ThrowInv
<1>2. CASE ExportBundle \/ OtherClient
  BY <1>2, OutsideFacts, SdkSame
<1>3. CASE UNCHANGED vars
  BY <1>3, SdkSame DEF vars, SdkInv, TypeOK
<1>4. QED
  BY <1>1, <1>2, <1>3 DEF Next, Idle

(* The invariant holds however many calls are in flight and whichever of   *)
(* them throw (memory-store.ts, identity.ts, events.ts, manifest.ts).      *)
THEOREM SdkInvariant == Spec => []SdkInv
BY SdkInit, SdkInvStep, PTL DEF Spec

(* Store, calls and bundles are always what their types say; the depth of  *)
(* atomic never exceeds the calls in flight and never falls below 0.       *)
THEOREM SdkTypeCorrect == Spec => []TypeOK
<1>1. SdkInv => TypeOK
  BY DEF SdkInv
<1>2. QED
  BY SdkInvariant, <1>1, PTL

LEMMA SectionsOfInv == SdkInv => SectionsBalance
<1> DEFINE O == {c \in Call : call[c].outer}
<1>1. ASSUME SdkInv
      PROVE  SectionsBalance
  <2>1. Cardinality(O) <= 1
    <3>1. PICK o : o = O
      OBVIOUS
    <3>2. o = {} \/ \E c \in Call : o = {c}
      BY <1>1, <3>1 DEF SdkInv, Sections
    <3>3. Cardinality(o) = 0 \/ Cardinality(o) = 1
      BY <3>2, FS_EmptySet, FS_Singleton
    <3>4. QED
      BY <3>1, <3>3
  <2>2. (saved # None) = (O # {})
    BY <1>1 DEF SdkInv, Sections
  <2>3. QED
    BY <1>1, <2>1, <2>2 DEF SectionsBalance, SdkInv, Sections, SectionCalls
<1>2. QED
  BY <1>1

(* However sections overlap and whichever of them fail, atomic's depth is  *)
(* the number of open sections, and its snapshot is kept exactly while its *)
(* one outermost call runs.                                                *)
THEOREM SectionsStayBalanced == Spec => []SectionsBalance
BY SdkInvariant, SectionsOfInv, PTL

(* The selected key may write, also when calls overlap and whatever is     *)
(* rolled back (revokeDeviceKey, mergeIdentityAuthorization): every bundle *)
(* that is saved comes from a valid one.                                   *)
THEOREM ActiveStaysAuthorized == Spec => []ActiveCanWrite
<1>1. SdkInv => ActiveCanWrite
  BY BundleIs, ValidFacts DEF ActiveCanWrite
<1>2. QED
  BY SdkInvariant, <1>1, PTL

-----------------------------------------------------------------------------
(* Every call awaited.  Between two calls the store holds what the calls   *)
(* that have ended have left (Settled); while a call runs, that is still   *)
(* true of the store it began with, which it goes back to if it fails, and *)
(* the store has besides what the call has written so far (Work).          *)
Own(st, c) == {e \in st.log : e.by = c}

Settled(st) ==
  \A c \in Call :
    /\ call[c].at \in {"ready", "failed"} => Own(st, c) = {}
    /\ call[c].at = "done" => Cardinality(Own(st, c)) = Writes(call[c].op)
    /\ call[c].at = "done" /\ call[c].op = "addDeviceKey" =>
         st.bundle # None /\ call[c].arg \in st.bundle.devices
    /\ call[c].at = "done" /\ call[c].op = "revokeDeviceKey" =>
         st.bundle # None /\ call[c].arg \in st.bundle.revoked

(* The records of a running call, by how many it has still to write. *)
Written(c) ==
  LET own == Own(store, c)
      left == call[c].left
  IN /\ call[c].op \notin Writers \/ left = Writes(call[c].op) => own = {}
     /\ call[c].op \in Writers \ {"correct"} /\ left = 0 =>
          \E r \in own : own = {r}
     /\ call[c].op = "correct" /\ left = 1 =>
          \E r \in own : own = {r} /\ r.kind = "correction"
     /\ call[c].op = "correct" /\ left = 0 =>
          \E r, t \in own : own = {r, t} /\ r.kind # t.kind
     /\ call[c].at = "exit" /\ call[c].op \in Writers => left = 0

Reports(s, b) ==
  /\ s.op = "addDeviceKey" => s.arg \in b.devices
  /\ s.op = "revokeDeviceKey" => s.arg \in b.revoked

NotBehind(st) == \A k \in Key : before.seqs[k] <= st.seqs[k]

(* The bundle and the counters, by the stage the call has reached. *)
Prepared(c) ==
  LET s == call[c] IN
  /\ Improves(store.bundle, before.bundle)
  /\ s.op \in {"append", "correct", "manifest", "importBundle"} =>
       NotBehind(store)
  /\ s.op \in {"append", "correct", "manifest"} =>
       /\ store.bundle = before.bundle
       /\ s.at \in {"reserve", "append"} =>
            s.seen = store.bundle /\ CanWrite(s.seen, Named(c))
  /\ s.op \in Granters /\ s.at \in {"reserve", "save"} =>
       /\ before.bundle # None /\ store.bundle = before.bundle
       /\ Improves(s.seen, before.bundle) /\ Reports(s, s.seen)
  /\ s.op \in Granters /\ s.at \in {"append", "exit"} =>
       store.bundle # None /\ Reports(s, store.bundle)
  /\ s.op \in Granters /\ s.at = "append" => store.bundle = s.seen
  /\ s.op = "importBundle" /\ s.at \in {"merge", "install", "save"} =>
       store.bundle = before.bundle /\ Improves(s.seen, before.bundle)
  /\ s.op = "importBundle" /\ s.at \in {"install", "save"} =>
       \A k \in Key : before.seqs[k] <= s.seen.seq[k]
  /\ s.op \in Short =>
       store = before /\ Improves(s.seen, before.bundle)

Work(c) ==
  /\ InSection(c) => call[c].outer /\ saved = before
  /\ Own(before, c) = {} /\ before.log \subseteq store.log
  /\ \A e \in store.log \ before.log : e.by = c
  /\ Written(c) /\ Prepared(c)

AwaitedInv ==
  /\ \A c, d \in Running : c = d
  /\ Running = {} => Settled(store) /\ Improves(store.bundle, before.bundle)
  /\ \A c \in Running : Settled(before) /\ Work(c)

LEMMA ImprovesFacts ==
  /\ \A b : Improves(b, b)
  /\ \A a, b, k : Improves(a, b) /\ Improves(b, k) => Improves(a, k)
BY DEF Improves

LEMMA StageFacts ==
  /\ "ready" \notin Stages \cup Ended
  /\ \A t \in Ended : t \notin Stages
  /\ \A t : t \in Stages <=> t \in {"reserve", "save", "append", "load", "merge",
                                    "install", "exit", "rollback"}
  /\ \A t : t \in Ended <=> t \in {"done", "failed"}
BY DEF Stages, Ended

(* A call that begins is alone, and finds no section open. *)
LEMMA AloneBegins ==
  ASSUME SdkInv, MaxRunning = 1, Cardinality(Running) < MaxRunning
  PROVE  Running = {} /\ depth = 0
<1>1. Running = {}
  BY FS_CardinalityType, FS_EmptySet DEF SdkInv, Sections
<1>2. SectionCalls = {}
  BY <1>1 DEF Running, SectionCalls, InSection
<1>3. QED
  BY <1>1, <1>2, FS_EmptySet DEF SdkInv, Sections

LEMMA AloneRuns ==
  ASSUME AwaitedInv, NEW c \in Call, call[c].at \in Stages
  PROVE  /\ Running = {c} /\ Settled(before) /\ Work(c)
         /\ \A d \in Call : call[d].at \in Stages => d = c
BY DEF AwaitedInv, Running

(* The bundle, the counters and the records before and after a call begins. *)
LEMMA EnterAwaited ==
  ASSUME SdkInv, AwaitedInv, MaxRunning = 1, NEW c \in Call,
         NEW op \in Operations \ Short,
         NEW arg \in Key \cup {None}, NEW copy \in Bundle \cup {None},
         NEW stage \in {"reserve", "merge", "rollback"}, NEW writes \in 0..2,
         Enter(c, op, arg, copy, stage, writes),
         op \in Writers => writes = Writes(op),
         stage = "reserve" /\ op \notin Granters =>
           copy = store.bundle /\ CanWrite(copy, IF writes = 2 THEN None ELSE arg),
         stage = "reserve" /\ op \in Granters =>
           /\ store.bundle # None /\ Improves(copy, store.bundle)
           /\ op = "addDeviceKey" => arg \in copy.devices
           /\ op = "revokeDeviceKey" => arg \in copy.revoked,
         stage = "merge" => op = "importBundle" /\ Improves(copy, store.bundle)
  PROVE  AwaitedInv'
<1>1. Running = {} /\ depth = 0
  BY AloneBegins DEF Enter, Begin
<1>2. /\ before' = store /\ saved' = store /\ store' = store
      /\ call[c].at = "ready"
  BY <1>1 DEF Enter, Begin
<1>3. Begin(c, op, arg, copy, stage, writes, TRUE)
  BY <1>1 DEF Enter
<1>4. /\ call' \in [Call -> CallState] /\ Rest(c)
      /\ call'[c].at = stage /\ call'[c].op = op /\ call'[c].arg = arg
      /\ call'[c].seen = copy /\ call'[c].left = writes
      /\ call'[c].outer = TRUE
  <2>1. stage \in Stages \cup {"failed"} /\ TRUE \in BOOLEAN /\ op \in Operations
    BY DEF Stages
  <2>2. QED
    BY <1>3, <2>1, BeginFacts DEF SdkInv
<1>5. Settled(store) /\ Own(store, c) = {}
  BY <1>1, <1>2 DEF AwaitedInv, Settled
<1>6. Running' = {c}
  BY <1>1, <1>4 DEF Running, Rest, Stages
<1>7. Settled(before)'
  BY <1>2, <1>4, <1>5, StageFacts DEF Settled, Own, Rest
<1>8. store.seqs \in Counters
  BY StoreTypes DEF SdkInv, TypeOK
<1>9. Written(c)'
  <2>1. op \in Writers => writes # 0
    BY DEF Writes, Writers, Granters
  <2>2. op = "correct" => writes = 2
    BY DEF Writes, Writers
  <2>3. Own(store', c) = {}
    BY <1>2, <1>5
  <2>4. QED
    BY <1>2, <1>4, <2>1, <2>2, <2>3 DEF Written, Writers
<1>10. Prepared(c)'
  <2>1. Improves(store'.bundle, before'.bundle)
    BY <1>2, ImprovesFacts
  <2>2. \A k \in Key : before'.seqs[k] <= store'.seqs[k]
    BY <1>2, <1>8, SdkConstants DEF Counters
  <2>3. op \notin Granters /\ stage = "reserve" =>
          CanWrite(call'[c].seen, IF call'[c].left = 2 THEN None ELSE call'[c].arg)
    BY <1>4
  <2>4. QED
    BY <1>2, <1>4, <2>1, <2>2, <2>3
    DEF Prepared, NotBehind, Reports, Named, Short, Granters
<1>11. Work(c)'
  BY <1>2, <1>4, <1>5, <1>9, <1>10 DEF Work, Own
<1>12. QED
  BY <1>6, <1>7, <1>11 DEF AwaitedInv

LEMMA ShortAwaited ==
  ASSUME SdkInv, AwaitedInv, MaxRunning = 1, NEW c \in Call, NEW op \in Short,
         NEW arg \in Key \cup {None}, NEW copy \in Bundle \cup {None},
         NEW stage \in {"save", "failed"},
         Begin(c, op, arg, copy, stage, 0, FALSE),
         stage = "save" => Improves(copy, store.bundle)
  PROVE  AwaitedInv'
<1>1. Running = {}
  BY AloneBegins DEF Begin
<1>2. before' = store /\ store' = store /\ call[c].at = "ready"
  BY <1>1 DEF Begin
<1>3. /\ call' \in [Call -> CallState] /\ Rest(c)
      /\ call'[c].at = stage /\ call'[c].op = op /\ call'[c].seen = copy
      /\ call'[c].left = 0
  <2>1. /\ stage \in Stages \cup {"failed"} /\ FALSE \in BOOLEAN
        /\ op \in Operations /\ 0 \in 0..2
    BY DEF Stages, Short, Operations
  <2>2. QED
    BY <2>1, BeginFacts DEF SdkInv
<1>4. Settled(store) /\ Own(store, c) = {}
  BY <1>1, <1>2 DEF AwaitedInv, Settled
<1>5. CASE stage = "failed"
  <2>1. Running' = {}
    BY <1>1, <1>3, <1>5 DEF Running, Rest, Stages
  <2>2. Settled(store)'
    BY <1>2, <1>3, <1>4, <1>5 DEF Settled, Own, Rest
  <2>3. Improves(store'.bundle, before'.bundle)
    BY <1>2, ImprovesFacts
  <2>4. QED
    BY <2>1, <2>2, <2>3 DEF AwaitedInv
<1>6. CASE stage = "save"
  <2>1. Running' = {c}
    BY <1>1, <1>3, <1>6 DEF Running, Rest, Stages
  <2>2. Settled(before)'
    BY <1>2, <1>3, <1>4, <1>6 DEF Settled, Own, Rest
  <2>3. Improves(store'.bundle, before'.bundle)
    BY <1>2, ImprovesFacts
  <2>4. Written(c)' /\ Prepared(c)'
    BY <1>2, <1>3, <1>4, <1>6, <2>3
    DEF Written, Own, Prepared, Reports, Short, Writers, Granters
  <2>5. Work(c)'
    BY <1>2, <1>3, <1>4, <2>4 DEF Work, Own, InSection, Short
  <2>6. QED
    BY <2>1, <2>2, <2>5 DEF AwaitedInv
<1>7. QED
  BY <1>5, <1>6

LEMMA BeginAwaited ==
  ASSUME SdkInv, AwaitedInv, MaxRunning = 1, NEW c \in Call,
         \/ CreateRoot(c) \/ SetActiveAk(c) \/ AddDeviceKey(c)
         \/ RevokeDeviceKey(c) \/ ImportBundle(c) \/ WriteRecord(c)
  PROVE  AwaitedInv'
<1>1. CASE CreateRoot(c)
  <2>1. PICK r \in Root :
          IF store.bundle = None
          THEN Begin(c, "createRoot", None, NewBundle(r), "save", 0, FALSE)
          ELSE Begin(c, "createRoot", None, None, "failed", 0, FALSE)
    BY <1>1 DEF CreateRoot
  <2>2. NewBundle(r) \in Bundle /\ "createRoot" \in Short
    BY NewBundleFacts DEF Short
  <2>3. CASE store.bundle = None
    <3>1. Improves(NewBundle(r), store.bundle)
      BY <2>3 DEF Improves
    <3>2. QED
      BY <2>1, <2>2, <2>3, <3>1, ShortAwaited
  <2>4. CASE store.bundle # None
    BY <2>1, <2>2, <2>4, ShortAwaited
  <2>5. QED
    BY <2>3, <2>4
<1>2. CASE SetActiveAk(c)
  <2>1. PICK k \in Key :
          IF CanWrite(store.bundle, k)
          THEN Begin(c, "setActiveAk", k, [store.bundle EXCEPT !.active = k],
                     "save", 0, FALSE)
          ELSE Begin(c, "setActiveAk", k, None, "failed", 0, FALSE)
    BY <1>2 DEF SetActiveAk
  <2>2. PICK a : a = [store.bundle EXCEPT !.active = k]
    OBVIOUS
  <2>3. CASE CanWrite(store.bundle, k)
    <3>1. store.bundle \in Bundle /\ IsAuthorized(store.bundle, k)
      BY <2>3, BundleIs, SdkConstants DEF CanWrite, Resolved, Key
    <3>2. a \in Bundle /\ Improves(a, store.bundle)
      BY <2>2, <3>1, ActiveFacts
    <3>3. Begin(c, "setActiveAk", k, a, "save", 0, FALSE)
      BY <2>1, <2>2, <2>3
    <3>4. QED
      BY <3>2, <3>3, ShortAwaited DEF Short
  <2>4. CASE ~CanWrite(store.bundle, k)
    BY <2>1, <2>4, ShortAwaited DEF Short
  <2>5. QED
    BY <2>3, <2>4
<1>3. CASE AddDeviceKey(c)
  <2>1. PICK d \in Device :
          IF store.bundle # None
          THEN Enter(c, "addDeviceKey", d, WithDevice(store.bundle, d),
                     "reserve", 1)
          ELSE Enter(c, "addDeviceKey", d, None, "rollback", 1)
    BY <1>3 DEF AddDeviceKey
  <2>2. /\ "addDeviceKey" \in Operations \ Short /\ "addDeviceKey" \in Granters
        /\ Writes("addDeviceKey") = 1 /\ d \in Key \cup {None}
    BY DEF Operations, Short, Granters, Writes, Key
  <2>3. CASE store.bundle # None
    <3>1. PICK a : a = WithDevice(store.bundle, d)
      OBVIOUS
    <3>2. a \in Bundle /\ Improves(a, store.bundle) /\ d \in a.devices
      BY <2>3, <3>1, BundleIs, WithDeviceFacts
    <3>3. Enter(c, "addDeviceKey", d, a, "reserve", 1)
      BY <2>1, <2>3, <3>1
    <3>4. QED
      BY <2>2, <2>3, <3>2, <3>3, EnterAwaited
  <2>4. CASE store.bundle = None
    BY <2>1, <2>2, <2>4, EnterAwaited
  <2>5. QED
    BY <2>3, <2>4
<1>4. CASE RevokeDeviceKey(c)
  <2>1. PICK k \in Key :
          IF store.bundle # None /\ k \in store.bundle.devices
          THEN Enter(c, "revokeDeviceKey", k, WithoutDevice(store.bundle, k),
                     "reserve", 1)
          ELSE Enter(c, "revokeDeviceKey", k, None, "rollback", 1)
    BY <1>4 DEF RevokeDeviceKey
  <2>2. /\ "revokeDeviceKey" \in Operations \ Short
        /\ "revokeDeviceKey" \in Granters /\ Writes("revokeDeviceKey") = 1
    BY DEF Operations, Short, Granters, Writes
  <2>3. CASE store.bundle # None /\ k \in store.bundle.devices
    <3>1. PICK a : a = WithoutDevice(store.bundle, k)
      OBVIOUS
    <3>2. a \in Bundle /\ Improves(a, store.bundle) /\ k \in a.revoked
      BY <2>3, <3>1, BundleIs, ValidFacts, WithoutDeviceFacts
    <3>3. Enter(c, "revokeDeviceKey", k, a, "reserve", 1)
      BY <2>1, <2>3, <3>1
    <3>4. QED
      BY <2>2, <2>3, <3>2, <3>3, EnterAwaited
  <2>4. CASE ~(store.bundle # None /\ k \in store.bundle.devices)
    <3>1. Enter(c, "revokeDeviceKey", k, None, "rollback", 1)
      BY <2>1, <2>4
    <3>2. QED
      BY <2>2, <3>1, EnterAwaited
  <2>5. QED
    BY <2>3, <2>4
<1>5. CASE ImportBundle(c)
  <2>1. PICK in \in files :
          IF CanMerge(store.bundle, in)
          THEN Enter(c, "importBundle", None, Merged(store.bundle, in),
                     "merge", 0)
          ELSE Enter(c, "importBundle", None, None, "rollback", 0)
    BY <1>5 DEF ImportBundle
  <2>2. /\ "importBundle" \in Operations \ Short
        /\ "importBundle" \notin Writers /\ in \in Bundle
    BY DEF Operations, Short, Writers, Granters, SdkInv, TypeOK
  <2>3. CASE CanMerge(store.bundle, in)
    <3>1. PICK a : a = Merged(store.bundle, in)
      OBVIOUS
    <3>2. a \in Bundle /\ Improves(a, store.bundle)
      BY <2>2, <2>3, <3>1, BundleIs, MergedFacts
    <3>3. Enter(c, "importBundle", None, a, "merge", 0)
      BY <2>1, <2>3, <3>1
    <3>4. QED
      BY <2>2, <3>2, <3>3, EnterAwaited
  <2>4. CASE ~CanMerge(store.bundle, in)
    BY <2>1, <2>2, <2>4, EnterAwaited
  <2>5. QED
    BY <2>3, <2>4
<1>6. CASE WriteRecord(c)
  <2>1. PICK k \in Key \cup {None} :
          \/ Enter(c, "append", k, store.bundle, Granting(store.bundle, k), 1)
          \/ Enter(c, "correct", k, store.bundle, Granting(store.bundle, None), 2)
          \/ /\ k = None
             /\ Enter(c, "manifest", k, store.bundle, Granting(store.bundle, k), 1)
    BY <1>6 DEF WriteRecord
  <2>2. PICK op \in {"append", "correct", "manifest"},
             stage \in {"reserve", "rollback"}, n \in 1..2 :
          /\ Enter(c, op, k, store.bundle, stage, n)
          /\ n = Writes(op)
          /\ stage = "reserve" =>
               CanWrite(store.bundle, IF n = 2 THEN None ELSE k)
    BY <2>1 DEF Granting, Writes
  <2>3. op \in Operations \ Short /\ op \notin Granters /\ n \in 0..2
    BY DEF Operations, Short, Granters
  <2>4. QED
    BY <2>2, <2>3, BundleIs, EnterAwaited
<1>7. QED
  BY <1>1, <1>2, <1>3, <1>4, <1>5, <1>6

(* A running call goes on. *)
LEMMA GoesOn ==
  ASSUME SdkInv, AwaitedInv, NEW c \in Call, call[c].at \in Stages,
         Rest(c), call'[c].at \in Stages, before' = before, Work(c)'
  PROVE  AwaitedInv'
<1>1. Running = {c} /\ Settled(before)
  BY AloneRuns
<1>2. Running' = {c}
  BY <1>1 DEF Running, Rest
<1>3. Settled(before)'
  BY <1>1, StageFacts DEF Settled, Own, Rest
<1>4. QED
  BY <1>2, <1>3 DEF AwaitedInv

(* A running call ends, with what it has written or with nothing. *)
LEMMA EndsAwaited ==
  ASSUME SdkInv, AwaitedInv, NEW c \in Call, call[c].at \in Stages,
         Rest(c), call'[c].at \in Ended, call'[c].op = call[c].op,
         call'[c].arg = call[c].arg, before' = before,
         before.log \subseteq store'.log,
         \A e \in store'.log \ before.log : e.by = c,
         Improves(store'.bundle, before.bundle),
         call'[c].at = "failed" => Own(store', c) = {},
         call'[c].at = "done" =>
           Cardinality(Own(store', c)) = Writes(call[c].op),
         call'[c].at = "done" /\ call[c].op \in Granters =>
           store'.bundle # None /\ Reports(call[c], store'.bundle)
  PROVE  AwaitedInv'
<1>1. Running = {c} /\ Settled(before) /\ Work(c)
  BY AloneRuns
<1>2. Running' = {}
  BY <1>1, StageFacts DEF Running, Rest
<1>3. ASSUME NEW d \in Call, d # c
      PROVE  call'[d] = call[d] /\ Own(store', d) = Own(before, d)
  BY <1>3 DEF Rest, Own
<1>4. Settled(store)'
  <2> SUFFICES ASSUME NEW d \in Call
               PROVE  /\ call'[d].at \in {"ready", "failed"} => Own(store', d) = {}
                      /\ call'[d].at = "done" =>
                           Cardinality(Own(store', d)) = Writes(call'[d].op)
                      /\ call'[d].at = "done" /\ call'[d].op = "addDeviceKey" =>
                           /\ store'.bundle # None
                           /\ call'[d].arg \in store'.bundle.devices
                      /\ call'[d].at = "done" /\ call'[d].op = "revokeDeviceKey" =>
                           /\ store'.bundle # None
                           /\ call'[d].arg \in store'.bundle.revoked
    BY DEF Settled, Own
  <2>1. CASE d = c
    BY <2>1, StageFacts DEF Reports, Granters
  <2>2. CASE d # c
    BY <1>1, <1>3, <2>2 DEF Settled, Improves
  <2>3. QED
    BY <2>1, <2>2
<1>5. QED
  BY <1>2, <1>4 DEF AwaitedInv

LEMMA ReserveAwaited ==
  ASSUME SdkInv, AwaitedInv, NEW c \in Call, Reserve(c)
  PROVE  AwaitedInv'
<1>1. /\ call[c].at = "reserve" /\ call[c].at \in Stages
      /\ UNCHANGED <<saved, before>>
  BY DEF Reserve, Others, Stages
<1>2. Work(c) /\ call[c].op \in Writers
  BY <1>1, AloneRuns, CallTypes DEF Coherent
<1>3. /\ Rest(c) /\ Same(c) /\ call'[c].left = call[c].left
      /\ call'[c].at = IF Lifecycle(c) THEN "save" ELSE "append"
      /\ ~Lifecycle(c) => call'[c].seen = call[c].seen
      /\ call'[c].seen \in Bundle /\ call[c].seen \in Bundle
      /\ call'[c].seen.root = call[c].seen.root
      /\ call'[c].seen.devices = call[c].seen.devices
      /\ call'[c].seen.revoked = call[c].seen.revoked
      /\ store'.bundle = store.bundle /\ store'.log = store.log
      /\ store'.seqs = [store.seqs EXCEPT ![Author(c)] = NextSeq(c)]
      /\ NextSeq(c) = store.seqs[Author(c)] + 1 /\ Author(c) \in Key
  BY <1>1, ReserveFacts, AuthorFacts
<1>4. Lifecycle(c) <=> call[c].op \in Granters
  BY CallTypes
<1>5. NotBehind(store) => NotBehind(store)'
  <2>1. before.seqs \in Counters /\ store.seqs \in Counters
    BY StoreTypes DEF SdkInv, TypeOK
  <2>2. \A k \in Key : before.seqs[k] \in Nat /\ store.seqs[k] \in Nat
    BY <2>1, SdkConstants DEF Counters
  <2>3. \A k \in Key : store'.seqs[k] = IF k = Author(c) THEN store.seqs[k] + 1
                                                         ELSE store.seqs[k]
    BY <1>3, <2>1 DEF Counters
  <2>4. \A k \in Key : before.seqs[k] <= store.seqs[k]
                         => before.seqs[k] <= store'.seqs[k]
    BY <2>2, <2>3
  <2>5. QED
    BY <1>1, <2>4 DEF NotBehind
<1>6. Written(c)'
  BY <1>2, <1>3, <1>4 DEF Work, Written, Own, Same
<1>7. Prepared(c)'
  <2>1. Prepared(c)
    BY <1>2 DEF Work
  <2>2. CASE Lifecycle(c)
    <3>1. /\ call[c].op \in Granters /\ call'[c].at = "save"
          /\ call'[c].op = call[c].op /\ call'[c].arg = call[c].arg
      BY <1>3, <1>4, <2>2 DEF Same
    <3>2. Improves(call'[c].seen, before.bundle)
      BY <1>1, <1>3, <2>1, <3>1, ValidFacts DEF Prepared, Improves
    <3>3. QED
      BY <1>1, <1>3, <1>5, <2>1, <3>1, <3>2
      DEF Prepared, Reports, Granters, Short
  <2>3. CASE ~Lifecycle(c)
    <3>1. /\ call[c].op \in {"append", "correct", "manifest"}
          /\ call'[c].at = "append" /\ call'[c].op = call[c].op
          /\ call'[c].arg = call[c].arg /\ call'[c].seen = call[c].seen
          /\ Named(c)' = Named(c)
      BY <1>2, <1>3, <1>4, <2>3 DEF Same, Writers, Named
    <3>2. QED
      BY <1>1, <1>3, <1>5, <2>1, <3>1 DEF Prepared, Reports, Granters, Short
  <2>4. QED
    BY <2>2, <2>3
<1>8. Work(c)'
  BY <1>1, <1>2, <1>3, <1>6, <1>7 DEF Work, Own, InSection, Same, Stages
<1>9. call'[c].at \in Stages
  BY <1>3 DEF Stages
<1>10. QED
  BY <1>1, <1>3, <1>8, <1>9, GoesOn

LEMMA SaveAwaited ==
  ASSUME SdkInv, AwaitedInv, NEW c \in Call, Save(c)
  PROVE  AwaitedInv'
<1>1. /\ call[c].at = "save" /\ call[c].at \in Stages
      /\ UNCHANGED <<saved, before>>
  BY DEF Save, Others, Stages
<1>2. /\ Work(c) /\ call[c].op \in Short \cup Granters \cup {"importBundle"}
      /\ call[c].op \in Granters => call[c].left = 1
  BY <1>1, AloneRuns, CallTypes DEF Coherent
<1>3. /\ Rest(c) /\ call'[c].op = call[c].op /\ call'[c].arg = call[c].arg
      /\ store'.bundle = call[c].seen /\ store'.seqs = call[c].seen.seq
      /\ store'.log = store.log /\ call[c].seen \in Bundle
  BY SaveFacts
<1>4. Prepared(c) /\ Written(c)
  BY <1>2 DEF Work
<1>5. Improves(call[c].seen, before.bundle)
  BY <1>1, <1>2, <1>4 DEF Prepared
<1>6. before.log \subseteq store'.log /\ \A e \in store'.log \ before.log : e.by = c
  BY <1>2, <1>3 DEF Work
<1>7. Own(store', c) = {} /\ Own(before', c) = {}
  BY <1>1, <1>2, <1>3, <1>4
  DEF Work, Written, Own, Writers, Granters, Short, Writes
<1>8. CASE call[c].op \in Short
  <2>1. call'[c].at = "done"
    BY <1>8, SaveFacts
  <2>2. Cardinality(Own(store', c)) = Writes(call[c].op)
    BY <1>7, <1>8, FS_EmptySet DEF Writes, Short
  <2>3. call[c].op \notin Granters
    BY <1>8 DEF Granters, Short
  <2>4. QED
    BY <1>1, <1>3, <1>5, <1>6, <2>1, <2>2, <2>3, EndsAwaited DEF Ended
<1>9. CASE call[c].op \notin Short
  <2>1. /\ Same(c) /\ call'[c].at = IF Lifecycle(c) THEN "append" ELSE "exit"
        /\ call'[c].left = call[c].left /\ call'[c].seen = call[c].seen
    BY <1>9, SaveFacts
  <2>2. Lifecycle(c) <=> call[c].op \in Granters
    BY CallTypes
  <2>3. call'[c].at \in Stages
    BY <2>1 DEF Stages
  <2>4. Improves(store'.bundle, before'.bundle) /\ store'.bundle # None
    BY <1>1, <1>3, <1>5, ValidFacts
  <2>5. call[c].op = "importBundle" => NotBehind(store)'
    BY <1>1, <1>3, <1>4 DEF Prepared, NotBehind
  <2>6. Prepared(c)'
    BY <1>1, <1>2, <1>3, <1>4, <1>9, <2>1, <2>2, <2>4, <2>5
    DEF Prepared, Reports, Granters, Short
  <2>7. Written(c)'
    BY <1>2, <1>3, <1>7, <1>9, <2>1, <2>2
    DEF Written, Own, Writers, Granters, Writes
  <2>8. Work(c)'
    BY <1>1, <1>2, <1>6, <1>7, <2>1, <2>6, <2>7 DEF Work, InSection, Same, Own
  <2>9. QED
    BY <1>1, <1>3, <2>3, <2>8, GoesOn
<1>10. QED
  BY <1>8, <1>9

(* The first record of a correction and its second differ in kind. *)
LEMMA AppendWritten ==
  ASSUME NEW c \in Call, NEW r, Written(c),
         call[c].op \in Writers, call[c].left \in 1..2,
         call[c].left = 2 => call[c].op = "correct", Same(c),
         call'[c].at = IF call[c].left > 1 THEN "load" ELSE "exit",
         call'[c].left = call[c].left - 1,
         Own(store', c) = Own(store, c) \cup {r}, r.kind = KindOf(c)
  PROVE  Written(c)'
<1>1. CASE call[c].op # "correct"
  <2>1. call[c].left = 1 /\ call'[c].left = 0 /\ call'[c].op = call[c].op
    BY <1>1 DEF Same
  <2>2. Writes(call[c].op) = 1
    BY <1>1 DEF Writers, Granters, Writes
  <2>3. Own(store', c) = {r}
    BY <1>1, <2>1, <2>2 DEF Written
  <2>4. QED
    BY <1>1, <2>1, <2>2, <2>3 DEF Written, Own
<1>2. CASE call[c].op = "correct" /\ call[c].left = 2
  <2>1. /\ call'[c].left = 1 /\ call'[c].op = "correct" /\ r.kind = "correction"
        /\ call'[c].at = "load"
    BY <1>2 DEF Same, KindOf
  <2>2. Own(store', c) = {r}
    BY <1>2 DEF Written, Writes
  <2>3. QED
    BY <2>1, <2>2 DEF Written, Own, Writes, Writers
<1>3. CASE call[c].op = "correct" /\ call[c].left = 1
  <2>1. call'[c].left = 0 /\ call'[c].op = "correct" /\ r.kind = "event"
    BY <1>3 DEF Same, KindOf
  <2>2. PICK e \in Own(store, c) : Own(store, c) = {e} /\ e.kind = "correction"
    BY <1>3 DEF Written
  <2>3. Own(store', c) = {e, r} /\ e.kind # r.kind
    BY <2>1, <2>2
  <2>4. e \in Own(store', c) /\ r \in Own(store', c)
    BY <2>3
  <2>5. QED
    BY <2>1, <2>3, <2>4 DEF Written, Own, Writes, Writers
<1>4. QED
  BY <1>1, <1>2, <1>3

LEMMA AppendAwaited ==
  ASSUME SdkInv, AwaitedInv, NEW c \in Call, Append(c)
  PROVE  AwaitedInv'
<1>1. /\ call[c].at = "append" /\ call[c].at \in Stages
      /\ UNCHANGED <<saved, before>>
  BY DEF Append, Others, Stages
<1>2. /\ Work(c) /\ call[c].op \in Writers /\ call[c].left \in 1..2
      /\ call[c].left = 2 => call[c].op = "correct"
      /\ call[c].op \in Granters => call[c].left = 1
  BY <1>1, AloneRuns, CallTypes DEF Coherent
<1>3. PICK r : r = RecordOf(c)
  OBVIOUS
<1>4. /\ Rest(c) /\ Same(c) /\ call'[c].at = AfterRecord(c)
      /\ call'[c].left = call[c].left - 1 /\ call'[c].seen = call[c].seen
      /\ store'.log = store.log \cup {r} /\ r.by = c /\ r.kind = KindOf(c)
      /\ store'.bundle = store.bundle /\ store'.seqs = store.seqs
  BY <1>1, <1>3, AppendFacts, RecordFacts
<1>5. Own(store', c) = Own(store, c) \cup {r}
  BY <1>4 DEF Own
<1>6. /\ before.log \subseteq store'.log /\ Own(before, c) = {}
      /\ \A e \in store'.log \ before.log : e.by = c
  BY <1>2, <1>4 DEF Work
<1>7. AfterRecord(c) = IF call[c].left > 1 THEN "load" ELSE "exit"
  BY DEF AfterRecord
<1>8. Written(c)'
  <2>1. Written(c)
    BY <1>2 DEF Work
  <2>2. QED
    BY <1>2, <1>4, <1>5, <1>7, <2>1, AppendWritten
<1>9. Prepared(c)'
  BY <1>1, <1>2, <1>4, <1>7
  DEF Work, Prepared, Same, Reports, NotBehind, Writers, Granters, Short
<1>10. Work(c)'
  BY <1>1, <1>2, <1>4, <1>6, <1>7, <1>8, <1>9 DEF Work, InSection, Same, Own, Stages
<1>11. call'[c].at \in Stages
  BY <1>4, <1>7 DEF Stages
<1>12. QED
  BY <1>1, <1>4, <1>10, <1>11, GoesOn

LEMMA LoadAwaited ==
  ASSUME SdkInv, AwaitedInv, NEW c \in Call, Load(c)
  PROVE  AwaitedInv'
<1>1. /\ call[c].at = "load" /\ call[c].at \in Stages
      /\ UNCHANGED <<store, saved, before>>
  BY DEF Load, Others, Stages
<1>2. Work(c) /\ call[c].op = "correct" /\ call[c].left = 1
  BY <1>1, AloneRuns, CallTypes DEF Coherent
<1>3. /\ Rest(c) /\ Same(c) /\ call'[c].left = 1
      /\ call'[c].seen = store.bundle /\ call'[c].at \in {"reserve", "rollback"}
      /\ call'[c].at = "reserve" => CanWrite(store.bundle, call[c].arg)
  BY <1>2, LoadFacts
<1>4. Written(c)'
  BY <1>1, <1>2, <1>3 DEF Work, Written, Own, Same
<1>5. Prepared(c)'
  <2>1. Named(c)' = call[c].arg
    BY <1>3 DEF Named, Same
  <2>2. QED
    BY <1>1, <1>2, <1>3, <2>1
    DEF Work, Prepared, Same, Reports, NotBehind, Granters, Short
<1>6. Work(c)'
  BY <1>1, <1>2, <1>3, <1>4, <1>5 DEF Work, InSection, Same, Own, Stages
<1>7. call'[c].at \in Stages
  BY <1>3 DEF Stages
<1>8. QED
  BY <1>1, <1>3, <1>6, <1>7, GoesOn

LEMMA ImportAwaited ==
  ASSUME SdkInv, AwaitedInv, NEW c \in Call, Merge(c) \/ Install(c)
  PROVE  AwaitedInv'
<1>1. /\ call[c].at \in {"merge", "install"} /\ call[c].at \in Stages
      /\ UNCHANGED <<saved, before>>
  BY DEF Merge, Install, Others, Stages
<1>2. Work(c) /\ call[c].op = "importBundle"
  BY <1>1, AloneRuns, CallTypes DEF Coherent
<1>3. /\ Rest(c) /\ Same(c) /\ call'[c].at \in {"install", "save"}
      /\ call[c].seen \in Bundle /\ call'[c].seen \in Bundle
      /\ call'[c].seen.root = call[c].seen.root
      /\ call'[c].seen.devices = call[c].seen.devices
      /\ call'[c].seen.revoked = call[c].seen.revoked
      /\ store'.bundle = store.bundle /\ store'.log = store.log
  BY MergeFacts, InstallFacts DEF Merge
<1>4. /\ NotBehind(store)'
      /\ \A k \in Key : before.seqs[k] <= call'[c].seen.seq[k]
  <2>1. CASE Merge(c)
    <3>1. \A k \in Key : /\ store.seqs[k] <= call'[c].seen.seq[k]
                         /\ before.seqs[k] <= store.seqs[k]
      BY <1>2, <2>1, MergeFacts DEF Work, Prepared, NotBehind
    <3>2. /\ store.seqs \in Counters /\ before.seqs \in Counters
          /\ call'[c].seen.seq \in Counters
      BY <2>1, MergeFacts, StoreTypes DEF SdkInv, TypeOK
    <3>3. \A k \in Key : /\ store.seqs[k] \in Nat /\ before.seqs[k] \in Nat
                         /\ call'[c].seen.seq[k] \in Nat
      BY <3>2, SdkConstants DEF Counters
    <3>4. store' = store /\ before' = before
      BY <1>1, <2>1 DEF Merge
    <3>5. QED
      BY <3>1, <3>3, <3>4 DEF NotBehind
  <2>2. CASE Install(c)
    <3>1. call[c].at = "install"
      BY <2>2 DEF Install
    <3>2. \A k \in Key : before.seqs[k] <= call[c].seen.seq[k]
      BY <1>2, <3>1 DEF Work, Prepared
    <3>3. store'.seqs = call[c].seen.seq /\ call'[c].seen = call[c].seen
      BY <2>2, InstallFacts
    <3>4. QED
      BY <1>1, <3>2, <3>3 DEF NotBehind
  <2>3. QED
    BY <2>1, <2>2
<1>5. Improves(call'[c].seen, before.bundle) /\ store.bundle = before.bundle
  BY <1>1, <1>2, <1>3, ValidFacts DEF Work, Prepared, Improves
<1>6. Written(c)'
  BY <1>2, <1>3 DEF Work, Written, Own, Same, Writers, Granters
<1>7. Prepared(c)'
  BY <1>1, <1>2, <1>3, <1>4, <1>5
  DEF Work, Prepared, Same, Reports, Granters, Short
<1>8. Work(c)'
  BY <1>1, <1>2, <1>3, <1>6, <1>7 DEF Work, InSection, Same, Own, Stages
<1>9. call'[c].at \in Stages
  BY <1>3 DEF Stages
<1>10. QED
  BY <1>1, <1>3, <1>8, <1>9, GoesOn

(* A section that is left has written all its records. *)
LEMMA ExitWritten ==
  ASSUME NEW c \in Call, Written(c), call[c].at = "exit",
         call[c].op \in Writers
  PROVE  Cardinality(Own(store, c)) = Writes(call[c].op)
<1>1. CASE call[c].op # "correct"
  <2>1. PICK r : Own(store, c) = {r}
    BY <1>1 DEF Written
  <2>2. Writes(call[c].op) = 1
    BY <1>1 DEF Writers, Granters, Writes
  <2>3. QED
    BY <2>1, <2>2, FS_Singleton
<1>2. CASE call[c].op = "correct"
  <2>1. call[c].left = 0
    BY DEF Written
  <2>2. PICK r, t : Own(store, c) = {r, t} /\ r.kind # t.kind
    BY <1>2, <2>1 DEF Written
  <2>3. /\ IsFiniteSet({r}) /\ Cardinality({r}) = 1 /\ t \notin {r}
    BY <2>2, FS_Singleton
  <2>4. Cardinality({r} \cup {t}) = 2
    BY <2>3, FS_AddElement
  <2>5. {r} \cup {t} = Own(store, c)
    BY <2>2
  <2>6. Cardinality(Own(store, c)) = 2
    BY <2>4, <2>5
  <2>7. QED
    BY <1>2, <2>6 DEF Writes
<1>3. QED
  BY <1>1, <1>2

LEMMA ExitAwaited ==
  ASSUME SdkInv, AwaitedInv, NEW c \in Call, Exit(c)
  PROVE  AwaitedInv'
<1>1. /\ call[c].at = "exit" /\ call[c].at \in Stages
      /\ UNCHANGED <<store, before>> /\ call' = Leave(c, "done")
  BY DEF Exit, Others, Stages
<1>2. Work(c) /\ call[c].op \in Writers \cup {"importBundle"}
  BY <1>1, AloneRuns, CallTypes
  DEF Coherent, Operations, Short, Writers, Granters
<1>3. /\ Rest(c) /\ call'[c].at = "done" /\ call'[c].op = call[c].op
      /\ call'[c].arg = call[c].arg
  BY <1>1, LeaveFacts DEF SdkInv, Ended
<1>4. Written(c) /\ Prepared(c)
  BY <1>2 DEF Work
<1>5. Cardinality(Own(store, c)) = Writes(call[c].op)
  <2>1. CASE call[c].op = "importBundle"
    BY <1>4, <2>1, FS_EmptySet DEF Written, Writers, Granters, Writes
  <2>2. CASE call[c].op \in Writers
    BY <1>1, <1>4, <2>2, ExitWritten
  <2>3. QED
    BY <1>2, <2>1, <2>2
<1>6. /\ Improves(store.bundle, before.bundle)
      /\ call[c].op \in Granters =>
           store.bundle # None /\ Reports(call[c], store.bundle)
  BY <1>1, <1>4 DEF Prepared
<1>7. before.log \subseteq store.log /\ \A e \in store.log \ before.log : e.by = c
  BY <1>2 DEF Work
<1>8. QED
  BY <1>1, <1>3, <1>5, <1>6, <1>7, EndsAwaited DEF Ended

(* A call that rolls back leaves the store as it found it. *)
LEMMA RolledBack ==
  ASSUME SdkInv, AwaitedInv, NEW c \in Call, Rollback(c)
  PROVE  /\ store' = before /\ before' = before /\ Rest(c)
         /\ call'[c].at = "failed" /\ call'[c].op = call[c].op
         /\ call'[c].arg = call[c].arg /\ call[c].at \in Stages
<1>1. /\ call[c].at = "rollback" /\ call[c].at \in Stages /\ before' = before
      /\ call' = Leave(c, "failed")
      /\ store' = IF call[c].outer THEN saved ELSE store
  BY DEF Rollback, Restored, Others, Stages
<1>2. InSection(c) /\ Work(c)
  BY <1>1, AloneRuns, EndFacts
<1>3. store' = before
  BY <1>1, <1>2 DEF Work
<1>4. QED
  BY <1>1, <1>3, LeaveFacts DEF SdkInv, Ended

LEMMA RollbackAwaited ==
  ASSUME SdkInv, AwaitedInv, NEW c \in Call, Rollback(c)
  PROVE  AwaitedInv'
<1>1. /\ store' = before /\ before' = before /\ Rest(c)
      /\ call'[c].at = "failed" /\ call'[c].op = call[c].op
      /\ call'[c].arg = call[c].arg /\ call[c].at \in Stages
  BY RolledBack
<1>2. Own(before, c) = {}
  BY <1>1, AloneRuns DEF Work
<1>3. Improves(store'.bundle, before.bundle)
  BY <1>1, ImprovesFacts
<1>4. QED
  BY <1>1, <1>2, <1>3, EndsAwaited DEF Ended

LEMMA ThrowAwaited ==
  ASSUME SdkInv, AwaitedInv, NEW c \in Call, Throw(c)
  PROVE  AwaitedInv'
<1>1. /\ call[c].at \in Stages /\ call[c].at # "rollback"
      /\ UNCHANGED <<store, saved, before>>
  BY DEF Throw, Others
<1>2. Work(c)
  BY <1>1, AloneRuns
<1>3. CASE call[c].op \in Short
  <2>1. call' = Leave(c, "failed")
    BY <1>3 DEF Throw, Short
  <2>2. /\ Rest(c) /\ call'[c].at = "failed" /\ call'[c].op = call[c].op
        /\ call'[c].arg = call[c].arg
    BY <2>1, LeaveFacts DEF SdkInv, Ended
  <2>3. store = before
    BY <1>2, <1>3 DEF Work, Prepared
  <2>4. Own(store, c) = {} /\ Improves(store.bundle, before.bundle)
    BY <1>2, <2>3, ImprovesFacts DEF Work
  <2>5. QED
    BY <1>1, <2>2, <2>3, <2>4, EndsAwaited DEF Ended
<1>4. CASE call[c].op \notin Short
  <2>1. call' = [call EXCEPT ![c].at = "rollback"]
    BY <1>4 DEF Throw, Short
  <2>2. /\ Rest(c) /\ Same(c) /\ call'[c].at = "rollback"
        /\ call'[c].left = call[c].left
    BY <2>1 DEF SdkInv, TypeOK, CallState, Rest, Same
  <2>3. Written(c)'
    BY <1>1, <1>2, <2>2 DEF Work, Written, Own, Same
  <2>4. Prepared(c)'
    BY <1>1, <1>2, <1>4, <2>2 DEF Work, Prepared, Same, NotBehind
  <2>5. Work(c)'
    BY <1>1, <1>2, <1>4, <2>2, <2>3, <2>4 DEF Work, InSection, Same, Own, Short
  <2>6. call'[c].at \in Stages
    BY <2>2 DEF Stages
  <2>7. QED
    BY <1>1, <2>2, <2>5, <2>6, GoesOn
<1>5. QED
  BY <1>3, <1>4

LEMMA AwaitedSame ==
  ASSUME AwaitedInv, UNCHANGED <<store, saved, call, before>>
  PROVE  AwaitedInv'
<1>1. Running' = Running /\ (Settled(store)' <=> Settled(store))
  BY DEF Running, Settled, Own
<1>2. Settled(before)' <=> Settled(before)
  BY DEF Settled, Own
<1>3. \A c \in Call : Work(c) => Work(c)'
  BY DEF Work, InSection, Own, Written, Prepared, NotBehind, Named
<1>4. QED
  BY <1>1, <1>2, <1>3 DEF AwaitedInv, Running

LEMMA AwaitedInit == Init => AwaitedInv
<1> SUFFICES ASSUME Init
             PROVE  AwaitedInv
  OBVIOUS
<1>1. EmptyStore.log = {} /\ EmptyStore.bundle = None /\ Fresh.at = "ready"
  BY DEF EmptyStore, Fresh
<1>2. Running = {}
  BY <1>1 DEF Init, Running, Stages
<1>3. Settled(store) /\ Improves(store.bundle, before.bundle)
  BY <1>1 DEF Init, Settled, Own, Improves
<1>4. QED
  BY <1>2, <1>3 DEF AwaitedInv

LEMMA AwaitedStep ==
  ASSUME SdkInv, AwaitedInv, MaxRunning = 1, [Next]_vars
  PROVE  AwaitedInv'
<1>1. ASSUME NEW c \in Call,
             \/ CreateRoot(c) \/ SetActiveAk(c)
             \/ AddDeviceKey(c) \/ RevokeDeviceKey(c) \/ ImportBundle(c)
             \/ WriteRecord(c)
             \/ Reserve(c) \/ Save(c) \/ Append(c) \/ Load(c)
             \/ Merge(c) \/ Install(c)
             \/ Exit(c) \/ Rollback(c) \/ Throw(c)
      PROVE  AwaitedInv'
  BY <1>1, BeginAwaited, ReserveAwaited, SaveAwaited, AppendAwaited,
     LoadAwaited, ImportAwaited, ExitAwaited, RollbackAwaited, ThrowAwaited
<1>2. CASE ExportBundle \/ OtherClient
  BY <1>2, OutsideFacts, AwaitedSame
<1>3. CASE UNCHANGED vars
  BY <1>3, AwaitedSame DEF vars
<1>4. QED
  BY <1>1, <1>2, <1>3 DEF Next, Idle

(* The invariant of an application that awaits every call it makes         *)
(* (identity.ts, events.ts, manifest.ts over memory-store.ts).             *)
THEOREM AwaitedInvariant ==
  ASSUME MaxRunning = 1
  PROVE  Spec => []AwaitedInv
<1>1. SdkInv /\ AwaitedInv /\ [Next]_vars => AwaitedInv'
  BY AwaitedStep
<1>2. QED
  BY SdkInvariant, AwaitedInit, <1>1, PTL DEF Spec

(* A call that has failed left no record, one that succeeded left all of   *)
(* its records and what it reports, whatever calls followed (atomic).      *)
THEOREM CallsAreAllOrNothing ==
  ASSUME MaxRunning = 1
  PROVE  Spec => []AllOrNothing
<1>1. ASSUME AwaitedInv
      PROVE  AllOrNothing
  <2> SUFFICES ASSUME NEW d \in Call
               PROVE  /\ call[d].at = "done" =>
                           Cardinality(Own(store, d)) = Writes(call[d].op)
                      /\ call[d].at = "failed" => Own(store, d) = {}
                      /\ call[d].at = "done" /\ call[d].op = "addDeviceKey" =>
                           call[d].arg \in store.bundle.devices
                      /\ call[d].at = "done" /\ call[d].op = "revokeDeviceKey" =>
                           call[d].arg \in store.bundle.revoked
    BY DEF AllOrNothing, Own
  <2>1. CASE Running = {}
    BY <1>1, <2>1 DEF AwaitedInv, Settled
  <2>2. ASSUME NEW c \in Running
        PROVE  /\ call[d].at = "done" =>
                    Cardinality(Own(store, d)) = Writes(call[d].op)
               /\ call[d].at = "failed" => Own(store, d) = {}
               /\ call[d].at = "done" /\ call[d].op = "addDeviceKey" =>
                    call[d].arg \in store.bundle.devices
               /\ call[d].at = "done" /\ call[d].op = "revokeDeviceKey" =>
                    call[d].arg \in store.bundle.revoked
    <3>1. Settled(before) /\ Work(c) /\ c \in Call
      BY <1>1 DEF AwaitedInv, Running
    <3>2. CASE d = c
      BY <3>2, StageFacts DEF Running
    <3>3. CASE d # c
      <4>1. Own(store, d) = Own(before, d) /\ Improves(store.bundle, before.bundle)
        BY <3>1, <3>3 DEF Work, Own, Prepared
      <4>2. QED
        BY <3>1, <4>1 DEF Settled, Improves
    <3>4. QED
      BY <3>2, <3>3
  <2>3. QED
    BY <2>1, <2>2
<1>2. AwaitedInv => AllOrNothing
  BY <1>1
<1>3. QED
  BY AwaitedInvariant, <1>2, PTL

(* Between two calls root, devices and revocations are still there         *)
(* (importBundle, mergeIdentityAuthorization).                             *)
THEOREM KnowledgeAlwaysStays ==
  ASSUME MaxRunning = 1
  PROVE  Spec => []KnowledgeStays
<1>1. AwaitedInv => KnowledgeStays
  BY DEF AwaitedInv, KnowledgeStays, Improves
<1>2. QED
  BY AwaitedInvariant, <1>1, PTL

-----------------------------------------------------------------------------
(* What a step of an awaited call may never do.                            *)

(* While a call runs, every step that changes the store or a call is its. *)
LEMMA OnlyOneMoves ==
  ASSUME SdkInv, AwaitedInv, MaxRunning = 1, [Next]_vars
  PROVE  \/ UNCHANGED <<store, call, before>>
         \/ UNCHANGED store /\ Running = {}
         \/ \E c \in Call :
              /\ Running = {c}
              /\ \/ Reserve(c) \/ Save(c) \/ Append(c) \/ Load(c)
                 \/ Merge(c) \/ Install(c)
                 \/ Exit(c) \/ Rollback(c) \/ Throw(c)
<1>1. ASSUME NEW c \in Call,
             \/ CreateRoot(c) \/ SetActiveAk(c)
             \/ AddDeviceKey(c) \/ RevokeDeviceKey(c) \/ ImportBundle(c)
             \/ WriteRecord(c)
      PROVE  UNCHANGED store /\ Cardinality(Running) < MaxRunning
  BY <1>1 DEF CreateRoot, SetActiveAk, AddDeviceKey, RevokeDeviceKey,
              ImportBundle, WriteRecord, Enter, Begin
<1>2. ASSUME NEW c \in Call,
             \/ Reserve(c) \/ Save(c) \/ Append(c) \/ Load(c)
             \/ Merge(c) \/ Install(c)
             \/ Exit(c) \/ Rollback(c) \/ Throw(c)
      PROVE  Running = {c}
  <2>1. call[c].at \in Stages
    BY <1>2 DEF Reserve, Save, Append, Load, Merge, Install, Exit, Rollback,
                Throw, Stages
  <2>2. QED
    BY <2>1, AloneRuns
<1>3. CASE ExportBundle \/ OtherClient
  BY <1>3, OutsideFacts
<1>4. CASE UNCHANGED vars
  BY <1>4 DEF vars
<1>5. QED
  BY <1>1, <1>2, <1>3, <1>4, AloneBegins DEF Next, Idle

(* How the running call goes on or ends. *)
LEMMA MovesOn ==
  ASSUME SdkInv, AwaitedInv, NEW c \in Call, Running = {c},
         \/ Reserve(c) \/ Save(c) \/ Append(c) \/ Load(c)
         \/ Merge(c) \/ Install(c)
         \/ Exit(c) \/ Rollback(c) \/ Throw(c)
  PROVE  \/ call'[c].at \in Stages
         \/ Exit(c) /\ call'[c].at = "done"
         \/ Save(c) /\ call[c].op \in Short /\ call'[c].at = "done"
         \/ Rollback(c) /\ call'[c].at = "failed"
         \/ Throw(c) /\ call[c].op \in Short /\ call'[c].at = "failed"
<1>1. CASE Reserve(c) \/ Load(c) \/ Merge(c) \/ Install(c)
  BY <1>1, ReserveFacts, LoadFacts, MergeFacts, InstallFacts DEF Stages
<1>2. CASE Save(c)
  <2>1. CASE call[c].op \in Short
    BY <1>2, <2>1, SaveFacts
  <2>2. CASE call[c].op \notin Short
    BY <1>2, <2>2, SaveFacts DEF Stages
  <2>3. QED
    BY <2>1, <2>2
<1>3. CASE Append(c)
  BY <1>3, AppendFacts DEF AfterRecord, Stages
<1>4. CASE Exit(c)
  <2>1. call' = Leave(c, "done")
    BY <1>4 DEF Exit
  <2>2. QED
    BY <1>4, <2>1, LeaveFacts DEF SdkInv, Ended
<1>5. CASE Rollback(c)
  BY <1>5, RolledBack
<1>6. CASE Throw(c)
  <2>1. CASE call[c].op \in Short
    <3>1. call' = Leave(c, "failed")
      BY <1>6, <2>1 DEF Throw, Short
    <3>2. QED
      BY <1>6, <2>1, <3>1, LeaveFacts DEF SdkInv, Ended
  <2>2. CASE call[c].op \notin Short
    <3>1. call' = [call EXCEPT ![c].at = "rollback"]
      BY <1>6, <2>2 DEF Throw, Short
    <3>2. call'[c].at = "rollback"
      BY <3>1 DEF SdkInv, TypeOK, CallState
    <3>3. QED
      BY <3>2 DEF Stages
  <2>3. QED
    BY <2>1, <2>2
<1>7. QED
  BY <1>1, <1>2, <1>3, <1>4, <1>5, <1>6

(* A call that fails leaves the store exactly as it found it, counters and *)
(* bundle included (restoreSnapshot).                                      *)
LEMMA FailedStep ==
  ASSUME SdkInv, AwaitedInv, MaxRunning = 1, [Next]_vars, NEW c \in Call,
         call[c].at \in Stages, call'[c].at = "failed"
  PROVE  store' = before
<1>1. Running = {c} /\ Work(c)
  BY AloneRuns
<1>2. call'[c].at \notin Stages /\ call'[c] # call[c]
  BY StageFacts DEF Ended
<1>3. \/ Reserve(c) \/ Save(c) \/ Append(c) \/ Load(c)
      \/ Merge(c) \/ Install(c)
      \/ Exit(c) \/ Rollback(c) \/ Throw(c)
  BY <1>1, <1>2, OnlyOneMoves
<1>4. Rollback(c) \/ (Throw(c) /\ call[c].op \in Short)
  BY <1>1, <1>2, <1>3, MovesOn
<1>5. CASE Rollback(c)
  BY <1>5, RolledBack
<1>6. CASE Throw(c) /\ call[c].op \in Short
  BY <1>1, <1>6 DEF Throw, Work, Prepared
<1>7. QED
  BY <1>4, <1>5, <1>6

LEMMA RevokedStep ==
  ASSUME SdkInv, AwaitedInv, MaxRunning = 1, [Next]_vars,
         NEW e \in store'.log \ store.log
  PROVE  e.ak \notin store.bundle.revoked
<1>1. store'.log # store.log /\ store' # store
  OBVIOUS
<1>2. PICK c \in Call : /\ Running = {c}
                        /\ \/ Reserve(c) \/ Save(c) \/ Append(c) \/ Load(c)
                           \/ Merge(c) \/ Install(c)
                           \/ Exit(c) \/ Rollback(c) \/ Throw(c)
  BY <1>1, OnlyOneMoves
<1>3. call[c].at \in Stages /\ Work(c)
  BY <1>2, AloneRuns DEF Running
<1>4. Append(c)
  <2>1. ~Reserve(c) /\ ~Save(c) /\ ~Install(c)
    BY <1>1, ReserveFacts, SaveFacts, InstallFacts
  <2>2. ~Load(c) /\ ~Merge(c) /\ ~Exit(c) /\ ~Throw(c)
    BY <1>1 DEF Load, Merge, Exit, Throw
  <2>3. ~Rollback(c)
    BY <1>3, RolledBack DEF Work
  <2>4. QED
    BY <1>2, <2>1, <2>2, <2>3
<1>5. /\ e = RecordOf(c) /\ e.ak = Author(c) /\ call[c].at = "append"
      /\ call[c].op \in Writers
  BY <1>4, AppendFacts, RecordFacts, CallTypes DEF Append, Coherent
<1>6. /\ call[c].seen = store.bundle /\ store.bundle \in Bundle
      /\ ~Lifecycle(c) => CanWrite(store.bundle, Named(c))
  <2>1. Lifecycle(c) <=> call[c].op \in Granters
    BY CallTypes
  <2>2. call[c].seen \in Bundle
    BY <1>5, AuthorFacts
  <2>3. QED
    BY <1>3, <1>5, <2>1, <2>2 DEF Work, Prepared, Writers
<1>7. CASE Lifecycle(c)
  BY <1>5, <1>6, <1>7, AuthorFacts, ValidFacts
<1>8. CASE ~Lifecycle(c)
  BY <1>5, <1>6, <1>8, AuthorFacts, ValidFacts DEF CanWrite, IsAuthorized
<1>9. QED
  BY <1>7, <1>8

(* A revoked key writes no record, named, selected or in the second record *)
(* of a correction (requireAuthorizedAk).                                  *)
THEOREM RevokedKeysNeverWrite ==
  ASSUME MaxRunning = 1
  PROVE  Spec => RevokedNeverWrites
<1>1. SdkInv /\ AwaitedInv /\ [Next]_vars =>
        [\A e \in store'.log \ store.log : e.ak \notin store.bundle.revoked]_vars
  BY RevokedStep
<1>2. QED
  BY SdkInvariant, AwaitedInvariant, <1>1, PTL DEF Spec, RevokedNeverWrites

LEMMA CountersStep ==
  ASSUME SdkInv, AwaitedInv, MaxRunning = 1, [Next]_vars, NEW c \in Call,
         call[c].at \in Stages, call'[c].at \in Ended,
         call[c].op \in {"importBundle", "append", "correct", "manifest"},
         NEW k \in Key
  PROVE  before.seqs[k] <= store'.seqs[k]
<1>1. Running = {c} /\ Work(c)
  BY AloneRuns
<1>2. call'[c].at \notin Stages /\ call'[c] # call[c]
  BY StageFacts
<1>3. \/ Reserve(c) \/ Save(c) \/ Append(c) \/ Load(c)
      \/ Merge(c) \/ Install(c)
      \/ Exit(c) \/ Rollback(c) \/ Throw(c)
  BY <1>1, <1>2, OnlyOneMoves
<1>4. Exit(c) \/ Rollback(c)
  BY <1>1, <1>2, <1>3, MovesOn DEF Short
<1>5. CASE Exit(c)
  BY <1>1, <1>5 DEF Exit, Work, Prepared, NotBehind
<1>6. CASE Rollback(c)
  <2>1. before.seqs[k] \in Nat
    BY StoreTypes, SdkConstants DEF SdkInv, TypeOK, Counters
  <2>2. QED
    BY <1>6, <2>1, RolledBack
<1>7. QED
  BY <1>4, <1>5, <1>6

(* No import and no record moves a counter back, whether the call succeeds *)
(* or fails (importBundle, sequence.importSnapshot).  createRoot,          *)
(* setActiveAk, addDeviceKey and revokeDeviceKey are not meant: they fill  *)
(* the allocator from a bundle, which may take counters back.              *)
THEOREM ImportsAndRecordsGrowCounters ==
  ASSUME MaxRunning = 1
  PROVE  Spec => CountersGrow
<1>1. SdkInv /\ AwaitedInv /\ [Next]_vars =>
        [\A c \in Call :
           /\ call[c].at \in Stages /\ call'[c].at \in Ended
           /\ call[c].op \in {"importBundle", "append", "correct", "manifest"}
           => \A k \in Key : before.seqs[k] <= store'.seqs[k]]_vars
  BY CountersStep
<1>2. QED
  BY SdkInvariant, AwaitedInvariant, <1>1, PTL DEF Spec, CountersGrow

-----------------------------------------------------------------------------
(* Every call awaited, seen from outside: a call is answered in one step,  *)
(* which leaves the store as it was or adds to it what the call reports.   *)
(* What that takes besides AwaitedInv: the numbers a running call has      *)
(* given to its records are new, and it has none of them twice.            *)
Added == store.log \ before.log

NumbersDrawn(c) ==
  LET s == call[c] IN
  /\ \A e \in Added :
       /\ before.seqs[e.ak] < e.seq
       /\ before.bundle # None => e.ak \notin before.bundle.revoked
  /\ \A e, f \in Added : e.ak = f.ak /\ e.seq = f.seq => e = f
  /\ s.op = "correct" => \A e \in Added : e.seq <= store.seqs[e.ak]
  /\ s.op \in Granters /\ s.at = "reserve" => store.seqs = before.seqs
  /\ s.op \in Writers /\ s.at \in {"save", "append"} =>
       before.seqs[Author(c)] < s.n
  /\ s.op = "correct" /\ s.at = "append" =>
       /\ s.n <= store.seqs[Author(c)]
       /\ \A e \in Added : e.ak = Author(c) => e.seq < s.n
  /\ store.objects = before.objects

DrawnInv == \A c \in Running : NumbersDrawn(c)

(* A call begins, alone. *)
Begins(c) ==
  /\ Running = {} /\ call[c].at = "ready" /\ Rest(c)
  /\ store' = store /\ before' = store
  /\ call'[c].at \in {"save", "failed", "reserve", "merge", "rollback"}
  /\ call'[c].at \in {"save", "failed"} => call'[c].op \in Short

Moves(c) ==
  \/ Reserve(c) \/ Save(c) \/ Append(c) \/ Load(c)
  \/ Merge(c) \/ Install(c)
  \/ Exit(c) \/ Rollback(c) \/ Throw(c)

LEMMA BeginsAlone ==
  ASSUME SdkInv, MaxRunning = 1, NEW c \in Call,
         NEW op, NEW arg, NEW copy, NEW stage, NEW writes, NEW outermost,
         Begin(c, op, arg, copy, stage, writes, outermost),
         stage \in {"save", "failed", "reserve", "merge", "rollback"},
         stage \in {"save", "failed"} => op \in Short
  PROVE  Begins(c)
<1>1. Running = {}
  BY AloneBegins DEF Begin
<1>2. PICK x : x = [Fresh EXCEPT !.at = stage, !.op = op, !.arg = arg,
                      !.seen = copy, !.left = writes, !.outer = outermost]
  OBVIOUS
<1>3. x.at = stage /\ x.op = op
  BY <1>2 DEF Fresh
<1>4. call' = [call EXCEPT ![c] = x] /\ call \in [Call -> CallState]
  BY <1>2 DEF Begin, SdkInv, TypeOK
<1>5. call'[c] = x /\ Rest(c)
  BY <1>4 DEF Rest
<1>6. QED
  BY <1>1, <1>3, <1>5 DEF Begin, Begins

LEMMA EntersAlone ==
  ASSUME SdkInv, MaxRunning = 1, NEW c \in Call,
         NEW op, NEW arg, NEW copy, NEW stage, NEW writes,
         Enter(c, op, arg, copy, stage, writes),
         stage \in {"reserve", "merge", "rollback"}
  PROVE  Begins(c)
<1>1. PICK o : o = (depth = 0)
  OBVIOUS
<1>2. Begin(c, op, arg, copy, stage, writes, o)
  BY <1>1 DEF Enter
<1>3. QED
  BY <1>2, BeginsAlone

LEMMA BeginsHow ==
  ASSUME SdkInv, MaxRunning = 1, NEW c \in Call,
         \/ CreateRoot(c) \/ SetActiveAk(c) \/ AddDeviceKey(c)
         \/ RevokeDeviceKey(c) \/ ImportBundle(c) \/ WriteRecord(c)
  PROVE  Begins(c)
<1>1. CASE CreateRoot(c)
  <2>1. PICK r : \/ Begin(c, "createRoot", None, NewBundle(r), "save", 0, FALSE)
                 \/ Begin(c, "createRoot", None, None, "failed", 0, FALSE)
    BY <1>1 DEF CreateRoot
  <2>2. QED
    BY <2>1, BeginsAlone DEF Short
<1>2. CASE SetActiveAk(c)
  <2>1. PICK k : \/ Begin(c, "setActiveAk", k, [store.bundle EXCEPT !.active = k],
                          "save", 0, FALSE)
                 \/ Begin(c, "setActiveAk", k, None, "failed", 0, FALSE)
    BY <1>2 DEF SetActiveAk
  <2>2. QED
    BY <2>1, BeginsAlone DEF Short
<1>3. CASE AddDeviceKey(c)
  <2>1. PICK d : \/ Enter(c, "addDeviceKey", d, WithDevice(store.bundle, d),
                          "reserve", 1)
                 \/ Enter(c, "addDeviceKey", d, None, "rollback", 1)
    BY <1>3 DEF AddDeviceKey
  <2>2. QED
    BY <2>1, EntersAlone
<1>4. CASE RevokeDeviceKey(c)
  <2>1. PICK k : \/ Enter(c, "revokeDeviceKey", k,
                          WithoutDevice(store.bundle, k), "reserve", 1)
                 \/ Enter(c, "revokeDeviceKey", k, None, "rollback", 1)
    BY <1>4 DEF RevokeDeviceKey
  <2>2. QED
    BY <2>1, EntersAlone
<1>5. CASE ImportBundle(c)
  <2>1. PICK in : \/ Enter(c, "importBundle", None, Merged(store.bundle, in),
                           "merge", 0)
                  \/ Enter(c, "importBundle", None, None, "rollback", 0)
    BY <1>5 DEF ImportBundle
  <2>2. QED
    BY <2>1, EntersAlone
<1>6. CASE WriteRecord(c)
  <2>1. \A b, k : Granting(b, k) \in {"reserve", "rollback"}
    BY DEF Granting
  <2>2. PICK k \in Key \cup {None}, t \in {"reserve", "rollback"} :
             \/ Enter(c, "append", k, store.bundle, t, 1)
             \/ Enter(c, "correct", k, store.bundle, t, 2)
             \/ Enter(c, "manifest", k, store.bundle, t, 1)
    BY <1>6, <2>1 DEF WriteRecord
  <2>3. QED
    BY <2>2, EntersAlone
<1>7. QED
  BY <1>1, <1>2, <1>3, <1>4, <1>5, <1>6

(* A step of an application that awaits every call. *)
LEMMA StepKinds ==
  ASSUME SdkInv, AwaitedInv, MaxRunning = 1, [Next]_vars
  PROVE  \/ UNCHANGED <<store, call, before>>
         \/ \E c \in Call : Begins(c)
         \/ \E c \in Call : Running = {c} /\ Moves(c)
<1>1. ASSUME NEW c \in Call, Moves(c)
      PROVE  Running = {c}
  <2>1. call[c].at \in Stages
    BY <1>1 DEF Moves, Reserve, Save, Append, Load, Merge, Install, Exit,
                Rollback, Throw, Stages
  <2>2. QED
    BY <2>1, AloneRuns
<1>2. CASE ExportBundle \/ OtherClient
  BY <1>2, OutsideFacts
<1>3. CASE UNCHANGED vars
  BY <1>3 DEF vars
<1>4. QED
  BY <1>1, <1>2, <1>3, BeginsHow DEF Next, Idle, Moves

(* A step of a running call is about this call alone. *)
LEMMA MovesAlone ==
  ASSUME SdkInv, AwaitedInv, NEW c \in Call, Running = {c}, Moves(c)
  PROVE  /\ Rest(c) /\ call[c].at \in Stages /\ before' = before
         /\ call'[c].op = call[c].op /\ call'[c].arg = call[c].arg
         /\ call'[c].at \in Ended => Exit(c) \/ Save(c) \/ Rollback(c) \/ Throw(c)
<1>1. call[c].at \in Stages /\ before' = before
  BY DEF Running, Moves, Reserve, Save, Append, Load, Merge, Install, Exit,
         Rollback, Throw, Others
<1>2. CASE Reserve(c) \/ Append(c) \/ Load(c) \/ Merge(c) \/ Install(c)
  <2>1. Rest(c) /\ Same(c)
    BY <1>2, ReserveFacts, AppendFacts, LoadFacts, MergeFacts, InstallFacts
  <2>2. call'[c].at \in Stages
    BY <1>2, ReserveFacts, AppendFacts, LoadFacts, MergeFacts, InstallFacts
    DEF Stages, AfterRecord
  <2>3. QED
    BY <1>1, <2>1, <2>2, StageFacts DEF Same
<1>3. CASE Save(c)
  BY <1>1, <1>3, SaveFacts
<1>4. CASE Exit(c)
  <2>1. call' = Leave(c, "done")
    BY <1>4 DEF Exit
  <2>2. QED
    BY <1>1, <1>4, <2>1, LeaveFacts DEF SdkInv, Ended
<1>5. CASE Rollback(c)
  BY <1>1, <1>5, RolledBack
<1>6. CASE Throw(c)
  <2>1. CASE call[c].op \in Short
    <3>1. call' = Leave(c, "failed")
      BY <1>6, <2>1 DEF Throw, Short
    <3>2. QED
      BY <1>1, <1>6, <3>1, LeaveFacts DEF SdkInv, Ended
  <2>2. CASE call[c].op \notin Short
    <3>1. call' = [call EXCEPT ![c].at = "rollback"]
      BY <1>6, <2>2 DEF Throw, Short
    <3>2. QED
      BY <1>1, <1>6, <3>1 DEF SdkInv, TypeOK, CallState, Rest
  <2>3. QED
    BY <2>1, <2>2
<1>7. QED
  BY <1>2, <1>3, <1>4, <1>5, <1>6 DEF Moves

LEMMA AddedTypes ==
  ASSUME SdkInv
  PROVE  /\ \A e \in Added : e.ak \in Key /\ e.seq \in Nat
         /\ \A k \in Key : store.seqs[k] \in Nat /\ before.seqs[k] \in Nat
<1>1. /\ store.log \in SUBSET Record
      /\ store.seqs \in Counters /\ before.seqs \in Counters
  BY StoreTypes DEF SdkInv, TypeOK
<1>2. QED
  BY <1>1, SdkConstants DEF Added, Record, Counters

LEMMA ReserveDrawn ==
  ASSUME SdkInv, AwaitedInv, NEW c \in Call, NumbersDrawn(c), Reserve(c)
  PROVE  NumbersDrawn(c)'
<1>1. /\ call[c].at = "reserve" /\ call[c].at \in Stages /\ before' = before
  BY DEF Reserve, Others, Stages
<1>2. PICK a, n : a = Author(c) /\ n = NextSeq(c)
  OBVIOUS
<1>3. /\ a \in Key /\ n = store.seqs[a] + 1 /\ store.seqs \in Counters
      /\ call'[c].n = n /\ call'[c].op = call[c].op
      /\ call'[c].at \in {"save", "append"}
      /\ store'.log = store.log /\ store'.objects = store.objects
      /\ store'.seqs = [store.seqs EXCEPT ![a] = n]
  BY <1>1, <1>2, ReserveFacts, AuthorFacts, StoreTypes
  DEF Same, SdkInv, TypeOK
<1>4. Author(c)' = a
  BY <1>2, ReserveFacts DEF Same, Author, Lifecycle, Named
<1>5. \A k \in Key : store'.seqs[k] = IF k = a THEN n ELSE store.seqs[k]
  BY <1>3 DEF Counters
<1>6. Added' = Added
  BY <1>1, <1>3 DEF Added
<1>7. before.seqs[a] <= store.seqs[a]
  <2>1. Work(c) /\ call[c].op \in Writers
    BY <1>1, AloneRuns, CallTypes DEF Coherent
  <2>2. CASE call[c].op \in Granters
    BY <1>1, <1>3, <2>2, AddedTypes DEF NumbersDrawn
  <2>3. CASE call[c].op \notin Granters
    BY <1>3, <2>1, <2>3 DEF Work, Prepared, NotBehind, Writers
  <2>4. QED
    BY <2>2, <2>3
<1>8. before.seqs[a] < n /\ n <= store'.seqs[a]
  BY <1>3, <1>5, <1>7, AddedTypes
<1>9. ASSUME call[c].op = "correct", NEW e \in Added
      PROVE  e.seq <= store'.seqs[e.ak] /\ (e.ak = a => e.seq < n)
  <2>1. e.seq <= store.seqs[e.ak]
    BY <1>9 DEF NumbersDrawn
  <2>2. QED
    BY <1>3, <1>5, <2>1, AddedTypes
<1>10. QED
  BY <1>1, <1>3, <1>4, <1>6, <1>8, <1>9 DEF NumbersDrawn

LEMMA SaveDrawn ==
  ASSUME SdkInv, NEW c \in Call, NumbersDrawn(c), Save(c),
         call[c].op \notin Short
  PROVE  NumbersDrawn(c)'
<1>1. call[c].at = "save" /\ before' = before
  BY DEF Save, Others
<1>2. call[c].op # "correct"
  BY <1>1, CallTypes DEF Coherent, Short, Granters
<1>3. /\ call'[c].op = call[c].op /\ call'[c].n = call[c].n
      /\ call'[c].at \in {"append", "exit"}
      /\ store'.log = store.log /\ store'.objects = store.objects
  BY SaveFacts
<1>4. Author(c)' = Author(c)
  BY SaveFacts DEF Same, Author, Lifecycle, Named
<1>5. Added' = Added
  BY <1>1, <1>3 DEF Added
<1>6. QED
  BY <1>1, <1>2, <1>3, <1>4, <1>5 DEF NumbersDrawn

LEMMA AppendDrawn ==
  ASSUME SdkInv, AwaitedInv, MaxRunning = 1, [Next]_vars,
         NEW c \in Call, NumbersDrawn(c), Append(c)
  PROVE  NumbersDrawn(c)'
<1>1. /\ call[c].at = "append" /\ call[c].at \in Stages /\ before' = before
  BY DEF Append, Others, Stages
<1>2. /\ Work(c) /\ call[c].op \in Writers /\ call[c].left \in 1..2
      /\ call[c].left = 2 => call[c].op = "correct"
  BY <1>1, AloneRuns, CallTypes DEF Coherent
<1>3. PICK r : r = RecordOf(c)
  OBVIOUS
<1>4. /\ r.ak = Author(c) /\ r.seq = call[c].n
      /\ call'[c].op = call[c].op /\ call'[c].at \in {"load", "exit"}
      /\ store'.log = store.log \cup {r} /\ store'.seqs = store.seqs
      /\ store'.objects = store.objects
  BY <1>1, <1>3, AppendFacts, RecordFacts DEF Same, AfterRecord
<1>5. before.seqs[r.ak] < r.seq
  BY <1>1, <1>2, <1>4 DEF NumbersDrawn
<1>6. r \in Added \/ (before.bundle # None => r.ak \notin before.bundle.revoked)
      \/ r \in before.log
  <2>1. CASE r \in store.log
    BY <2>1 DEF Added
  <2>2. CASE r \notin store.log
    <3>1. r.ak \notin store.bundle.revoked
      BY <1>4, <2>2, RevokedStep
    <3>2. Improves(store.bundle, before.bundle)
      BY <1>2 DEF Work, Prepared
    <3>3. QED
      BY <3>1, <3>2 DEF Improves
  <2>3. QED
    BY <2>1, <2>2
<1>7. \A e \in Added' : e \in Added \/ (e = r /\ r \notin before.log)
  BY <1>1, <1>4 DEF Added
<1>8. call[c].op # "correct" => Added = {}
  <2>1. call[c].op # "correct" => Own(store, c) = {}
    BY <1>2 DEF Work, Written, Writes, Writers, Granters
  <2>2. \A e \in Added : e \in Own(store, c)
    BY <1>2 DEF Work, Added, Own
  <2>3. QED
    BY <2>1, <2>2
<1>9. \A e \in Added : e.ak = r.ak => e.seq # r.seq
  <2>1. ASSUME NEW e \in Added, e.ak = r.ak
        PROVE  e.seq # r.seq
    <3>1. e.seq < r.seq
      BY <1>1, <1>4, <1>8, <2>1 DEF NumbersDrawn
    <3>2. e.seq \in Nat
      BY AddedTypes
    <3>3. QED
      BY <3>1, <3>2
  <2>2. QED
    BY <2>1
<1>10. call[c].op = "correct" => r.seq <= store.seqs[r.ak]
  BY <1>1, <1>4 DEF NumbersDrawn
<1>11. \A e \in Added' :
         /\ before.seqs[e.ak] < e.seq
         /\ before.bundle # None => e.ak \notin before.bundle.revoked
  BY <1>5, <1>6, <1>7 DEF NumbersDrawn
<1>12. \A e, f \in Added' : e.ak = f.ak /\ e.seq = f.seq => e = f
  BY <1>7, <1>9 DEF NumbersDrawn
<1>13. call[c].op = "correct" => \A e \in Added' : e.seq <= store.seqs[e.ak]
  BY <1>7, <1>10 DEF NumbersDrawn
<1>14. QED
  BY <1>1, <1>4, <1>11, <1>12, <1>13 DEF NumbersDrawn

LEMMA OtherDrawn ==
  ASSUME SdkInv, AwaitedInv, NEW c \in Call, NumbersDrawn(c),
         Load(c) \/ Merge(c) \/ Install(c) \/ Throw(c), call'[c].at \in Stages
  PROVE  NumbersDrawn(c)'
<1>1. /\ before' = before /\ store'.log = store.log
      /\ store'.objects = store.objects
  BY InstallFacts DEF Load, Merge, Install, Throw, Others
<1>2. Added' = Added
  BY <1>1 DEF Added
<1>3. CASE Load(c)
  <2>1. call[c].op = "correct"
    BY <1>3, CallTypes DEF Load, Coherent
  <2>2. /\ call'[c].op = "correct" /\ call'[c].at \in {"reserve", "rollback"}
        /\ store' = store
    BY <1>3, <2>1, LoadFacts DEF Load, Same
  <2>3. QED
    BY <1>1, <1>2, <2>1, <2>2 DEF NumbersDrawn, Granters
<1>4. CASE Merge(c) \/ Install(c)
  <2>1. call[c].op = "importBundle"
    BY <1>4, CallTypes DEF Merge, Install, Coherent
  <2>2. call'[c].op = "importBundle"
    BY <1>4, <2>1, MergeFacts, InstallFacts DEF Same
  <2>3. QED
    BY <1>1, <1>2, <2>1, <2>2 DEF NumbersDrawn, Granters, Writers
<1>5. CASE Throw(c)
  <2>1. call[c].op \notin Short
    <3>1. call[c].op \in Short => call' = Leave(c, "failed")
      BY <1>5 DEF Throw, Short
    <3>2. QED
      BY <3>1, LeaveFacts, StageFacts DEF SdkInv, Ended
  <2>2. call' = [call EXCEPT ![c].at = "rollback"] /\ store' = store
    BY <1>5, <2>1 DEF Throw, Short
  <2>3. call'[c].at = "rollback" /\ call'[c].op = call[c].op
    BY <2>2 DEF SdkInv, TypeOK, CallState
  <2>4. QED
    BY <1>1, <1>2, <2>2, <2>3 DEF NumbersDrawn
<1>6. QED
  BY <1>3, <1>4, <1>5

LEMMA ExitEnds ==
  ASSUME SdkInv, NEW c \in Call, Exit(c)
  PROVE  call'[c].at = "done" /\ store' = store
<1>1. call' = Leave(c, "done") /\ store' = store
  BY DEF Exit
<1>2. QED
  BY <1>1, LeaveFacts DEF SdkInv, Ended

LEMMA DrawnStep ==
  ASSUME SdkInv, AwaitedInv, DrawnInv, MaxRunning = 1, [Next]_vars
  PROVE  DrawnInv'
<1>1. CASE UNCHANGED <<store, call, before>>
  BY <1>1 DEF DrawnInv, Running, NumbersDrawn, Added, Author, Lifecycle, Named
<1>2. ASSUME NEW c \in Call, Begins(c)
      PROVE  DrawnInv'
  <2>1. \A d \in Running' : d = c
    BY <1>2 DEF Begins, Running, Rest
  <2>2. Added' = {} /\ store' = before'
    BY <1>2 DEF Begins, Added
  <2>3. call'[c].at # "append" /\ (call'[c].at = "save" => call'[c].op \notin Writers)
    BY <1>2 DEF Begins, Short, Writers, Granters
  <2>4. NumbersDrawn(c)'
    BY <2>2, <2>3 DEF NumbersDrawn
  <2>5. QED
    BY <2>1, <2>4 DEF DrawnInv
<1>3. ASSUME NEW c \in Call, Running = {c}, Moves(c)
      PROVE  DrawnInv'
  <2>1. Rest(c)
    BY <1>3, MovesAlone
  <2>2. \A d \in Running' : d = c /\ call'[c].at \in Stages
    BY <1>3, <2>1 DEF Running, Rest
  <2>3. NumbersDrawn(c)
    BY <1>3 DEF DrawnInv
  <2>4. ASSUME call'[c].at \in Stages
        PROVE  NumbersDrawn(c)'
    <3>1. ~Exit(c) /\ ~Rollback(c) /\ ~(Save(c) /\ call[c].op \in Short)
      BY <1>3, <2>4, ExitEnds, SaveFacts, RolledBack, StageFacts DEF Ended
    <3>2. QED
      BY <1>3, <2>3, <2>4, <3>1, ReserveDrawn, SaveDrawn, AppendDrawn,
         OtherDrawn DEF Moves
  <2>5. QED
    BY <2>2, <2>4 DEF DrawnInv
<1>4. QED
  BY <1>1, <1>2, <1>3, StepKinds

LEMMA DrawnInit == Init => DrawnInv
<1> SUFFICES ASSUME Init
             PROVE  DrawnInv
  OBVIOUS
<1>1. Running = {}
  BY DEF Init, Running, Fresh, Stages
<1>2. QED
  BY <1>1 DEF DrawnInv

(* A running call has given new numbers to its records, none of them twice *)
(* and none by a key that was revoked when it began, whatever happens to   *)
(* it afterwards (reserveNextSeq, requireAuthorizedAk, atomic).            *)
THEOREM DrawnCorrect ==
  ASSUME MaxRunning = 1
  PROVE  Spec => []DrawnInv
<1>1. SdkInv /\ AwaitedInv /\ DrawnInv /\ [Next]_vars => DrawnInv'
  BY DrawnStep
<1>2. QED
  BY SdkInvariant, AwaitedInvariant, DrawnInit, <1>1, PTL DEF Spec

(* Calls that have not ended look the same from outside. *)
LEMMA AnswerFacts ==
  ASSUME NEW c \in Call
  PROVE  /\ call[c].at \notin Ended => AnswerNow[c] = Atomic!Open
         /\ call'[c].at \in Ended =>
              /\ AnswerNow'[c].at = call'[c].at
              /\ AnswerNow'[c].op = call'[c].op
              /\ AnswerNow'[c].arg = call'[c].arg
         /\ call'[c] = call[c] => AnswerNow'[c] = AnswerNow[c]
         /\ call[c].at \notin Ended /\ call'[c].at \notin Ended =>
              AnswerNow'[c] = AnswerNow[c]
BY DEF AnswerNow, Atomic!Open

LEMMA AnswerSame ==
  ASSUME \A c \in Call : AnswerNow'[c] = AnswerNow[c]
  PROVE  AnswerNow' = AnswerNow
BY DEF AnswerNow

(* A call that is answered is the only one.                                *)
LEMMA AnswersOne ==
  ASSUME NEW c \in Call, Rest(c), call[c].at \notin Ended,
         call'[c].at \in Ended
  PROVE  Atomic!Answered(c, call'[c].at)
<1>1. AnswerNow[c] = Atomic!Open /\ AnswerNow'[c].at = call'[c].at
  BY AnswerFacts
<1>2. \A d \in Call \ {c} : AnswerNow'[d] = AnswerNow[d]
  BY AnswerFacts DEF Rest
<1>3. QED
  BY <1>1, <1>2 DEF Atomic!Answered

(* While a call runs, nothing of it is seen.                               *)
LEMMA UnseenStep ==
  ASSUME NEW c \in Call, Rest(c), call[c].at \notin Ended,
         call'[c].at \notin Ended, ContentNow' = ContentNow
  PROVE  UNCHANGED Atomic!vars
<1>1. \A d \in Call : AnswerNow'[d] = AnswerNow[d]
  BY AnswerFacts DEF Rest
<1>2. QED
  BY <1>1, AnswerSame DEF Atomic!vars

LEMMA BeginImplements ==
  ASSUME NEW c \in Call, Begins(c)
  PROVE  Atomic!Fail(c) \/ UNCHANGED Atomic!vars
<1>1. /\ Running = {} /\ Rest(c) /\ call[c].at \notin Ended
      /\ store' = store /\ before' = store
  BY StageFacts DEF Begins
<1>2. ContentNow' = ContentNow
  BY <1>1 DEF ContentNow
<1>3. CASE call'[c].at = "failed"
  BY <1>1, <1>2, <1>3, AnswersOne DEF Atomic!Fail, Ended
<1>4. CASE call'[c].at # "failed"
  <2>1. call'[c].at \notin Ended
    BY <1>4 DEF Begins, Ended
  <2>2. QED
    BY <1>1, <1>2, <2>1, UnseenStep
<1>5. QED
  BY <1>3, <1>4

(* What a call that succeeds has done between its beginning and its end.   *)
LEMMA SuccessFacts ==
  ASSUME SdkInv, AwaitedInv, AwaitedInv', DrawnInv, NEW c \in Call,
         Running = {c}, Moves(c), call'[c].at = "done"
  PROVE  /\ before.log \subseteq store'.log
         /\ Cardinality(store'.log \ before.log) = Writes(call[c].op)
         /\ \A e \in store'.log \ before.log :
              /\ e.by = c /\ before.seqs[e.ak] < e.seq
              /\ before.bundle # None => e.ak \notin before.bundle.revoked
         /\ \A e, f \in store'.log \ before.log :
              e.ak = f.ak /\ e.seq = f.seq => e = f
         /\ Improves(store'.bundle, before.bundle)
         /\ call[c].op = "addDeviceKey" => call[c].arg \in store'.bundle.devices
         /\ call[c].op = "revokeDeviceKey" =>
              call[c].arg \in store'.bundle.revoked
         /\ store'.objects = before.objects
<1>1. /\ Rest(c) /\ before' = before /\ call'[c].op = call[c].op
      /\ call'[c].arg = call[c].arg /\ Work(c) /\ NumbersDrawn(c)
  BY MovesAlone, AloneRuns DEF DrawnInv
<1>2. store'.log = store.log /\ store'.objects = store.objects
  <2>1. Exit(c) \/ Save(c)
    BY MovesOn, StageFacts DEF Ended, Moves
  <2>2. QED
    BY <2>1, SaveFacts DEF Exit
<1>3. Running' = {}
  BY <1>1, StageFacts DEF Running, Rest, Ended
<1>4. Settled(store)' /\ Improves(store'.bundle, before.bundle)
  BY <1>1, <1>3 DEF AwaitedInv
<1>5. Own(store', c) = store'.log \ before.log
  BY <1>1, <1>2 DEF Work, Own
<1>6. /\ Cardinality(Own(store', c)) = Writes(call[c].op)
      /\ call[c].op = "addDeviceKey" => call[c].arg \in store'.bundle.devices
      /\ call[c].op = "revokeDeviceKey" =>
           call[c].arg \in store'.bundle.revoked
  BY <1>1, <1>4 DEF Settled, Own
<1>7. /\ before.log \subseteq store'.log
      /\ \A e \in store'.log \ before.log : e.by = c
  BY <1>1, <1>2 DEF Work
<1>8. QED
  BY <1>1, <1>2, <1>4, <1>5, <1>6, <1>7 DEF NumbersDrawn, Added

LEMMA EndImplements ==
  ASSUME SdkInv, AwaitedInv, AwaitedInv', DrawnInv, MaxRunning = 1,
         [Next]_vars, NEW c \in Call, Running = {c}, Moves(c),
         call'[c].at \in Ended
  PROVE  Atomic!Fail(c) \/ Atomic!Succeed(c)
<1>1. /\ Rest(c) /\ before' = before /\ call'[c].op = call[c].op
      /\ call'[c].arg = call[c].arg /\ call[c].at \in Stages
  BY MovesAlone
<1>2. Atomic!Answered(c, call'[c].at)
  BY <1>1, StageFacts, AnswersOne
<1>3. ContentNow = before /\ ContentNow' = store'
  <2>1. Running # {} /\ Running' = {}
    BY <1>1, StageFacts DEF Running, Rest
  <2>2. QED
    BY <2>1 DEF ContentNow
<1>4. CASE call'[c].at = "failed"
  BY <1>1, <1>2, <1>3, <1>4, FailedStep DEF Atomic!Fail
<1>5. CASE call'[c].at = "done"
  <2>1. AnswerNow'[c].op = call[c].op /\ AnswerNow'[c].arg = call[c].arg
    BY <1>1, AnswerFacts
  <2>2. Atomic!Adds(c, AnswerNow'[c].op)
    <3>1. PICK own : own = store'.log \ before.log
      OBVIOUS
    <3>2. /\ before.log \subseteq store'.log
          /\ Cardinality(own) = Writes(call[c].op)
          /\ \A e \in own :
               /\ e.by = c /\ before.seqs[e.ak] < e.seq
               /\ before.bundle # None => e.ak \notin before.bundle.revoked
          /\ \A e, f \in own : e.ak = f.ak /\ e.seq = f.seq => e = f
      BY <1>5, <3>1, SuccessFacts
    <3>3. ContentNow'.log \ ContentNow.log = own
      BY <1>3, <3>1
    <3>4. Atomic!Cardinality(own) = Cardinality(own)
      BY DEF Cardinality, Atomic!Cardinality
    <3>5. QED
      BY <1>3, <2>1, <3>2, <3>3, <3>4 DEF Atomic!Adds
  <2>3. Atomic!Keeps(ContentNow.bundle, ContentNow'.bundle)
    BY <1>3, <1>5, SuccessFacts DEF Atomic!Keeps, Improves
  <2>4. Atomic!Reported(AnswerNow'[c].op, AnswerNow'[c].arg)
    BY <1>3, <1>5, <2>1, SuccessFacts DEF Atomic!Reported
  <2>5. Atomic!Reserves(AnswerNow'[c].op)
    <3>1. DOMAIN before.seqs = Key
      BY StoreTypes DEF SdkInv, TypeOK, Counters
    <3>2. QED
      BY <1>1, <1>3, <2>1, <3>1, CountersStep DEF Atomic!Reserves
  <2>6. QED
    BY <1>2, <1>3, <1>5, <2>2, <2>3, <2>4, <2>5, SuccessFacts
    DEF Atomic!Succeed
<1>6. QED
  BY <1>4, <1>5 DEF Ended

LEMMA AtomicStep ==
  ASSUME SdkInv, AwaitedInv, AwaitedInv', DrawnInv, MaxRunning = 1,
         [Next]_vars
  PROVE  [Atomic!Next]_(Atomic!vars)
<1>1. CASE UNCHANGED <<store, call, before>>
  <2>1. ContentNow' = ContentNow /\ AnswerNow' = AnswerNow
    BY <1>1 DEF ContentNow, Running, AnswerNow
  <2>2. QED
    BY <2>1 DEF Atomic!vars
<1>2. ASSUME NEW c \in Call, Begins(c)
      PROVE  Atomic!Next \/ UNCHANGED Atomic!vars
  BY <1>2, BeginImplements DEF Atomic!Next
<1>3. ASSUME NEW c \in Call, Running = {c}, Moves(c)
      PROVE  Atomic!Next \/ UNCHANGED Atomic!vars
  <2>1. /\ Rest(c) /\ call[c].at \in Stages /\ before' = before
        /\ call[c].at \notin Ended
    BY <1>3, MovesAlone, StageFacts
  <2>2. CASE call'[c].at \in Ended
    BY <1>3, <2>2, EndImplements DEF Atomic!Next
  <2>3. CASE call'[c].at \notin Ended
    <3>1. call'[c].at \in Stages
      BY <1>3, <2>3, MovesOn DEF Moves, Ended
    <3>2. ContentNow' = ContentNow
      BY <1>3, <2>1, <3>1 DEF ContentNow, Running, Rest
    <3>3. QED
      BY <2>1, <2>3, <3>2, UnseenStep
  <2>4. QED
    BY <2>2, <2>3
<1>4. QED
  BY <1>1, <1>2, <1>3, StepKinds

LEMMA AtomicInit == Init => Atomic!Init
<1> SUFFICES ASSUME Init
             PROVE  Atomic!Init
  OBVIOUS
<1>1. Running = {} /\ \A c \in Call : call[c].at \notin Ended
  BY DEF Init, Running, Fresh, Stages, Ended
<1>2. ContentNow = EmptyStore /\ AnswerNow = [c \in Call |-> Atomic!Open]
  BY <1>1 DEF Init, ContentNow, AnswerNow, Atomic!Open
<1>3. QED
  BY <1>2 DEF Atomic!Init

(* To an application that awaits every call, the store is an atomic one:   *)
(* a call that fails leaves all of it as it was, one that succeeds adds    *)
(* its own records under new numbers, keeps root, devices and revocations, *)
(* and has done what it reports (atomic, restoreSnapshot, reserveNextSeq). *)
THEOREM StoreIsAtomic ==
  ASSUME MaxRunning = 1
  PROVE  Spec => ImplementsAtomicStore
<1>1. SdkInv /\ AwaitedInv /\ AwaitedInv' /\ DrawnInv /\ [Next]_vars =>
        [Atomic!Next]_(Atomic!vars)
  BY AtomicStep
<1>2. QED
  BY SdkInvariant, AwaitedInvariant, DrawnCorrect, AtomicInit, <1>1, PTL
  DEF Spec, ImplementsAtomicStore, Atomic!Spec

-----------------------------------------------------------------------------
(* Calls that overlap, in an application that creates one identity and     *)
(* then only adds records.  As long as every call is accepted, the counter *)
(* of a key covers every number that was drawn from it, a number is in one *)
(* record or reserved by one call, and a call has written what it has not  *)
(* still to write.  Only the first creation saves a bundle, and with it    *)
(* the counters, while there is no record.                                 *)
Recorders == {"append", "correct", "manifest"}
Adding == {"createRoot"} \cup Recorders
OneIdentity == Ops \subseteq Adding /\ \A r, s \in Root : r = s

Accepted == \A c \in Call : call[c].at \notin {"rollback", "failed"}

Creates(c) == call[c].at # "ready" /\ call[c].op = "createRoot"
Creating ==
  /\ \A c \in Call : call[c].at # "ready" => call[c].op \in Adding
  /\ \A c, d \in Call : Creates(c) /\ Creates(d) => c = d
  /\ \A c \in Call : Creates(c) => Root \subseteq drawn
  /\ \A c \in Call :
       Creates(c) /\ call[c].at = "save" => store.bundle = None
  /\ store.bundle = None =>
       /\ store.log = {}
       /\ \A c \in Call : call[c].at \in Stages => Creates(c)

Reserved(c) == call[c].at = "append"

Numbered ==
  /\ \A e \in store.log : e.seq <= store.seqs[e.ak]
  /\ \A c \in Call : Reserved(c) => call[c].n <= store.seqs[Author(c)]
  /\ \A c \in Call, e \in store.log :
       Reserved(c) /\ e.ak = Author(c) => e.seq # call[c].n
  /\ \A c, d \in Call :
       Reserved(c) /\ Reserved(d) /\ Author(c) = Author(d)
         /\ call[c].n = call[d].n => c = d
  /\ SequencesUnique

Recorded ==
  \A c \in Call :
    /\ call[c].at = "ready" => Own(store, c) = {}
    /\ call[c].at = "done" => Cardinality(Own(store, c)) = Writes(call[c].op)
    /\ call[c].at \in Stages => Written(c)

Orderly == Creating /\ Numbered /\ Recorded
OverlapInv == Accepted => Orderly

(* The operations of a running call, by its stage. *)
LEMMA AddingStages ==
  ASSUME SdkInv, Creating, NEW c \in Call, call[c].at \in Stages
  PROVE  /\ ~Lifecycle(c) /\ call[c].op \in Adding
         /\ call[c].at \in {"reserve", "append", "load", "exit"} =>
              call[c].op \in Recorders /\ store.bundle # None
         /\ call[c].at = "save" => Creates(c)
         /\ call[c].at \notin {"merge", "install"}
<1>1. call[c].op \in Adding /\ Coherent(call[c])
  BY StageFacts, CallTypes DEF Creating
<1>2. ~Lifecycle(c)
  BY <1>1 DEF Adding, Recorders, Lifecycle
<1>3. call[c].at \in {"reserve", "append", "load", "exit"} =>
        call[c].op \in Recorders
  BY <1>1 DEF Coherent, Adding, Recorders, Short, Writers, Granters
<1>4. call[c].op \in Recorders => store.bundle # None
  BY DEF Creating, Creates, Recorders
<1>5. call[c].at = "save" => Creates(c)
  BY <1>1 DEF Coherent, Creates, Adding, Recorders, Short, Granters
<1>6. call[c].at \notin {"merge", "install"}
  BY <1>1 DEF Coherent, Adding, Recorders
<1>7. QED
  BY <1>1, <1>2, <1>3, <1>4, <1>5, <1>6

LEMMA SeqTypes ==
  ASSUME SdkInv
  PROVE  /\ \A k \in Key : store.seqs[k] \in Nat
         /\ \A e \in store.log : e.ak \in Key /\ e.seq \in Nat
         /\ \A c \in Call : call[c].n \in Nat
<1>1. store.seqs \in Counters /\ store.log \in SUBSET Record
  BY StoreTypes DEF SdkInv, TypeOK
<1>2. \A c \in Call : call[c].n \in 0..MaxSeq
  BY CallTypes
<1>3. QED
  BY <1>1, <1>2, SdkConstants DEF Counters, Record

(* A step of one call. *)
LEMMA OthersStay ==
  ASSUME NEW c \in Call, Rest(c), NEW d \in Call, d # c
  PROVE  /\ call'[d] = call[d] /\ Author(d)' = Author(d)
         /\ Reserved(d)' = Reserved(d) /\ Creates(d)' = Creates(d)
BY DEF Rest, Author, Lifecycle, Named, Resolved, Reserved, Creates

LEMMA WasAccepted ==
  ASSUME NEW c \in Call, Rest(c), call[c].at \notin {"rollback", "failed"},
         Accepted'
  PROVE  Accepted
BY DEF Accepted, Rest

LEMMA NumberedKept ==
  ASSUME Numbered, NEW c \in Call, Rest(c), call'[c].at # "append",
         store'.log = store.log, store'.seqs = store.seqs
  PROVE  Numbered'
<1>1. ~Reserved(c)'
  BY DEF Reserved
<1>2. \A d \in Call : Reserved(d)' =>
        /\ d # c /\ call'[d] = call[d]
        /\ Reserved(d) /\ Author(d)' = Author(d)
  BY <1>1, OthersStay
<1>3. SequencesUnique'
  BY DEF Numbered, SequencesUnique
<1>4. QED
  BY <1>2, <1>3 DEF Numbered

LEMMA CreatingKept ==
  ASSUME Creating, NEW c \in Call, Rest(c), call'[c].op \in Recorders,
         store.bundle # None, store'.bundle = store.bundle, drawn' = drawn
  PROVE  Creating'
<1>1. ~Creates(c)' /\ call'[c].op \in Adding
  BY DEF Creates, Recorders, Adding
<1>2. \A d \in Call : d # c => call'[d] = call[d] /\ Creates(d)' = Creates(d)
  BY OthersStay
<1>3. QED
  BY <1>1, <1>2 DEF Creating

LEMMA RecordedKept ==
  ASSUME Recorded, NEW c \in Call, Rest(c), call'[c].at # "ready",
         \A d \in Call \ {c} : Own(store', d) = Own(store, d),
         call'[c].at = "done" =>
           Cardinality(Own(store', c)) = Writes(call'[c].op),
         call'[c].at \in Stages => Written(c)'
  PROVE  Recorded'
<1>1. ASSUME NEW d \in Call, d # c
      PROVE  /\ call'[d] = call[d] /\ Own(store, d)' = Own(store, d)
             /\ Written(d)' = Written(d)
  <2>1. call'[d] = call[d] /\ Own(store, d)' = Own(store, d)
    BY <1>1, OthersStay DEF Own
  <2>2. QED
    BY <2>1 DEF Written
<1>2. Own(store, c)' = Own(store', c)
  BY DEF Own
<1>3. QED
  BY <1>1, <1>2 DEF Recorded

-----------------------------------------------------------------------------
(* The steps of an accepted call.                                          *)

LEMMA RecorderBegins ==
  ASSUME SdkInv, Orderly, NEW c \in Call, NEW op \in Recorders,
         NEW k \in Key \cup {None}, NEW w \in Key \cup {None},
         NEW copy \in Bundle \cup {None},
         NEW stage \in {"reserve", "rollback"}, NEW writes \in 0..2,
         Enter(c, op, k, copy, stage, writes),
         stage = Granting(store.bundle, w), writes = Writes(op),
         drawn' = drawn, Accepted'
  PROVE  Orderly'
<1>1. call[c].at = "ready" /\ store' = store
  BY DEF Enter, Begin
<1>2. /\ op \in Operations /\ stage \in Stages \cup {"failed"}
      /\ Writes(op) \in 1..2 /\ (depth = 0) \in BOOLEAN
  BY DEF Recorders, Operations, Stages, Writes
<1>3. /\ Rest(c) /\ call'[c].at = stage
      /\ call'[c].op = op /\ call'[c].left = Writes(op)
  <2>1. PICK o \in BOOLEAN : o = (depth = 0)
    BY <1>2
  <2>2. Begin(c, op, k, copy, stage, writes, o)
    BY <2>1 DEF Enter
  <2>3. QED
    BY <1>2, <2>2, BeginFacts DEF SdkInv
<1>4. call'[c].at = "reserve" /\ store.bundle # None
  BY <1>3 DEF Accepted, Granting, CanWrite
<1>5. Own(store, c) = {}
  BY <1>1 DEF Orderly, Recorded
<1>6. Written(c)'
  <2>1. Own(store, c)' = {} /\ call'[c].left # 0
    BY <1>1, <1>2, <1>3, <1>5 DEF Own
  <2>2. op = "correct" => Writes(op) = 2
    BY DEF Writes
  <2>3. QED
    BY <1>3, <1>4, <2>1, <2>2 DEF Written
<1>7. Recorded'
  BY <1>1, <1>3, <1>4, <1>6, StageFacts, RecordedKept DEF Orderly
<1>8. QED
  BY <1>1, <1>3, <1>4, <1>7, CreatingKept, NumberedKept DEF Orderly

LEMMA CreationBegins ==
  ASSUME SdkInv, Orderly, OneIdentity, NEW c \in Call, CreateRoot(c), Accepted'
  PROVE  Orderly'
<1>1. PICK r \in Root \ drawn :
        /\ drawn' = drawn \cup {r}
        /\ IF store.bundle = None
           THEN Begin(c, "createRoot", None, NewBundle(r), "save", 0, FALSE)
           ELSE Begin(c, "createRoot", None, None, "failed", 0, FALSE)
  BY DEF CreateRoot
<1>2. Root \subseteq drawn' /\ ~(Root \subseteq drawn)
  BY <1>1 DEF OneIdentity
<1>3. \A d \in Call : ~Creates(d)
  BY <1>2 DEF Orderly, Creating
<1>4. /\ call[c].at = "ready" /\ store' = store /\ "createRoot" \in Operations
      /\ 0 \in 0..2 /\ NewBundle(r) \in Bundle \cup {None}
  BY <1>1, NewBundleFacts DEF Begin, Operations
<1>5. CASE store.bundle # None
  <2>1. call'[c].at = "failed"
    BY <1>1, <1>4, <1>5, BeginFacts DEF SdkInv
  <2>2. QED
    BY <2>1 DEF Accepted
<1>6. CASE store.bundle = None
  <2>1. Rest(c) /\ call'[c].at = "save" /\ call'[c].op = "createRoot"
    <3>1. Begin(c, "createRoot", None, NewBundle(r), "save", 0, FALSE)
      BY <1>1, <1>6
    <3>2. "save" \in Stages \cup {"failed"} /\ None \in Key \cup {None} /\ TypeOK
      BY DEF Stages, SdkInv
    <3>3. QED
      BY <1>4, <3>1, <3>2, BeginFacts
  <2>2. Own(store, c) = {} /\ Own(store, c)' = {}
    BY <1>4 DEF Orderly, Recorded, Own
  <2>3. Written(c)'
    BY <2>1, <2>2 DEF Written, Writers, Granters
  <2>4. Recorded'
    BY <1>4, <2>1, <2>3, StageFacts, RecordedKept DEF Orderly
  <2>5. Creating'
    <3>1. \A d \in Call : d # c => call'[d] = call[d] /\ Creates(d)' = Creates(d)
      BY <2>1, OthersStay
    <3>2. Creates(c)' /\ call'[c].op \in Adding
      BY <2>1 DEF Creates, Adding
    <3>3. \A d \in Call : call[d].at \in Stages => FALSE
      BY <1>3, <1>6 DEF Orderly, Creating
    <3>4. store'.bundle = None /\ store'.log = {}
      BY <1>4, <1>6 DEF Orderly, Creating
    <3>5. QED
      BY <1>2, <1>3, <3>1, <3>2, <3>3, <3>4 DEF Orderly, Creating
  <2>6. QED
    BY <1>4, <2>1, <2>4, <2>5, NumberedKept DEF Orderly
<1>7. QED
  BY <1>5, <1>6

(* The first bundle is saved while no record is there. *)
LEMMA CreationSaved ==
  ASSUME SdkInv, Orderly, NEW c \in Call, Save(c)
  PROVE  Orderly'
<1>1. /\ call[c].at = "save" /\ call[c].at \in Stages /\ drawn' = drawn
  BY DEF Save, Stages, Others
<1>2. Creates(c) /\ store.bundle = None /\ store.log = {}
  BY <1>1, AddingStages DEF Orderly, Creating
<1>3. /\ Rest(c) /\ call'[c].at = "done" /\ call'[c].op = "createRoot"
      /\ store'.bundle \in Bundle /\ store'.bundle # None /\ store'.log = {}
  BY <1>2, SaveFacts, NoneIsNothing DEF Creates, Short
<1>4. \A d \in Call : call[d].at \in Stages => d = c
  BY <1>2 DEF Orderly, Creating
<1>5. \A d \in Call : d # c => /\ call'[d] = call[d] /\ Creates(d)' = Creates(d)
                               /\ Own(store', d) = Own(store, d)
  BY <1>2, <1>3, OthersStay DEF Own
<1>6. Creates(c)' /\ call'[c].op \in Adding
  BY <1>3 DEF Creates, Adding
<1>7. Creating'
  BY <1>1, <1>2, <1>3, <1>5, <1>6 DEF Orderly, Creating
<1>8. Numbered'
  <2>1. \A d \in Call : ~Reserved(d)'
    BY <1>3, <1>4, <1>5 DEF Reserved, Stages
  <2>2. SequencesUnique'
    BY <1>3 DEF SequencesUnique
  <2>3. QED
    BY <1>3, <2>1, <2>2 DEF Numbered
<1>9. Cardinality(Own(store', c)) = Writes("createRoot")
  BY <1>3, FS_EmptySet DEF Own, Writes
<1>10. Recorded'
  BY <1>3, <1>5, <1>9, StageFacts, RecordedKept DEF Orderly, Ended
<1>11. QED
  BY <1>7, <1>8, <1>10 DEF Orderly

(* reserveNextSeq: the number is above every number drawn from the key. *)
LEMMA NumberReserved ==
  ASSUME SdkInv, Orderly, NEW c \in Call, Reserve(c)
  PROVE  Orderly'
<1>1. call[c].at = "reserve" /\ call[c].at \in Stages /\ drawn' = drawn
  BY DEF Reserve, Stages, Others
<1>2. ~Lifecycle(c) /\ call[c].op \in Recorders /\ store.bundle # None
  BY <1>1, AddingStages DEF Orderly
<1>3. PICK a, n : a = Author(c) /\ n = NextSeq(c)
  OBVIOUS
<1>4. /\ Rest(c) /\ Same(c) /\ call'[c].at = "append" /\ call'[c].n = n
      /\ call'[c].left = call[c].left /\ call'[c].seen = call[c].seen
      /\ store'.bundle = store.bundle /\ store'.log = store.log
      /\ store'.seqs = [store.seqs EXCEPT ![a] = n]
      /\ n = store.seqs[a] + 1 /\ a \in Key
  BY <1>1, <1>2, <1>3, ReserveFacts, AuthorFacts
<1>5. Author(c)' = a
  BY <1>3, <1>4 DEF Author, Lifecycle, Named, Same
<1>6. /\ \A k \in Key : store.seqs[k] \in Nat /\ store'.seqs[k] \in Nat
      /\ \A k \in Key : store.seqs[k] <= store'.seqs[k]
      /\ store'.seqs[a] = n /\ n \in Nat
      /\ \A m \in Nat : m <= store.seqs[a] => m # n
  <2>1. store.seqs \in Counters
    BY StoreTypes DEF SdkInv, TypeOK
  <2>2. \A k \in Key : store'.seqs[k] = IF k = a THEN n ELSE store.seqs[k]
    BY <1>4, <2>1 DEF Counters
  <2>3. \A k \in Key : store.seqs[k] \in Nat
    BY SeqTypes
  <2>4. QED
    BY <1>4, <2>2, <2>3
<1>7. /\ \A d \in Call : d # c =>
           /\ call'[d] = call[d] /\ Reserved(d)' = Reserved(d)
           /\ Author(d)' = Author(d)
      /\ \A d \in Call : Reserved(d) => Author(d) \in Key
  BY <1>4, OthersStay, AuthorFacts DEF Reserved
<1>8. /\ \A e \in store.log : e.ak = a => e.seq # n
      /\ \A d \in Call : Reserved(d) /\ Author(d) = a => call[d].n # n
  BY <1>6, SeqTypes DEF Orderly, Numbered
<1>9. Numbered'
  <2>1. \A e \in store'.log : e.seq <= store'.seqs[e.ak]
    <3>1. ASSUME NEW e \in store.log
          PROVE  e.seq <= store'.seqs[e.ak]
      <4>1. e.seq \in Nat /\ e.ak \in Key /\ e.seq <= store.seqs[e.ak]
        BY SeqTypes DEF Orderly, Numbered
      <4>2. QED
        BY <1>6, <4>1
    <3>2. QED
      BY <1>4, <3>1
  <2>2. ASSUME NEW d \in Call, Reserved(d)'
        PROVE  call'[d].n <= store'.seqs[Author(d)']
    <3>1. CASE d = c
      BY <1>4, <1>5, <1>6, <3>1
    <3>2. CASE d # c
      <4>1. /\ call[d].n \in Nat /\ Author(d) \in Key
            /\ call[d].n <= store.seqs[Author(d)]
        BY <1>7, <2>2, <3>2, SeqTypes DEF Orderly, Numbered
      <4>2. QED
        BY <1>6, <1>7, <3>2, <4>1
    <3>3. QED
      BY <3>1, <3>2
  <2>3. ASSUME NEW d \in Call, NEW e \in store'.log, Reserved(d)',
               e.ak = Author(d)'
        PROVE  e.seq # call'[d].n
    BY <1>4, <1>5, <1>7, <1>8, <2>3 DEF Orderly, Numbered
  <2>4. ASSUME NEW d \in Call, NEW f \in Call, Reserved(d)', Reserved(f)',
               Author(d)' = Author(f)', call'[d].n = call'[f].n
        PROVE  d = f
    BY <1>4, <1>5, <1>7, <1>8, <2>4 DEF Orderly, Numbered
  <2>5. SequencesUnique'
    BY <1>4 DEF Orderly, Numbered, SequencesUnique
  <2>6. QED
    BY <2>1, <2>2, <2>3, <2>4, <2>5 DEF Numbered
<1>10. Written(c)'
  <2>1. Written(c)
    BY <1>1 DEF Orderly, Recorded
  <2>2. QED
    BY <1>4, <2>1 DEF Written, Own, Same
<1>11. Recorded'
  BY <1>4, <1>10, StageFacts, RecordedKept DEF Orderly, Own, Ended
<1>12. QED
  BY <1>1, <1>2, <1>4, <1>9, <1>11, CreatingKept DEF Orderly, Same

(* The number a call has reserved becomes a record's. *)
LEMMA RecordAppended ==
  ASSUME SdkInv, Orderly, NEW c \in Call, Append(c)
  PROVE  Orderly'
<1>1. call[c].at = "append" /\ call[c].at \in Stages /\ drawn' = drawn
  BY DEF Append, Stages, Others
<1>2. /\ call[c].op \in Recorders /\ store.bundle # None
      /\ call[c].left = 2 => call[c].op = "correct"
  BY <1>1, AddingStages, CallTypes DEF Orderly, Coherent
<1>3. PICK r : r = RecordOf(c)
  OBVIOUS
<1>4. /\ Rest(c) /\ Same(c) /\ call'[c].at = AfterRecord(c)
      /\ call'[c].left = call[c].left - 1 /\ call[c].left \in 1..2
      /\ store'.log = store.log \cup {r} /\ r.by = c /\ r.kind = KindOf(c)
      /\ r.ak = Author(c) /\ r.seq = call[c].n
      /\ store'.bundle = store.bundle /\ store'.seqs = store.seqs
  BY <1>1, <1>3, AppendFacts, RecordFacts
<1>5. AfterRecord(c) = IF call[c].left > 1 THEN "load" ELSE "exit"
  BY DEF AfterRecord
<1>6. ~Reserved(c)' /\ Reserved(c)
  BY <1>1, <1>4, <1>5 DEF Reserved
<1>7. \A d \in Call : Reserved(d)' =>
        /\ d # c /\ call'[d] = call[d]
        /\ Reserved(d) /\ Author(d)' = Author(d)
  BY <1>4, <1>6, OthersStay
<1>8. Numbered'
  <2>1. \A e \in store'.log : e.seq <= store'.seqs[e.ak]
    BY <1>4, <1>6 DEF Orderly, Numbered
  <2>2. \A d \in Call : Reserved(d)' => call'[d].n <= store'.seqs[Author(d)']
    BY <1>4, <1>7 DEF Orderly, Numbered
  <2>3. ASSUME NEW d \in Call, NEW e \in store'.log, Reserved(d)',
               e.ak = Author(d)'
        PROVE  e.seq # call'[d].n
    <3>1. CASE e = r
      BY <1>4, <1>6, <1>7, <2>3, <3>1 DEF Orderly, Numbered
    <3>2. CASE e \in store.log
      BY <1>7, <2>3, <3>2 DEF Orderly, Numbered
    <3>3. QED
      BY <1>4, <3>1, <3>2
  <2>4. \A d, f \in Call :
          Reserved(d)' /\ Reserved(f)' /\ Author(d)' = Author(f)'
            /\ call'[d].n = call'[f].n => d = f
    BY <1>7 DEF Orderly, Numbered
  <2>5. SequencesUnique'
    <3>1. \A e \in store.log : e.ak = r.ak => e.seq # r.seq
      BY <1>4, <1>6 DEF Orderly, Numbered
    <3>2. SequencesUnique
      BY DEF Orderly, Numbered
    <3>3. QED
      BY <1>4, <3>1, <3>2 DEF SequencesUnique
  <2>6. QED
    BY <2>1, <2>2, <2>3, <2>4, <2>5 DEF Numbered
<1>9. /\ Own(store', c) = Own(store, c) \cup {r}
      /\ \A d \in Call \ {c} : Own(store', d) = Own(store, d)
  BY <1>4 DEF Own
<1>10. Written(c)'
  <2>1. Written(c)
    BY <1>1 DEF Orderly, Recorded
  <2>2. QED
    BY <1>2, <1>4, <1>5, <1>9, <2>1, AppendWritten DEF Recorders, Writers, Granters
<1>11. call'[c].at \in Stages
  BY <1>4, <1>5 DEF Stages
<1>12. Recorded'
  BY <1>4, <1>9, <1>10, <1>11, StageFacts, RecordedKept DEF Orderly
<1>13. QED
  BY <1>1, <1>2, <1>4, <1>8, <1>12, CreatingKept DEF Orderly, Same

(* A correction loads the bundle for its second record, or a call leaves   *)
(* its section.                                                            *)
LEMMA RecorderMoves ==
  ASSUME SdkInv, Orderly, NEW c \in Call, Load(c) \/ Exit(c), Accepted'
  PROVE  Orderly'
<1>1. /\ call[c].at \in {"load", "exit"} /\ call[c].at \in Stages
      /\ store' = store /\ drawn' = drawn
  BY DEF Load, Exit, Stages, Others
<1>2. call[c].op \in Recorders /\ store.bundle # None /\ Written(c)
  BY <1>1, AddingStages DEF Orderly, Recorded
<1>3. CASE Load(c)
  <2>1. /\ Rest(c) /\ Same(c) /\ call'[c].left = call[c].left
        /\ call'[c].at \in {"reserve", "rollback"}
    BY <1>3, LoadFacts
  <2>2. call'[c].at = "reserve"
    BY <2>1 DEF Accepted
  <2>3. Written(c)'
    BY <1>1, <1>2, <2>1, <2>2 DEF Written, Own, Same
  <2>4. Recorded'
    BY <1>1, <2>1, <2>2, <2>3, StageFacts, RecordedKept DEF Orderly
  <2>5. QED
    BY <1>1, <1>2, <2>1, <2>2, <2>4, CreatingKept, NumberedKept
    DEF Orderly, Same
<1>4. CASE Exit(c)
  <2>1. /\ Rest(c) /\ call'[c].op = call[c].op /\ call'[c].at = "done"
        /\ call[c].at = "exit"
    BY <1>4, LeaveFacts DEF SdkInv, Exit, Ended
  <2>2. Cardinality(Own(store, c)) = Writes(call[c].op)
    BY <1>2, <2>1, ExitWritten DEF Recorders, Writers
  <2>3. Recorded'
    BY <1>1, <2>1, <2>2, StageFacts, RecordedKept DEF Orderly, Ended
  <2>4. QED
    BY <1>1, <1>2, <2>1, <2>3, CreatingKept, NumberedKept DEF Orderly
<1>5. QED
  BY <1>3, <1>4

LEMMA WriteRecordOrderly ==
  ASSUME SdkInv, Orderly, NEW c \in Call, WriteRecord(c), Accepted'
  PROVE  Orderly'
<1>1. PICK k \in Key \cup {None} :
        \/ Enter(c, "append", k, store.bundle, Granting(store.bundle, k), 1)
        \/ Enter(c, "correct", k, store.bundle, Granting(store.bundle, None), 2)
        \/ Enter(c, "manifest", k, store.bundle, Granting(store.bundle, k), 1)
  BY DEF WriteRecord
<1>2. PICK op \in Recorders, w \in Key \cup {None},
           stage \in {"reserve", "rollback"}, n \in 0..2 :
        /\ Enter(c, op, k, store.bundle, stage, n)
        /\ stage = Granting(store.bundle, w) /\ n = Writes(op)
  BY <1>1 DEF Granting, Recorders, Writes
<1>3. store.bundle \in Bundle \cup {None} /\ drawn' = drawn
  BY StoreTypes DEF SdkInv, TypeOK, WriteRecord
<1>4. QED
  BY <1>2, <1>3, RecorderBegins

(* A call that throws or rolls back is not accepted. *)
LEMMA ThrowsAway ==
  ASSUME SdkInv, NEW c \in Call, Throw(c) \/ Rollback(c)
  PROVE  ~Accepted'
<1>1. CASE call' = Leave(c, "failed")
  BY <1>1, LeaveFacts DEF SdkInv, Ended, Accepted
<1>2. CASE call' = [call EXCEPT ![c].at = "rollback"]
  <2>1. call'[c].at = "rollback"
    BY <1>2, CallTypes DEF SdkInv, TypeOK, CallState
  <2>2. QED
    BY <2>1 DEF Accepted
<1>3. QED
  BY <1>1, <1>2 DEF Throw, Rollback

(* Objects are not part of it. *)
LEMMA OverlapSame ==
  ASSUME OverlapInv, UNCHANGED <<call, drawn>>, store'.bundle = store.bundle,
         store'.seqs = store.seqs, store'.log = store.log
  PROVE  OverlapInv'
<1>1. Creating => Creating'
  BY DEF Creating, Creates
<1>2. \A c \in Call : Author(c)' = Author(c) /\ Reserved(c)' = Reserved(c)
  BY DEF Author, Lifecycle, Named, Resolved, Reserved
<1>3. Numbered => Numbered'
  BY <1>2 DEF Numbered, SequencesUnique
<1>4. \A c \in Call : Own(store, c)' = Own(store, c)
  BY DEF Own
<1>5. \A c \in Call : Written(c) => Written(c)'
  BY <1>4 DEF Written
<1>6. Recorded => Recorded'
  BY <1>4, <1>5 DEF Recorded
<1>7. QED
  BY <1>1, <1>3, <1>6 DEF OverlapInv, Accepted, Orderly

(* Which step of which call it is. *)
LEMMA OverlapStep ==
  ASSUME SdkInv, OverlapInv, OneIdentity, [Next]_vars
  PROVE  OverlapInv'
<1> SUFFICES ASSUME Accepted'
             PROVE  Orderly'
  BY DEF OverlapInv
<1>1. ASSUME NEW c \in Call, Throw(c) \/ Rollback(c)
      PROVE  Orderly'
  BY <1>1, ThrowsAway
<1>2. ASSUME NEW c \in Call,
             Reserve(c) \/ Save(c) \/ Append(c) \/ Load(c) \/ Exit(c)
      PROVE  Orderly'
  <2>1. call[c].at \in Stages \ {"rollback"}
    BY <1>2 DEF Reserve, Save, Append, Load, Exit, Stages
  <2>2. Rest(c)
    BY <1>2, ReserveFacts, SaveFacts, AppendFacts, LoadFacts, LeaveFacts
    DEF SdkInv, Exit, Ended
  <2>3. Orderly
    BY <2>1, <2>2, StageFacts, WasAccepted DEF OverlapInv
  <2>4. QED
    BY <1>2, <2>3, NumberReserved, CreationSaved, RecordAppended, RecorderMoves
<1>3. ASSUME NEW c \in Call, Merge(c) \/ Install(c)
      PROVE  Orderly'
  <2>1. call[c].at \in {"merge", "install"} /\ call[c].at \in Stages
    BY <1>3 DEF Merge, Install, Stages
  <2>2. Rest(c)
    BY <1>3, MergeFacts, InstallFacts
  <2>3. Orderly
    BY <2>1, <2>2, StageFacts, WasAccepted DEF OverlapInv
  <2>4. QED
    BY <2>1, <2>3, AddingStages DEF Orderly
<1>4. ASSUME NEW c \in Call, CreateRoot(c) \/ WriteRecord(c)
      PROVE  Orderly'
  <2>1. call[c].at = "ready" /\ \A d \in Call \ {c} : call'[d] = call[d]
    BY <1>4 DEF CreateRoot, WriteRecord, Enter, Begin, SdkInv, TypeOK
  <2>2. Orderly
    BY <2>1, WasAccepted DEF OverlapInv, Rest
  <2>3. QED
    BY <1>4, <2>2, CreationBegins, WriteRecordOrderly
<1>5. ASSUME NEW c \in Call,
             SetActiveAk(c) \/ AddDeviceKey(c) \/ RevokeDeviceKey(c)
               \/ ImportBundle(c)
      PROVE  FALSE
  <2>1. Ops \cap {"setActiveAk", "addDeviceKey", "revokeDeviceKey",
                  "importBundle"} = {}
    BY DEF OneIdentity, Adding, Recorders
  <2>2. QED
    BY <1>5, <2>1 DEF SetActiveAk, AddDeviceKey, RevokeDeviceKey, ImportBundle,
                      Enter, Begin
<1>6. ASSUME ExportBundle \/ OtherClient
      PROVE  FALSE
  BY <1>6 DEF ExportBundle, OtherClient, Circulate, OneIdentity, Adding,
              Recorders
<1>7. CASE UNCHANGED vars
  BY <1>7, OverlapSame DEF vars, OverlapInv
<1>8. QED
  BY <1>1, <1>2, <1>3, <1>4, <1>5, <1>6, <1>7 DEF Next, Idle

LEMMA OverlapInit == Init => OverlapInv
<1> SUFFICES ASSUME Init
             PROVE  Orderly
  BY DEF OverlapInv
<1>1. EmptyStore.log = {} /\ EmptyStore.bundle = None /\ Fresh.at = "ready"
  BY DEF EmptyStore, Fresh
<1>2. store.log = {} /\ \A c \in Call : call[c].at = "ready"
  BY <1>1 DEF Init
<1>3. Creating
  BY <1>2, StageFacts DEF Creating, Creates
<1>4. Numbered
  BY <1>2 DEF Numbered, Reserved, SequencesUnique
<1>5. Recorded
  BY <1>2, StageFacts DEF Recorded, Own, Ended
<1>6. QED
  BY <1>3, <1>4, <1>5 DEF Orderly

(* What holds while calls overlap in an application that creates one       *)
(* identity and then only adds events and manifest records (events.ts,     *)
(* manifest.ts over memory-store.ts).                                      *)
THEOREM OverlapInvariant ==
  ASSUME OneIdentity
  PROVE  Spec => []OverlapInv
<1>1. SdkInv /\ OverlapInv /\ [Next]_vars => OverlapInv'
  BY OverlapStep
<1>2. QED
  BY SdkInvariant, OverlapInit, <1>1, PTL DEF Spec

LEMMA OverlapKeeps == OverlapInv => OverlapKeepsRecords
<1>1. ASSUME OverlapInv, Accepted
      PROVE  SequencesUnique /\ AllOrNothing
  <2>1. Creating /\ Recorded /\ SequencesUnique
    BY <1>1 DEF OverlapInv, Orderly, Numbered
  <2>2. ASSUME NEW c \in Call
        PROVE  /\ call[c].at = "done" =>
                    /\ Cardinality(Own(store, c)) = Writes(call[c].op)
                    /\ call[c].op \in Adding
               /\ call[c].at # "failed"
    BY <1>1, <2>1 DEF Recorded, Creating, Accepted
  <2>3. "addDeviceKey" \notin Adding /\ "revokeDeviceKey" \notin Adding
    BY DEF Adding, Recorders
  <2>4. AllOrNothing
    BY <2>2, <2>3 DEF AllOrNothing, Own
  <2>5. QED
    BY <2>1, <2>4
<1>2. QED
  BY <1>1 DEF OverlapKeepsRecords, Accepted

(* However many such calls are in flight, as long as every one is          *)
(* accepted no number is used twice and none loses a record                *)
(* (reserveNextSeq, atomic).                                               *)
THEOREM OverlapsKeepRecords ==
  ASSUME OneIdentity
  PROVE  Spec => []OverlapKeepsRecords
BY OverlapInvariant, OverlapKeeps, PTL

=============================================================================
