------------------------- MODULE ClientStoreProofs ------------------------
(***************************************************************************)
(* Theorems about ClientStore, for any replicas, keys and scans, any       *)
(* largest sequence number and any number of bundles in circulation.       *)
(***************************************************************************)
EXTENDS ClientStore, TLAPS

-----------------------------------------------------------------------------
(* The inductive invariant.  In every store the allocator holds the        *)
(* counters of the identity (save_identity_bundle) and the events are      *)
(* valid under it; whatever circulates is valid; and the allocator is      *)
(* never behind an event its replica has made, unless a snapshot without   *)
(* an identity was restored.                                               *)
Sound(c) ==
  /\ c \in Contents
  /\ HasIdentity(c) => c.seqs = c.identity.seq
  /\ ValidBundle(Exported(c))

IssuedCounted ==
  \A s \in Replica \ dropped :
    /\ HasIdentity(client[s]) \/ issued[s] = {}
    /\ \A e \in issued[s] : e.seq <= client[s].seqs[e.root]

ClientInv ==
  /\ TypeOK
  /\ \A s \in Replica : Sound(client[s])
  /\ \A b \in bundles : ValidBundle(b)
  /\ IssuedCounted /\ NoReissue

-----------------------------------------------------------------------------
(* Counters *)

(* Maxima is the least upper bound of two functions of counters (merge_seq_state). *)
LEMMA MaximaFacts ==
  ASSUME NEW f \in Counters, NEW g \in Counters
  PROVE  /\ Maxima(f, g) \in Counters
         /\ \A r \in Root : f[r] <= Maxima(f, g)[r] /\ g[r] <= Maxima(f, g)[r]
         /\ Maxima(f, f) = f
         /\ Maxima(Maxima(f, g), g) = Maxima(f, g)
         /\ Maxima(g, Maxima(f, g)) = Maxima(f, g)
<1>1. \A r \in Root : f[r] \in 0..MaxSeq /\ g[r] \in 0..MaxSeq
  BY DEF Counters
<1>2. \A r \in Root : /\ Maxima(f, g)[r] = LargerOf(f[r], g[r])
                      /\ LargerOf(f[r], g[r]) \in 0..MaxSeq
                      /\ f[r] <= LargerOf(f[r], g[r])
                      /\ g[r] <= LargerOf(f[r], g[r])
  BY <1>1, ClientConstants DEF Maxima, LargerOf
<1>3. Maxima(f, g) \in Counters
  BY <1>2 DEF Maxima, Counters
<1>4. Maxima(f, f) = f
  BY <1>1, ClientConstants DEF Maxima, LargerOf, Counters
<1>5. \A r \in Root : /\ LargerOf(Maxima(f, g)[r], g[r]) = Maxima(f, g)[r]
                      /\ LargerOf(g[r], Maxima(f, g)[r]) = Maxima(f, g)[r]
  BY <1>1, <1>2, ClientConstants DEF LargerOf
<1>6. /\ Maxima(Maxima(f, g), g) = Maxima(f, g)
      /\ Maxima(g, Maxima(f, g)) = Maxima(f, g)
  BY <1>3, <1>5 DEF Maxima, Counters
<1>7. QED
  BY <1>2, <1>3, <1>4, <1>6

(* One of two functions of counters is as good as the other, first or second. *)
LEMMA MaximaCommute ==
  ASSUME NEW f \in Counters, NEW g \in Counters
  PROVE  Maxima(f, g) = Maxima(g, f)
<1>1. \A r \in Root : f[r] \in 0..MaxSeq /\ g[r] \in 0..MaxSeq
  BY DEF Counters
<1>2. \A r \in Root : LargerOf(f[r], g[r]) = LargerOf(g[r], f[r])
  BY <1>1, ClientConstants DEF LargerOf
<1>3. QED
  BY <1>2 DEF Maxima

-----------------------------------------------------------------------------
(* Identities *)

(* What is valid under one identity is so under another that knows no less. *)
KnowsMore(id, known) ==
  /\ id.root = known.root
  /\ known.devices \subseteq id.devices
  /\ known.revoked \subseteq id.revoked
  /\ \A r \in Root : known.seq[r] <= id.seq[r]

LEMMA EventsStayValid ==
  ASSUME NEW id \in Identity, NEW known \in Identity, KnowsMore(id, known),
         NEW e \in Event, ValidEvent(e, known)
  PROVE  ValidEvent(e, id)
<1>1. e.root \in Root /\ e.seq \in Nat
  BY ClientConstants DEF Event
<1>2. known.seq[e.root] \in Nat /\ id.seq[e.root] \in Nat
  BY <1>1, ClientConstants DEF Identity, Counters
<1>3. QED
  BY <1>1, <1>2 DEF ValidEvent, KnowsMore

(* Identities that agree in every part are one. *)
LEMMA SameIdentity ==
  ASSUME NEW a \in Identity, NEW b \in Identity,
         a.root = b.root, a.active = b.active, a.devices = b.devices,
         a.revoked = b.revoked, a.seq = b.seq
  PROVE  a = b
BY DEF Identity

(* What merge_identity_bundle makes of the keys of two bundles of one root. *)
LEMMA MergedKeysFacts ==
  ASSUME NEW id \in Identity, NEW in \in Identity
  PROVE  LET k == MergedKeys(id, in) IN
         /\ k \in Identity
         /\ k.root = id.root /\ k.active = id.active
         /\ k.devices = id.devices \cup in.devices
         /\ k.revoked = id.revoked \cup in.revoked
         /\ k.seq = Maxima(id.seq, in.seq)
<1>1. /\ id.devices \cup in.devices \in SUBSET Device
      /\ id.revoked \cup in.revoked \in SUBSET Device
      /\ Maxima(id.seq, in.seq) \in Counters
  BY MaximaFacts DEF Identity
<1>2. PICK D \in SUBSET Device, R \in SUBSET Device, S \in Counters :
        /\ D = id.devices \cup in.devices
        /\ R = id.revoked \cup in.revoked
        /\ S = Maxima(id.seq, in.seq)
  BY <1>1
<1> DEFINE k == [id EXCEPT !.devices = D, !.revoked = R, !.seq = S]
<1>3. /\ k \in Identity
      /\ k.root = id.root /\ k.active = id.active
      /\ k.devices = D /\ k.revoked = R /\ k.seq = S
  BY DEF Identity
<1>4. MergedKeys(id, in) = k
  BY <1>2 DEF MergedKeys
<1> HIDE DEF k
<1>5. QED
  BY <1>2, <1>3, <1>4

(* merge_identity_bundle forgets nothing of either identity, and what it   *)
(* selects may write; it keeps the selected key if that still may.         *)
LEMMA MergedFacts ==
  ASSUME NEW id \in Identity, NEW in \in Identity, CanMerge(id, in)
  PROVE  LET m == MergedIdentity(id, in) IN
         /\ m \in Identity
         /\ m.root = id.root
         /\ m.devices = id.devices \cup in.devices
         /\ m.revoked = id.revoked \cup in.revoked
         /\ m.seq = Maxima(id.seq, in.seq)
         /\ IsAuthorized(MergedKeys(id, in), id.active) => m.active = id.active
         /\ KnowsMore(m, id) /\ KnowsMore(m, in)
         /\ ValidIdentity(m)
<1> DEFINE k == MergedKeys(id, in)
           m == MergedIdentity(id, in)
<1>1. /\ id.root \in Root /\ id.seq \in Counters /\ in.seq \in Counters
      /\ id.active \in Root \cup Device /\ in.active \in Root \cup Device
      /\ id.root = in.root
  BY DEF Identity, CanMerge
<1>2. \A r \in Root : /\ id.seq[r] <= Maxima(id.seq, in.seq)[r]
                      /\ in.seq[r] <= Maxima(id.seq, in.seq)[r]
  BY <1>1, MaximaFacts
<1>3. /\ k \in Identity
      /\ k.root = id.root /\ k.active = id.active
      /\ k.devices = id.devices \cup in.devices
      /\ k.revoked = id.revoked \cup in.revoked
      /\ k.seq = Maxima(id.seq, in.seq)
  BY MergedKeysFacts
<1> HIDE DEF k
<1>4. PICK a \in Root \cup Device :
        /\ m = [k EXCEPT !.active = a]
        /\ IsAuthorized(k, a)
        /\ IsAuthorized(k, id.active) => a = id.active
  <2>1. m = [k EXCEPT !.active =
               IF IsAuthorized(k, id.active) THEN id.active
               ELSE IF IsAuthorized(k, in.active) THEN in.active ELSE k.root]
    BY DEF MergedIdentity, k
  <2>2. IsAuthorized(k, k.root) /\ k.root \in Root
    BY <1>1, <1>3 DEF IsAuthorized
  <2> HIDE DEF m
  <2>3. CASE IsAuthorized(k, id.active)
    BY <1>1, <2>1, <2>3
  <2>4. CASE ~IsAuthorized(k, id.active) /\ IsAuthorized(k, in.active)
    BY <1>1, <2>1, <2>4
  <2>5. CASE ~IsAuthorized(k, id.active) /\ ~IsAuthorized(k, in.active)
    BY <2>1, <2>2, <2>5
  <2>6. QED
    BY <2>3, <2>4, <2>5
<1> HIDE DEF m
<1>5. /\ m \in Identity
      /\ m.root = k.root /\ m.active = a /\ m.devices = k.devices
      /\ m.revoked = k.revoked /\ m.seq = k.seq
  BY <1>3, <1>4 DEF Identity
<1>6. ValidIdentity(m)
  BY <1>4, <1>5 DEF ValidIdentity, IsAuthorized
<1>7. KnowsMore(m, id) /\ KnowsMore(m, in)
  BY <1>1, <1>2, <1>3, <1>5 DEF KnowsMore
<1>8. QED
  BY <1>3, <1>4, <1>5, <1>6, <1>7 DEF k, m

-----------------------------------------------------------------------------
(* Stores *)

(* Stores that agree in every part are one. *)
LEMMA SameContents ==
  ASSUME NEW a \in Contents, NEW b \in Contents,
         a.identity = b.identity, a.seqs = b.seqs, a.scans = b.scans,
         a.events = b.events
  PROVE  a = b
BY DEF Contents

(* save_identity_bundle replaces the identity and the allocator only.      *)
LEMMA WithIdentityFacts ==
  ASSUME NEW c \in Contents, NEW id \in Identity
  PROVE  LET m == WithIdentity(c, id) IN
         /\ m \in Contents /\ HasIdentity(m)
         /\ m.identity = id /\ m.seqs = id.seq
         /\ m.scans = c.scans /\ m.events = c.events
<1>1. id.seq \in Counters /\ id # NoIdentity
  BY NoIdentityIsNone DEF Identity
<1>2. QED
  BY <1>1 DEF WithIdentity, Contents, HasIdentity

(* The parts of a sound store. *)
LEMMA SoundFacts ==
  ASSUME NEW c \in Contents
  PROVE  Sound(c) <=>
           /\ HasIdentity(c) =>
                /\ c.identity \in Identity /\ ValidIdentity(c.identity)
                /\ c.seqs = c.identity.seq
                /\ \A e \in c.events : ValidEvent(e, c.identity)
           /\ ~HasIdentity(c) => c.events = {}
BY DEF Sound, ValidBundle, Exported, HasIdentity, Contents

(* A bundle a store exports is one the import functions accept. *)
LEMMA ExportedFacts ==
  ASSUME NEW c, Sound(c)
  PROVE  Exported(c) \in Bundle /\ ValidBundle(Exported(c))
BY DEF Sound, Exported, Bundle, Contents

(* A valid identity is merged, or taken over by a store without one. *)
LEMMA MergedSound ==
  ASSUME NEW c, Sound(c), NEW in \in Identity, ValidIdentity(in),
         HasIdentity(c) => CanMerge(c.identity, in)
  PROVE  LET m == Merged(c, in) IN
         /\ Sound(m) /\ HasIdentity(m)
         /\ m.scans = c.scans /\ m.events = c.events
         /\ KnowsMore(m.identity, in)
         /\ HasIdentity(c) => /\ m.identity = MergedIdentity(c.identity, in)
                              /\ KnowsMore(m.identity, c.identity)
         /\ ~HasIdentity(c) => m.identity = in
<1> DEFINE m == Merged(c, in)
<1>1. c \in Contents
  BY DEF Sound
<1>2. CASE HasIdentity(c)
  <2>1. /\ c.identity \in Identity /\ ValidIdentity(c.identity)
        /\ \A e \in c.events : ValidEvent(e, c.identity)
    BY <1>1, <1>2, SoundFacts
  <2>2. PICK id \in Identity :
          /\ id = MergedIdentity(c.identity, in)
          /\ KnowsMore(id, c.identity) /\ KnowsMore(id, in)
          /\ ValidIdentity(id)
    BY <1>2, <2>1, MergedFacts
  <2>3. m = WithIdentity(c, id)
    BY <1>2, <2>2 DEF Merged
  <2>4. /\ m \in Contents /\ HasIdentity(m) /\ m.identity = id
        /\ m.seqs = id.seq /\ m.scans = c.scans /\ m.events = c.events
    BY <1>1, <2>3, WithIdentityFacts
  <2>5. \A e \in c.events : ValidEvent(e, id)
    BY <1>1, <2>1, <2>2, EventsStayValid DEF Contents
  <2>6. QED
    BY <1>2, <2>2, <2>4, <2>5, SoundFacts
<1>3. CASE ~HasIdentity(c)
  <2>1. m = WithIdentity(c, in)
    BY <1>3 DEF Merged
  <2>2. /\ m \in Contents /\ HasIdentity(m) /\ m.identity = in
        /\ m.seqs = in.seq /\ m.scans = c.scans /\ m.events = c.events
    BY <1>1, <2>1, WithIdentityFacts
  <2>3. c.events = {}
    BY <1>1, <1>3, SoundFacts
  <2>4. KnowsMore(in, in)
    BY ClientConstants DEF KnowsMore, Identity, Counters
  <2>5. QED
    BY <1>3, <2>2, <2>3, <2>4, SoundFacts
<1>4. QED
  BY <1>2, <1>3

(* sync_import_bundle joins what the store has and what the bundle has.    *)
LEMMA SyncedSound ==
  ASSUME NEW c, Sound(c), NEW b \in Bundle, CanSync(c, b)
  PROVE  LET m == Synced(c, b) IN
         /\ Sound(m)
         /\ m.scans = c.scans \cup b.scans
         /\ m.events = c.events \cup b.events
         /\ m.identity = IF HasIdentity(b) THEN Merged(c, b.identity).identity
                                           ELSE c.identity
         /\ m.seqs = IF HasIdentity(b) THEN Merged(c, b.identity).seqs
                                       ELSE c.seqs
<1> DEFINE k == IF HasIdentity(b) THEN Merged(c, b.identity) ELSE c
           m == Synced(c, b)
<1>1. /\ b.scans \in SUBSET Scan /\ b.events \in SUBSET Event
      /\ HasIdentity(b) => b.identity \in Identity /\ ValidIdentity(b.identity)
      /\ ~HasIdentity(b) => b.events = {}
      /\ \A e \in b.events : ValidEvent(e, b.identity)
  BY DEF Bundle, CanSync, ValidBundle, HasIdentity
<1>2. /\ Sound(k) /\ k.scans = c.scans /\ k.events = c.events
      /\ HasIdentity(b) => HasIdentity(k) /\ KnowsMore(k.identity, b.identity)
  BY <1>1, MergedSound DEF CanSync
<1> HIDE DEF k
<1>3. /\ k \in Contents /\ k.scans \in SUBSET Scan /\ k.events \in SUBSET Event
      /\ HasIdentity(k) => /\ k.identity \in Identity /\ ValidIdentity(k.identity)
                           /\ k.seqs = k.identity.seq
                           /\ \A e \in k.events : ValidEvent(e, k.identity)
      /\ ~HasIdentity(k) => k.events = {}
  BY <1>2, SoundFacts DEF Sound, Contents
<1>4. PICK X \in SUBSET Scan, E \in SUBSET Event :
        X = k.scans \cup b.scans /\ E = k.events \cup b.events
  BY <1>1, <1>3
<1>5. m = [k EXCEPT !.scans = X, !.events = E]
  BY <1>4 DEF Synced, k
<1> HIDE DEF m
<1>6. /\ m \in Contents /\ m.identity = k.identity /\ m.seqs = k.seqs
      /\ m.scans = X /\ m.events = E /\ (HasIdentity(m) <=> HasIdentity(k))
  <2>1. k \in Contents
    BY <1>3
  <2>2. /\ m \in Contents /\ m.identity = k.identity /\ m.seqs = k.seqs
        /\ m.scans = X /\ m.events = E
    BY <1>5, <2>1 DEF Contents
  <2>3. QED
    BY <2>2 DEF HasIdentity
<1>7. HasIdentity(b) => \A e \in b.events : ValidEvent(e, k.identity)
  BY <1>1, <1>2, <1>3, EventsStayValid
<1>8. Sound(m)
  BY <1>1, <1>2, <1>3, <1>4, <1>6, <1>7, SoundFacts
<1>9. QED
  BY <1>2, <1>4, <1>6, <1>8 DEF k, m

(* What restore_store_snapshot leaves is valid, and no counter of the      *)
(* allocator moves back.                                                   *)
LEMMA RestoredSound ==
  ASSUME NEW c, Sound(c), NEW b \in Bundle, ValidBundle(b)
  PROVE  LET m == Restored(c, b) IN
         /\ Sound(m)
         /\ HasIdentity(m) <=> HasIdentity(b)
         /\ \A r \in Root : c.seqs[r] <= m.seqs[r]
<1> DEFINE q == Maxima(CountersOf(b), c.seqs)
           m == Restored(c, b)
<1>1. /\ CountersOf(b) \in Counters /\ c.seqs \in Counters
      /\ b.scans \in SUBSET Scan /\ b.events \in SUBSET Event
      /\ HasIdentity(b) => b.identity \in Identity
  BY ClientConstants
  DEF Bundle, CountersOf, HasIdentity, Identity, Zero, Counters, Sound, Contents
<1>2. /\ q \in Counters
      /\ \A r \in Root : CountersOf(b)[r] <= q[r] /\ c.seqs[r] <= q[r]
  BY <1>1, MaximaFacts
<1> HIDE DEF q
<1>3. CASE HasIdentity(b)
  <2>1. PICK id : id = [b.identity EXCEPT !.seq = q]
    OBVIOUS
  <2>2. /\ id \in Identity /\ id.root = b.identity.root
        /\ id.active = b.identity.active /\ id.devices = b.identity.devices
        /\ id.revoked = b.identity.revoked /\ id.seq = q
    BY <1>1, <1>2, <1>3, <2>1 DEF Identity
  <2>3. m = [identity |-> id, seqs |-> q, scans |-> b.scans, events |-> b.events]
    BY <1>3, <2>1 DEF Restored, q
  <2>4. m \in Contents /\ HasIdentity(m)
    BY <1>1, <1>2, <2>2, <2>3, NoIdentityIsNone DEF Contents, HasIdentity
  <2>5. KnowsMore(id, b.identity)
    BY <1>2, <1>3, <2>2 DEF KnowsMore, CountersOf
  <2>6. \A e \in b.events : ValidEvent(e, id)
    BY <1>1, <1>3, <2>2, <2>5, EventsStayValid DEF ValidBundle
  <2>7. ValidIdentity(id)
    BY <1>3, <2>2 DEF ValidBundle, ValidIdentity, IsAuthorized
  <2>8. QED
    BY <1>2, <1>3, <2>2, <2>3, <2>4, <2>6, <2>7, SoundFacts
<1>4. CASE ~HasIdentity(b)
  <2>1. m = [identity |-> NoIdentity, seqs |-> q, scans |-> b.scans, events |-> {}]
    BY <1>4 DEF Restored, q, ValidBundle
  <2>2. m \in Contents /\ ~HasIdentity(m)
    BY <1>1, <1>2, <2>1 DEF Contents, HasIdentity
  <2>3. QED
    BY <1>2, <1>4, <2>1, <2>2, SoundFacts
<1>5. QED
  BY <1>3, <1>4

(* The next number is written into the bundle. *)
LEMMA NumberedFacts ==
  ASSUME NEW id \in Identity, NEW n \in 0..MaxSeq
  PROVE  LET new == [id EXCEPT !.seq[id.root] = n] IN
         /\ new \in Identity
         /\ new.root = id.root /\ new.active = id.active
         /\ new.devices = id.devices /\ new.revoked = id.revoked
         /\ new.seq[id.root] = n
         /\ \A r \in Root \ {id.root} : new.seq[r] = id.seq[r]
BY DEF Identity, Counters

(* save_identity_bundle and append_lifecycle_event *)
LEMMA AppendedFacts ==
  ASSUME NEW c \in Contents, NEW id \in Identity, NEW e \in Event
  PROVE  LET m == [WithIdentity(c, id) EXCEPT !.events = @ \cup {e}] IN
         /\ m \in Contents /\ HasIdentity(m)
         /\ m.identity = id /\ m.seqs = id.seq
         /\ m.scans = c.scans /\ m.events = c.events \cup {e}
<1>1. PICK k : k = WithIdentity(c, id)
  OBVIOUS
<1>2. /\ k \in Contents /\ HasIdentity(k) /\ k.identity = id /\ k.seqs = id.seq
      /\ k.scans = c.scans /\ k.events = c.events
  BY <1>1, WithIdentityFacts
<1>3. k.events \cup {e} \in SUBSET Event
  BY <1>2 DEF Contents
<1>4. LET m == [k EXCEPT !.events = @ \cup {e}] IN
      /\ m \in Contents /\ HasIdentity(m)
      /\ m.identity = id /\ m.seqs = id.seq
      /\ m.scans = c.scans /\ m.events = c.events \cup {e}
  BY <1>2, <1>3 DEF Contents, HasIdentity
<1>5. QED
  BY <1>1, <1>4

(* A lifecycle event made with the next number of the root: the identity   *)
(* "new" is the present one with that number, and with a device more or a  *)
(* revocation more.                                                        *)
LEMMA IssuedSound ==
  ASSUME NEW c, Sound(c), HasIdentity(c), NextSeq(c) <= MaxSeq,
         NEW e \in Event, e.root = c.identity.root, e.seq = NextSeq(c),
         NEW new \in Identity, KnowsMore(new, c.identity), ValidIdentity(new),
         new.seq[e.root] = e.seq,
         e.device \in new.devices,
         e.kind = "DeviceKeyRevoke" => e.device \in new.revoked,
         NEW m \in Contents, HasIdentity(m), m.identity = new, m.seqs = new.seq,
         m.scans = c.scans, m.events = c.events \cup {e}
  PROVE  /\ Sound(m) /\ Keeps(c, m)
         /\ \A r \in Root : c.seqs[r] <= m.seqs[r]
         /\ c.seqs[e.root] < e.seq /\ m.seqs[e.root] = e.seq
<1>1. /\ c \in Contents /\ c.identity \in Identity /\ c.seqs = c.identity.seq
      /\ \A f \in c.events : ValidEvent(f, c.identity)
      /\ c.events \in SUBSET Event
  BY SoundFacts DEF Sound, Contents
<1>2. \A f \in c.events : ValidEvent(f, new)
  BY <1>1, EventsStayValid
<1>3. e.seq \in Nat /\ e.seq = c.seqs[e.root] + 1 /\ c.seqs[e.root] \in Nat
  BY <1>1, ClientConstants DEF Event, NextSeq, Identity, Counters
<1>4. ValidEvent(e, new)
  BY <1>3 DEF ValidEvent, KnowsMore
<1>5. Sound(m)
  BY <1>2, <1>4, SoundFacts
<1>6. Keeps(c, m)
  BY DEF Keeps, KnowsMore
<1>7. \A r \in Root : c.seqs[r] <= m.seqs[r]
  BY <1>1 DEF KnowsMore
<1>8. QED
  BY <1>3, <1>5, <1>6, <1>7

-----------------------------------------------------------------------------
(* The actions *)

(* One store becomes c, and its replica has made no event meanwhile; unless *)
(* it dropped its counters, they are still ahead of the events it made.    *)
LEMMA OneStoreChanges ==
  ASSUME ClientInv, NEW s \in Replica, NEW c, Sound(c), Becomes(s, c),
         drawn' \subseteq Root \cup Device, UNCHANGED <<bundles, issued>>,
         dropped' = dropped \/ dropped' = dropped \cup {s},
         s \in dropped' \/
           /\ HasIdentity(c) \/ issued[s] = {}
           /\ \A e \in issued[s] : e.seq <= c.seqs[e.root]
  PROVE  ClientInv'
<1>1. /\ client' \in [Replica -> Contents] /\ client'[s] = c
      /\ \A t \in Replica \ {s} : client'[t] = client[t]
  BY DEF ClientInv, TypeOK, Becomes, Sound
<1>2. TypeOK'
  BY <1>1 DEF ClientInv, TypeOK
<1>3. \A t \in Replica : Sound(client'[t])
  BY <1>1 DEF ClientInv
<1>4. \A b \in bundles' : ValidBundle(b)
  BY DEF ClientInv
<1>5. IssuedCounted'
  BY <1>1 DEF ClientInv, IssuedCounted
<1>6. NoReissue'
  BY DEF ClientInv, NoReissue
<1>7. QED
  BY <1>2, <1>3, <1>4, <1>5, <1>6 DEF ClientInv

(* Counters that do not move back stay ahead of the events. *)
LEMMA StillCounted ==
  ASSUME ClientInv, NEW s \in Replica, s \notin dropped,
         NEW c \in Contents, HasIdentity(client[s]) => HasIdentity(c),
         HasIdentity(client[s]) =>
           \A r \in Root : client[s].seqs[r] <= c.seqs[r]
  PROVE  /\ HasIdentity(c) \/ issued[s] = {}
         /\ \A e \in issued[s] : e.seq <= c.seqs[e.root]
<1>1. /\ HasIdentity(client[s]) \/ issued[s] = {}
      /\ \A e \in issued[s] : e.seq <= client[s].seqs[e.root]
  BY DEF ClientInv, IssuedCounted
<1>2. ASSUME NEW e \in issued[s]
      PROVE  e.seq <= c.seqs[e.root]
  <2>1. e \in Event /\ client[s] \in Contents
    BY <1>2 DEF ClientInv, TypeOK
  <2>2. /\ e.root \in Root /\ e.seq \in Nat /\ client[s].seqs[e.root] \in Nat
        /\ c.seqs[e.root] \in Nat
    BY <2>1, ClientConstants DEF Event, Contents, Counters
  <2>3. QED
    BY <1>1, <1>2, <2>2
<1>3. QED
  BY <1>1, <1>2

(* A store that merged an identity: what the invariant and KnowledgeGrows  *)
(* ask of it (import_seq_state).                                           *)
LEMMA MergedGrows ==
  ASSUME NEW c, Sound(c), HasIdentity(c), NEW in \in Identity,
         ValidIdentity(in), CanMerge(c.identity, in)
  PROVE  /\ HasIdentity(Merged(c, in))
         /\ \A r \in Root : c.seqs[r] <= Merged(c, in).seqs[r]
         /\ Keeps(c, Merged(c, in))
<1>1. /\ Sound(Merged(c, in)) /\ HasIdentity(Merged(c, in))
      /\ Merged(c, in).scans = c.scans /\ Merged(c, in).events = c.events
      /\ KnowsMore(Merged(c, in).identity, c.identity)
  BY MergedSound
<1>2. /\ c.seqs = c.identity.seq
      /\ Merged(c, in).seqs = Merged(c, in).identity.seq
  BY <1>1 DEF Sound
<1>3. QED
  BY <1>1, <1>2 DEF KnowsMore, Keeps

(* What an action makes of the stores, for KnowledgeGrows.                 *)
Grows(c, k) ==
  HasIdentity(c) =>
    /\ \A r \in Root : c.seqs[r] <= k.seqs[r]
    /\ Keeps(c, k) \/ \E b \in bundles : k = Restored(c, b)

(* A store that is left alone keeps what it knows. *)
LEMMA UnchangedGrows ==
  ASSUME NEW c, Sound(c)
  PROVE  Grows(c, c)
BY ClientConstants DEF Grows, Keeps, Sound, Contents, Counters

LEMMA OthersGrow ==
  ASSUME ClientInv, NEW s \in Replica, NEW c, Becomes(s, c), Grows(client[s], c)
  PROVE  \A t \in Replica : Grows(client[t], client'[t])
<1>1. client'[s] = c /\ \A t \in Replica \ {s} : client'[t] = client[t]
  BY DEF ClientInv, TypeOK, Becomes
<1>2. QED
  BY <1>1, UnchangedGrows DEF ClientInv

LEMMA CreateRootStep ==
  ASSUME ClientInv, NEW s \in Replica, CreateRoot(s)
  PROVE  ClientInv' /\ \A t \in Replica : Grows(client[t], client'[t])
<1>1. PICK r \in Root \ drawn :
        /\ drawn' = drawn \cup {r}
        /\ Becomes(s, WithIdentity(client[s],
             [root |-> r, active |-> r, devices |-> {}, revoked |-> {},
              seq |-> Zero]))
  BY DEF CreateRoot
<1>2. PICK id : id = [root |-> r, active |-> r, devices |-> {}, revoked |-> {},
                      seq |-> Zero]
  OBVIOUS
<1>3. /\ id \in Identity /\ id.root = r /\ id.active = r
  BY <1>2, ClientConstants DEF Identity, Zero, Counters
<1>4. PICK c : c = WithIdentity(client[s], id)
  OBVIOUS
<1>5. /\ Sound(client[s]) /\ client[s] \in Contents /\ ~HasIdentity(client[s])
      /\ client[s].events = {}
  BY SoundFacts DEF ClientInv, Sound, CreateRoot
<1>6. /\ c \in Contents /\ HasIdentity(c) /\ c.identity = id /\ c.seqs = id.seq
      /\ c.events = {}
  BY <1>3, <1>4, <1>5, WithIdentityFacts
<1>7. Sound(c)
  BY <1>3, <1>6, SoundFacts DEF ValidIdentity, IsAuthorized
<1>8. Becomes(s, c)
  BY <1>1, <1>2, <1>4
<1>9. ClientInv'
  <2>1. /\ drawn' \subseteq Root \cup Device
        /\ UNCHANGED <<bundles, issued>> /\ dropped' = dropped
    BY <1>1 DEF CreateRoot, ClientInv, TypeOK
  <2>2. s \in dropped' \/ ( /\ HasIdentity(c) \/ issued[s] = {}
                            /\ \A e \in issued[s] : e.seq <= c.seqs[e.root])
    BY <1>5, <1>6, <2>1, StillCounted
  <2>3. QED
    BY <1>7, <1>8, <2>1, <2>2, OneStoreChanges
<1>10. QED
  BY <1>5, <1>8, <1>9, OthersGrow DEF Grows

(* A lifecycle event is made with the next number of the root, which no    *)
(* event of this replica has (reserve_next_seq).                           *)
LEMMA IssueStep ==
  ASSUME ClientInv, NEW s \in Replica, HasIdentity(client[s]),
         NEW kind \in {"DeviceKeyGrant", "DeviceKeyRevoke"},
         NEW id \in Identity, NEW d \in Device, Issue(s, kind, id, d),
         id.root = client[s].identity.root, id.seq = client[s].identity.seq,
         client[s].identity.devices \subseteq id.devices,
         client[s].identity.revoked \subseteq id.revoked,
         ValidIdentity(id), d \in id.devices,
         kind = "DeviceKeyRevoke" => d \in id.revoked,
         drawn' \subseteq Root \cup Device
  PROVE  ClientInv' /\ \A t \in Replica : Grows(client[t], client'[t])
<1> DEFINE c == client[s]
           n == NextSeq(c)
<1>1. /\ Sound(c) /\ c \in Contents /\ c.identity \in Identity
      /\ c.seqs = c.identity.seq
  BY SoundFacts DEF ClientInv, Sound
<1>2. n \in 1..MaxSeq /\ n <= MaxSeq /\ n = c.identity.seq[id.root] + 1
  <2>1. n <= MaxSeq
    BY DEF Issue
  <2>2. n = c.identity.seq[id.root] + 1
    BY <1>1 DEF NextSeq
  <2>3. id.root \in Root /\ c.identity.seq \in [Root -> 0..MaxSeq]
    BY <1>1 DEF Identity, Counters
  <2>4. c.identity.seq[id.root] \in 0..MaxSeq
    BY <2>3
  <2>5. QED
    BY <2>1, <2>2, <2>4, ClientConstants
<1> HIDE DEF n
<1>3. PICK new : new = [id EXCEPT !.seq[id.root] = n]
  OBVIOUS
<1>4. /\ new \in Identity /\ new.root = id.root /\ new.active = id.active
      /\ new.devices = id.devices /\ new.revoked = id.revoked
      /\ new.seq[id.root] = n
      /\ \A r \in Root \ {id.root} : new.seq[r] = id.seq[r]
  BY <1>2, <1>3, NumberedFacts
<1>5. PICK e : e = MakeEvent(kind, id.root, n, d)
  OBVIOUS
<1>6. /\ e \in Event /\ e.kind = kind /\ e.root = id.root /\ e.seq = n
      /\ e.device = d
  BY <1>2, <1>5 DEF MakeEvent, Event, Identity
<1>7. PICK m : m = [WithIdentity(c, new) EXCEPT !.events = @ \cup {e}]
  OBVIOUS
<1>8. /\ m \in Contents /\ HasIdentity(m) /\ m.identity = new
      /\ m.seqs = new.seq /\ m.scans = c.scans /\ m.events = c.events \cup {e}
  BY <1>1, <1>4, <1>6, <1>7, AppendedFacts
<1>9. /\ Becomes(s, m)
      /\ issued' = [issued EXCEPT ![s] = @ \cup {e}]
      /\ UNCHANGED <<bundles, dropped>>
  BY <1>3, <1>5, <1>7 DEF Issue, n
<1>10. KnowsMore(new, c.identity) /\ ValidIdentity(new)
  <2>1. \A r \in Root : c.identity.seq[r] \in Nat
    BY <1>1, ClientConstants DEF Identity, Counters
  <2>2. id.root \in Root
    BY DEF Identity
  <2>3. QED
    BY <1>2, <1>4, <2>1, <2>2 DEF KnowsMore, ValidIdentity, IsAuthorized
<1>11. /\ Sound(m) /\ Keeps(c, m)
       /\ \A r \in Root : c.seqs[r] <= m.seqs[r]
       /\ c.seqs[e.root] < e.seq /\ m.seqs[e.root] = e.seq
  <2>1. NextSeq(c) <= MaxSeq /\ e.seq = NextSeq(c)
    BY <1>2, <1>6 DEF n
  <2>2. QED
    BY <1>1, <1>4, <1>6, <1>8, <1>10, <2>1, IssuedSound
<1> HIDE DEF c
<1>12. /\ client' \in [Replica -> Contents] /\ client'[s] = m
       /\ \A t \in Replica \ {s} : client'[t] = client[t]
       /\ issued' \in [Replica -> SUBSET Event]
       /\ issued'[s] = issued[s] \cup {e}
       /\ \A t \in Replica \ {s} : issued'[t] = issued[t]
  BY <1>6, <1>8, <1>9 DEF ClientInv, TypeOK, Becomes
<1>13. TypeOK' /\ \A t \in Replica : Sound(client'[t])
  BY <1>9, <1>11, <1>12 DEF ClientInv, TypeOK
<1>14. \A b \in bundles' : ValidBundle(b)
  BY <1>9 DEF ClientInv
<1>15. s \notin dropped =>
         \A f \in issued[s] : /\ f.seq <= m.seqs[f.root]
                              /\ f.root = e.root => f.seq # e.seq
  <2> SUFFICES ASSUME s \notin dropped, NEW f \in issued[s]
               PROVE  f.seq <= m.seqs[f.root] /\ (f.root = e.root => f.seq # e.seq)
    OBVIOUS
  <2>1. f \in Event /\ f.seq <= c.seqs[f.root]
    BY DEF ClientInv, TypeOK, IssuedCounted, c
  <2>2. f.root \in Root /\ f.seq \in Nat
    BY <2>1, ClientConstants DEF Event
  <2>3. c.seqs[f.root] \in Nat /\ m.seqs[f.root] \in Nat /\ e.seq \in Nat
    BY <1>1, <1>6, <1>8, <2>2, ClientConstants DEF Contents, Counters, Event
  <2>4. c.seqs[f.root] <= m.seqs[f.root] /\ c.seqs[e.root] < e.seq
    BY <1>11, <2>2
  <2>5. QED
    BY <2>1, <2>2, <2>3, <2>4
<1>16. IssuedCounted'
  <2> SUFFICES ASSUME NEW t \in Replica, t \notin dropped
               PROVE  /\ HasIdentity(client'[t]) \/ issued'[t] = {}
                      /\ \A f \in issued'[t] : f.seq <= client'[t].seqs[f.root]
    BY <1>9 DEF IssuedCounted
  <2>1. CASE t = s
    <3>1. e.seq <= m.seqs[e.root]
      BY <1>6, <1>11, ClientConstants DEF Event
    <3>2. client'[t] = m /\ issued'[t] = issued[s] \cup {e} /\ s \notin dropped
      BY <1>12, <2>1
    <3>3. ASSUME NEW f \in issued[s] \cup {e}
          PROVE  f.seq <= m.seqs[f.root]
      <4>1. CASE f = e
        BY <3>1, <4>1
      <4>2. CASE f \in issued[s]
        BY <1>15, <3>2, <4>2
      <4>3. QED
        BY <3>3, <4>1, <4>2
    <3>4. QED
      BY <1>8, <3>2, <3>3
  <2>2. CASE t # s
    BY <1>12, <2>2 DEF ClientInv, IssuedCounted
  <2>3. QED
    BY <2>1, <2>2
<1>17. NoReissue'
  <2> SUFFICES ASSUME NEW t \in Replica, t \notin dropped,
                      NEW f \in issued'[t], NEW g \in issued'[t],
                      f.root = g.root, f.seq = g.seq
               PROVE  f = g
    BY <1>9 DEF NoReissue
  <2>1. CASE t = s
    <3>1. f \in issued[s] /\ g \in issued[s] => f = g
      BY <2>1 DEF ClientInv, NoReissue
    <3>2. /\ f \in issued[s] \/ f = e
          /\ g \in issued[s] \/ g = e
          /\ s \notin dropped
      BY <1>12, <2>1
    <3>3. \A h \in issued[s] : h.root = e.root => h.seq # e.seq
      BY <1>15, <3>2
    <3>4. QED
      BY <3>1, <3>2, <3>3
  <2>2. CASE t # s
    BY <1>12, <2>2 DEF ClientInv, NoReissue
  <2>3. QED
    BY <2>1, <2>2
<1>18. ClientInv'
  BY <1>13, <1>14, <1>16, <1>17 DEF ClientInv
<1>19. Grows(c, m)
  BY <1>11 DEF Grows
<1>20. QED
  BY <1>9, <1>18, <1>19, OthersGrow DEF c

LEMMA AddDeviceStep ==
  ASSUME ClientInv, NEW s \in Replica, AddDevice(s)
  PROVE  ClientInv' /\ \A t \in Replica : Grows(client[t], client'[t])
<1>1. PICK d \in Device \ drawn :
        /\ drawn' = drawn \cup {d}
        /\ Issue(s, "DeviceKeyGrant",
                 [client[s].identity EXCEPT !.devices = @ \cup {d}], d)
  BY DEF AddDevice
<1>2. /\ HasIdentity(client[s]) /\ client[s].identity \in Identity
      /\ ValidIdentity(client[s].identity)
  BY SoundFacts DEF ClientInv, Sound, AddDevice
<1>3. PICK id : id = [client[s].identity EXCEPT !.devices = @ \cup {d}]
  OBVIOUS
<1>4. client[s].identity.devices \cup {d} \in SUBSET Device
  BY <1>2 DEF Identity
<1>5. /\ id \in Identity /\ id.root = client[s].identity.root
      /\ id.active = client[s].identity.active
      /\ id.devices = client[s].identity.devices \cup {d}
      /\ id.revoked = client[s].identity.revoked
      /\ id.seq = client[s].identity.seq
  BY <1>2, <1>3, <1>4 DEF Identity
<1>6. ValidIdentity(id)
  BY <1>2, <1>5 DEF ValidIdentity, IsAuthorized
<1>7. drawn' \subseteq Root \cup Device
  BY <1>1 DEF ClientInv, TypeOK
<1>8. Issue(s, "DeviceKeyGrant", id, d)
  BY <1>1, <1>3
<1>9. QED
  BY <1>2, <1>5, <1>6, <1>7, <1>8, IssueStep

LEMMA RevokeDeviceStep ==
  ASSUME ClientInv, NEW s \in Replica, RevokeDevice(s)
  PROVE  ClientInv' /\ \A t \in Replica : Grows(client[t], client'[t])
<1>1. /\ HasIdentity(client[s]) /\ client[s].identity \in Identity
      /\ ValidIdentity(client[s].identity)
  BY SoundFacts DEF ClientInv, Sound, RevokeDevice
<1>2. PICK d \in client[s].identity.devices \ client[s].identity.revoked :
        Issue(s, "DeviceKeyRevoke", RevokedIn(client[s].identity, d), d)
  BY DEF RevokeDevice
<1>3. PICK id : id = RevokedIn(client[s].identity, d)
  OBVIOUS
<1>4. PICK a \in Root \cup Device :
        a = IF client[s].identity.active = d THEN client[s].identity.root
            ELSE client[s].identity.active
  BY <1>1 DEF Identity
<1>5. PICK R \in SUBSET Device : R = client[s].identity.revoked \cup {d}
  BY <1>1, <1>2 DEF Identity
<1>6. id = [client[s].identity EXCEPT !.revoked = R, !.active = a]
  BY <1>3, <1>4, <1>5 DEF RevokedIn
<1>7. /\ id \in Identity /\ id.root = client[s].identity.root
      /\ id.active = a /\ id.devices = client[s].identity.devices
      /\ id.revoked = R /\ id.seq = client[s].identity.seq
  BY <1>1, <1>6 DEF Identity
<1>8. ValidIdentity(id)
  BY <1>1, <1>4, <1>5, <1>7 DEF ValidIdentity, IsAuthorized
<1>9. drawn' \subseteq Root \cup Device
  BY DEF RevokeDevice, ClientInv, TypeOK
<1>10. Issue(s, "DeviceKeyRevoke", id, d) /\ d \in Device
  BY <1>1, <1>2, <1>3 DEF Identity
<1>11. QED
  BY <1>1, <1>2, <1>5, <1>7, <1>8, <1>9, <1>10, IssueStep

LEMMA SetActiveStep ==
  ASSUME ClientInv, NEW s \in Replica, SetActive(s)
  PROVE  ClientInv' /\ \A t \in Replica : Grows(client[t], client'[t])
<1>1. /\ HasIdentity(client[s]) /\ client[s].identity \in Identity
      /\ client[s] \in Contents /\ client[s].seqs = client[s].identity.seq
      /\ \A e \in client[s].events : ValidEvent(e, client[s].identity)
  BY SoundFacts DEF ClientInv, Sound, SetActive
<1>2. PICK k \in Root \cup Device :
        /\ IsAuthorized(client[s].identity, k)
        /\ Becomes(s, WithIdentity(client[s],
                        [client[s].identity EXCEPT !.active = k]))
  BY DEF SetActive
<1>3. PICK id : id = [client[s].identity EXCEPT !.active = k]
  OBVIOUS
<1>4. /\ id \in Identity /\ id.root = client[s].identity.root /\ id.active = k
      /\ id.devices = client[s].identity.devices
      /\ id.revoked = client[s].identity.revoked
      /\ id.seq = client[s].identity.seq
  BY <1>1, <1>3 DEF Identity
<1>5. PICK c : c = WithIdentity(client[s], id)
  OBVIOUS
<1>6. /\ c \in Contents /\ HasIdentity(c) /\ c.identity = id /\ c.seqs = id.seq
      /\ c.scans = client[s].scans /\ c.events = client[s].events
  BY <1>1, <1>4, <1>5, WithIdentityFacts
<1>7. \A r \in Root : client[s].seqs[r] <= id.seq[r]
  BY <1>1, <1>4, ClientConstants DEF Identity, Counters
<1>8. KnowsMore(id, client[s].identity)
  BY <1>1, <1>4, <1>7 DEF KnowsMore
<1>9. \A e \in client[s].events : ValidEvent(e, id)
  BY <1>1, <1>4, <1>8, EventsStayValid DEF Contents
<1>10. Sound(c)
  BY <1>2, <1>4, <1>6, <1>9, SoundFacts DEF ValidIdentity, IsAuthorized
<1>11. Becomes(s, c)
  BY <1>2, <1>3, <1>5
<1>12. s \in dropped \/ ( /\ HasIdentity(c) \/ issued[s] = {}
                          /\ \A e \in issued[s] : e.seq <= c.seqs[e.root])
  BY <1>6, <1>7, StillCounted
<1>13. ClientInv'
  <2>1. /\ drawn' \subseteq Root \cup Device
        /\ UNCHANGED <<bundles, issued>> /\ dropped' = dropped
    BY DEF SetActive, ClientInv, TypeOK
  <2>2. QED
    BY <1>10, <1>11, <1>12, <2>1, OneStoreChanges
<1>14. Grows(client[s], c)
  BY <1>4, <1>6, <1>7 DEF Grows, Keeps
<1>15. QED
  BY <1>11, <1>13, <1>14, OthersGrow

LEMMA AcceptScanStep ==
  ASSUME ClientInv, NEW s \in Replica, AcceptScan(s)
  PROVE  ClientInv' /\ \A t \in Replica : Grows(client[t], client'[t])
<1>1. Sound(client[s]) /\ client[s] \in Contents
  BY DEF ClientInv, Sound
<1>2. PICK x \in Scan : Becomes(s, [client[s] EXCEPT !.scans = @ \cup {x}])
  BY DEF AcceptScan
<1>3. PICK c : c = [client[s] EXCEPT !.scans = @ \cup {x}]
  OBVIOUS
<1>4. client[s].scans \cup {x} \in SUBSET Scan
  BY <1>1 DEF Contents
<1>5. /\ c \in Contents /\ c.identity = client[s].identity
      /\ c.seqs = client[s].seqs /\ c.scans = client[s].scans \cup {x}
      /\ c.events = client[s].events
  BY <1>1, <1>3, <1>4 DEF Contents
<1>6. HasIdentity(c) <=> HasIdentity(client[s])
  BY <1>5 DEF HasIdentity
<1>7. Sound(c)
  BY <1>1, <1>5, <1>6, SoundFacts
<1>8. \A r \in Root : client[s].seqs[r] <= c.seqs[r]
  BY <1>1, <1>5, ClientConstants DEF Contents, Counters
<1>9. Becomes(s, c)
  BY <1>2, <1>3
<1>10. s \in dropped \/ ( /\ HasIdentity(c) \/ issued[s] = {}
                          /\ \A e \in issued[s] : e.seq <= c.seqs[e.root])
  BY <1>5, <1>6, <1>8, StillCounted
<1>11. ClientInv'
  <2>1. /\ drawn' \subseteq Root \cup Device
        /\ UNCHANGED <<bundles, issued>> /\ dropped' = dropped
    BY DEF AcceptScan, ClientInv, TypeOK
  <2>2. QED
    BY <1>7, <1>9, <1>10, <2>1, OneStoreChanges
<1>12. Grows(client[s], c)
  BY <1>5, <1>6, <1>8 DEF Grows, Keeps
<1>13. QED
  BY <1>9, <1>11, <1>12, OthersGrow

LEMMA ExportStep ==
  ASSUME ClientInv, NEW s \in Replica, Export(s)
  PROVE  ClientInv' /\ \A t \in Replica : Grows(client[t], client'[t])
<1>1. /\ bundles' = bundles \cup {Exported(client[s])}
      /\ UNCHANGED <<client, drawn, issued, dropped>>
  BY DEF Export
<1>2. Exported(client[s]) \in Bundle /\ ValidBundle(Exported(client[s]))
  BY ExportedFacts DEF ClientInv
<1>3. TypeOK' /\ IssuedCounted' /\ NoReissue'
  BY <1>1, <1>2 DEF ClientInv, TypeOK, IssuedCounted, NoReissue
<1>4. /\ \A b \in bundles' : ValidBundle(b)
      /\ \A t \in Replica : Sound(client'[t])
  BY <1>1, <1>2 DEF ClientInv
<1>5. \A t \in Replica : Grows(client[t], client'[t])
  BY <1>1, UnchangedGrows DEF ClientInv
<1>6. QED
  BY <1>3, <1>4, <1>5 DEF ClientInv

LEMMA ImportIdentityStep ==
  ASSUME ClientInv, NEW s \in Replica, ImportIdentity(s)
  PROVE  ClientInv' /\ \A t \in Replica : Grows(client[t], client'[t])
<1>1. PICK b \in bundles : /\ CanImportIdentity(client[s], b)
                           /\ Becomes(s, Merged(client[s], b.identity))
  BY DEF ImportIdentity
<1>2. /\ Sound(client[s]) /\ b \in Bundle
      /\ b.identity \in Identity /\ ValidIdentity(b.identity)
      /\ HasIdentity(client[s]) => CanMerge(client[s].identity, b.identity)
  BY <1>1 DEF ClientInv, TypeOK, Bundle, CanImportIdentity, HasIdentity
<1>3. PICK c : c = Merged(client[s], b.identity)
  OBVIOUS
<1>4. Sound(c) /\ c \in Contents /\ HasIdentity(c)
  BY <1>2, <1>3, MergedSound DEF Sound
<1>5. HasIdentity(client[s]) =>
        \A r \in Root : client[s].seqs[r] <= c.seqs[r]
  BY <1>2, <1>3, MergedGrows
<1>6. Becomes(s, c) /\ Grows(client[s], c)
  BY <1>1, <1>2, <1>3, MergedGrows DEF Grows
<1>7. s \in dropped \/ ( /\ HasIdentity(c) \/ issued[s] = {}
                         /\ \A e \in issued[s] : e.seq <= c.seqs[e.root])
  BY <1>4, <1>5, StillCounted
<1>8. ClientInv'
  <2>1. /\ drawn' \subseteq Root \cup Device
        /\ UNCHANGED <<bundles, issued>> /\ dropped' = dropped
    BY DEF ImportIdentity, ClientInv, TypeOK
  <2>2. QED
    BY <1>4, <1>6, <1>7, <2>1, OneStoreChanges
<1>9. QED
  BY <1>6, <1>8, OthersGrow

LEMMA AcceptPairingStep ==
  ASSUME ClientInv, NEW s \in Replica, AcceptPairing(s)
  PROVE  ClientInv' /\ \A t \in Replica : Grows(client[t], client'[t])
<1>1. /\ ~HasIdentity(client[s])
      /\ \E b \in bundles : /\ HasIdentity(b) /\ ValidIdentity(b.identity)
                            /\ Becomes(s, WithIdentity(client[s], b.identity))
  BY DEF AcceptPairing
<1>2. PICK b \in bundles : /\ HasIdentity(b) /\ ValidIdentity(b.identity)
                           /\ Becomes(s, WithIdentity(client[s], b.identity))
  BY <1>1
<1>3. Sound(client[s]) /\ b.identity \in Identity
  BY <1>2 DEF ClientInv, TypeOK, Bundle, HasIdentity
<1>4. PICK c : c = WithIdentity(client[s], b.identity)
  OBVIOUS
<1>5. c = Merged(client[s], b.identity)
  BY <1>1, <1>4 DEF Merged
<1>6. Sound(c) /\ c \in Contents /\ HasIdentity(c)
  BY <1>1, <1>2, <1>3, <1>5, MergedSound DEF Sound
<1>7. Becomes(s, c) /\ Grows(client[s], c)
  BY <1>1, <1>2, <1>4 DEF Grows
<1>8. s \in dropped \/ ( /\ HasIdentity(c) \/ issued[s] = {}
                         /\ \A e \in issued[s] : e.seq <= c.seqs[e.root])
  BY <1>1, <1>6, StillCounted
<1>9. ClientInv'
  <2>1. /\ drawn' \subseteq Root \cup Device
        /\ UNCHANGED <<bundles, issued>> /\ dropped' = dropped
    BY DEF AcceptPairing, ClientInv, TypeOK
  <2>2. QED
    BY <1>6, <1>7, <1>8, <2>1, OneStoreChanges
<1>10. QED
  BY <1>7, <1>9, OthersGrow

LEMMA ImportSyncStep ==
  ASSUME ClientInv, NEW s \in Replica, ImportSync(s)
  PROVE  ClientInv' /\ \A t \in Replica : Grows(client[t], client'[t])
<1>1. PICK b \in bundles : /\ CanSync(client[s], b)
                           /\ Becomes(s, Synced(client[s], b))
  BY DEF ImportSync
<1>2. Sound(client[s]) /\ client[s] \in Contents /\ b \in Bundle
  BY DEF ClientInv, TypeOK, Sound
<1>3. PICK c : c = Synced(client[s], b)
  OBVIOUS
<1>4. /\ Sound(c) /\ c \in Contents
      /\ c.scans = client[s].scans \cup b.scans
      /\ c.events = client[s].events \cup b.events
      /\ HasIdentity(b) => /\ c.identity = Merged(client[s], b.identity).identity
                           /\ c.seqs = Merged(client[s], b.identity).seqs
      /\ ~HasIdentity(b) => /\ c.identity = client[s].identity
                            /\ c.seqs = client[s].seqs
  BY <1>1, <1>2, <1>3, SyncedSound DEF Sound
<1>5. HasIdentity(client[s]) =>
        /\ HasIdentity(c)
        /\ \A r \in Root : client[s].seqs[r] <= c.seqs[r]
        /\ Keeps(client[s], c)
  <2> SUFFICES ASSUME HasIdentity(client[s])
               PROVE  /\ HasIdentity(c)
                      /\ \A r \in Root : client[s].seqs[r] <= c.seqs[r]
                      /\ Keeps(client[s], c)
    OBVIOUS
  <2>1. CASE HasIdentity(b)
    <3>1. /\ b.identity \in Identity /\ ValidIdentity(b.identity)
          /\ CanMerge(client[s].identity, b.identity)
      BY <1>1, <1>2, <2>1 DEF CanSync, ValidBundle, Bundle, HasIdentity
    <3>2. PICK m : m = Merged(client[s], b.identity)
      OBVIOUS
    <3>3. /\ HasIdentity(m) /\ Keeps(client[s], m)
          /\ \A r \in Root : client[s].seqs[r] <= m.seqs[r]
      BY <1>2, <3>1, <3>2, MergedGrows
    <3>4. c.identity = m.identity /\ c.seqs = m.seqs
      BY <1>4, <2>1, <3>2
    <3>5. QED
      BY <1>4, <3>3, <3>4 DEF Keeps, HasIdentity
  <2>2. CASE ~HasIdentity(b)
    <3>1. \A r \in Root : client[s].seqs[r] <= c.seqs[r]
      BY <1>2, <1>4, <2>2, ClientConstants DEF Contents, Counters
    <3>2. QED
      BY <1>4, <2>2, <3>1 DEF Keeps, HasIdentity
  <2>3. QED
    BY <2>1, <2>2
<1>6. Becomes(s, c) /\ Grows(client[s], c)
  BY <1>1, <1>3, <1>5 DEF Grows
<1>7. s \in dropped \/ ( /\ HasIdentity(c) \/ issued[s] = {}
                         /\ \A e \in issued[s] : e.seq <= c.seqs[e.root])
  BY <1>4, <1>5, StillCounted
<1>8. ClientInv'
  <2>1. /\ drawn' \subseteq Root \cup Device
        /\ UNCHANGED <<bundles, issued>> /\ dropped' = dropped
    BY DEF ImportSync, ClientInv, TypeOK
  <2>2. QED
    BY <1>4, <1>6, <1>7, <2>1, OneStoreChanges
<1>9. QED
  BY <1>6, <1>8, OthersGrow

(* A snapshot without an identity may leave the counters behind the events *)
(* of later; one with an identity may not (restore_store_snapshot).        *)
LEMMA RestoreSnapshotStep ==
  ASSUME ClientInv, NEW s \in Replica, RestoreSnapshot(s)
  PROVE  ClientInv' /\ \A t \in Replica : Grows(client[t], client'[t])
<1>1. PICK b \in bundles :
        /\ ValidBundle(b)
        /\ Becomes(s, Restored(client[s], b))
        /\ dropped' = IF HasIdentity(b) THEN dropped ELSE dropped \cup {s}
  BY DEF RestoreSnapshot
<1>2. Sound(client[s]) /\ b \in Bundle
  BY DEF ClientInv, TypeOK
<1>3. PICK c : c = Restored(client[s], b)
  OBVIOUS
<1>4. /\ Sound(c) /\ c \in Contents
      /\ HasIdentity(c) <=> HasIdentity(b)
      /\ \A r \in Root : client[s].seqs[r] <= c.seqs[r]
  BY <1>1, <1>2, <1>3, RestoredSound DEF Sound
<1>5. Becomes(s, c) /\ Grows(client[s], c)
  BY <1>1, <1>3, <1>4 DEF Grows
<1>6. s \in dropped' \/ ( /\ HasIdentity(c) \/ issued[s] = {}
                          /\ \A e \in issued[s] : e.seq <= c.seqs[e.root])
  <2>1. CASE ~HasIdentity(b)
    BY <1>1, <2>1
  <2>2. CASE HasIdentity(b)
    BY <1>1, <1>4, <2>2, StillCounted
  <2>3. QED
    BY <2>1, <2>2
<1>7. ClientInv'
  <2>1. /\ drawn' \subseteq Root \cup Device
        /\ UNCHANGED <<bundles, issued>>
        /\ dropped' = dropped \/ dropped' = dropped \cup {s}
    BY <1>1 DEF RestoreSnapshot, ClientInv, TypeOK
  <2>2. QED
    BY <1>4, <1>5, <1>6, <2>1, OneStoreChanges
<1>8. QED
  BY <1>5, <1>7, OthersGrow

-----------------------------------------------------------------------------
(* The theorems *)

LEMMA ClientInit == Init => ClientInv
<1> SUFFICES ASSUME Init
             PROVE  ClientInv
  OBVIOUS
<1>1. Blank \in Contents /\ ~HasIdentity(Blank) /\ Blank.events = {}
  BY ClientConstants DEF Blank, Contents, HasIdentity, Zero, Counters
<1>2. Sound(Blank)
  BY <1>1, SoundFacts
<1>3. TypeOK
  BY <1>1 DEF Init, TypeOK
<1>4. \A s \in Replica : Sound(client[s])
  BY <1>2 DEF Init
<1>5. (\A b \in bundles : ValidBundle(b)) /\ IssuedCounted /\ NoReissue
  BY DEF Init, IssuedCounted, NoReissue
<1>6. QED
  BY <1>3, <1>4, <1>5 DEF ClientInv

LEMMA ClientStep ==
  ASSUME ClientInv, [Next]_vars
  PROVE  ClientInv' /\ \A t \in Replica : Grows(client[t], client'[t])
<1>1. ASSUME NEW s \in Replica,
             \/ CreateRoot(s) \/ AddDevice(s) \/ RevokeDevice(s)
             \/ SetActive(s) \/ AcceptScan(s) \/ Export(s)
             \/ ImportIdentity(s) \/ AcceptPairing(s) \/ ImportSync(s)
             \/ RestoreSnapshot(s)
      PROVE  ClientInv' /\ \A t \in Replica : Grows(client[t], client'[t])
  BY <1>1, CreateRootStep, AddDeviceStep, RevokeDeviceStep, SetActiveStep,
     AcceptScanStep, ExportStep, ImportIdentityStep, AcceptPairingStep,
     ImportSyncStep, RestoreSnapshotStep
<1>2. CASE UNCHANGED vars
  <2>1. ClientInv'
    BY <1>2
    DEF ClientInv, TypeOK, Sound, ValidBundle, IssuedCounted, NoReissue, vars
  <2>2. \A t \in Replica : Grows(client[t], client'[t])
    BY <1>2, UnchangedGrows DEF ClientInv, vars
  <2>3. QED
    BY <2>1, <2>2
<1>3. QED
  BY <1>1, <1>2 DEF Next

(* The invariant holds whatever the replicas do and in whatever order the  *)
(* bundles travel (memory_store.rs).                                       *)
THEOREM ClientInvariant == Spec => []ClientInv
<1>1. ClientInv /\ [Next]_vars => ClientInv'
  BY ClientStep
<1>2. QED
  BY ClientInit, <1>1, PTL DEF Spec

(* Stores, bundles and events are always what their types say, whatever is *)
(* merged or restored (the records of memory_store.rs).                    *)
THEOREM ClientTypeCorrect == Spec => []TypeOK
<1>1. ClientInv => TypeOK
  BY DEF ClientInv
<1>2. QED
  BY ClientInvariant, <1>1, PTL

(* The snapshot of every store is one restore_store_snapshot accepts.      *)
THEOREM SnapshotsStayRestorable == Spec => []SnapshotsRestorable
<1>1. ClientInv => SnapshotsRestorable
  BY DEF ClientInv, Sound, SnapshotsRestorable
<1>2. QED
  BY ClientInvariant, <1>1, PTL

(* No replica gives a number of its root twice, while its counters were    *)
(* never dropped (reserve_next_seq).                                       *)
THEOREM NumbersStayUnique == Spec => []NoReissue
<1>1. ClientInv => NoReissue
  BY DEF ClientInv
<1>2. QED
  BY ClientInvariant, <1>1, PTL

(* A store with an identity moves no counter back and forgets nothing but  *)
(* by a restore, in every step of every replica (import_seq_state).        *)
THEOREM KnowledgeNeverShrinks == Spec => KnowledgeGrows
<1>1. ClientInv /\ [Next]_vars =>
        [\A s \in Replica : HasIdentity(client[s]) =>
           /\ \A r \in Root : client[s].seqs[r] <= client'[s].seqs[r]
           /\ \/ Keeps(client[s], client'[s])
              \/ \E b \in bundles : client'[s] = Restored(client[s], b)]_vars
  BY ClientStep DEF Grows
<1>2. QED
  BY ClientInvariant, <1>1, PTL DEF Spec, KnowledgeGrows

-----------------------------------------------------------------------------
(* Bundles of any age are accepted, and importing them converges.          *)

(* A bundle of the root of a store is accepted by it in both ways.         *)
LEMMA ValidBundleAccepted ==
  ASSUME NEW c, Sound(c), NEW b \in Bundle, ValidBundle(b), SameRoot(c, b)
  PROVE  CanSync(c, b) /\ (HasIdentity(b) => CanImportIdentity(c, b))
<1>1. HasIdentity(b) => b.identity \in Identity /\ ValidIdentity(b.identity)
  BY DEF Bundle, HasIdentity, ValidBundle
<1>2. HasIdentity(b) /\ HasIdentity(c) => CanMerge(c.identity, b.identity)
  BY DEF SameRoot, CanMerge
<1>3. ASSUME HasIdentity(b)
      PROVE  \A e \in c.events : ValidEvent(e, Merged(c, b.identity).identity)
  <2>1. PICK m : m = Merged(c, b.identity)
    OBVIOUS
  <2>2. Sound(m) /\ HasIdentity(m) /\ m.events = c.events
    BY <1>1, <1>2, <1>3, <2>1, MergedSound
  <2>3. \A e \in m.events : ValidEvent(e, m.identity)
    BY <2>2, SoundFacts DEF Sound
  <2>4. QED
    BY <2>1, <2>2, <2>3
<1>4. QED
  BY <1>1, <1>2, <1>3 DEF CanSync, CanImportIdentity

(* Whatever circulates is accepted by every replica of its root, however   *)
(* stale it is (decode_sync_bundle, identity_import_bundle).               *)
THEOREM BundlesStayAccepted == Spec => []BundlesAccepted
<1>1. ClientInv => BundlesAccepted
  BY ValidBundleAccepted DEF ClientInv, TypeOK, BundlesAccepted
<1>2. QED
  BY ClientInvariant, <1>1, PTL

(* The identity after an import, part by part (merge_identity_bundle).     *)
LEMMA MergedParts ==
  ASSUME NEW c, Sound(c), NEW in \in Identity, ValidIdentity(in),
         HasIdentity(c) => CanMerge(c.identity, in)
  PROVE  LET id == Merged(c, in).identity IN
         /\ id \in Identity /\ ValidIdentity(id) /\ id.root = in.root
         /\ HasIdentity(c) =>
              /\ id.devices = c.identity.devices \cup in.devices
              /\ id.revoked = c.identity.revoked \cup in.revoked
              /\ id.seq = Maxima(c.identity.seq, in.seq)
         /\ ~HasIdentity(c) => id = in
         /\ in.devices \subseteq id.devices /\ in.revoked \subseteq id.revoked
         /\ Maxima(id.seq, in.seq) = id.seq /\ Maxima(in.seq, id.seq) = id.seq
<1> DEFINE id == Merged(c, in).identity
<1>1. /\ Sound(Merged(c, in)) /\ HasIdentity(Merged(c, in))
      /\ Merged(c, in).identity \in Identity /\ ValidIdentity(id)
      /\ HasIdentity(c) => id = MergedIdentity(c.identity, in)
      /\ ~HasIdentity(c) => id = in
      /\ KnowsMore(id, in)
  BY MergedSound, SoundFacts DEF Sound
<1> HIDE DEF id
<1>2. HasIdentity(c) =>
        /\ c.identity \in Identity
        /\ id.devices = c.identity.devices \cup in.devices
        /\ id.revoked = c.identity.revoked \cup in.revoked
        /\ id.seq = Maxima(c.identity.seq, in.seq)
  BY <1>1, MergedFacts DEF Sound, Contents, HasIdentity
<1>3. Maxima(id.seq, in.seq) = id.seq /\ Maxima(in.seq, id.seq) = id.seq
  <2>1. CASE HasIdentity(c)
    BY <1>2, <2>1, MaximaFacts DEF Identity
  <2>2. CASE ~HasIdentity(c)
    BY <1>1, <2>2, MaximaFacts DEF Identity
  <2>3. QED
    BY <2>1, <2>2
<1>4. QED
  BY <1>1, <1>2, <1>3 DEF KnowsMore, id

(* Two replicas of one root agree after they synced both ways.             *)
LEMMA SyncedBothWays ==
  ASSUME NEW c, Sound(c), NEW k, Sound(k), HasIdentity(k), SameRoot(c, k)
  PROVE  LET x == Synced(c, Exported(k))
             y == Synced(k, Exported(x))
         IN SameKnowledge(x, y)
<1>1. PICK b \in Bundle : b = Exported(k) /\ ValidBundle(b)
  BY ExportedFacts
<1>2. /\ b.identity = k.identity /\ b.scans = k.scans /\ b.events = k.events
      /\ HasIdentity(b)
  BY <1>1 DEF Exported, HasIdentity
<1>3. CanSync(c, b)
  BY <1>1, <1>2, ValidBundleAccepted DEF SameRoot
<1>4. k.identity \in Identity /\ ValidIdentity(k.identity)
  BY SoundFacts DEF Sound
<1>5. HasIdentity(c) => CanMerge(c.identity, k.identity)
  BY <1>2, <1>3 DEF CanSync
<1>6. PICK x : x = Synced(c, b)
  OBVIOUS
<1>7. /\ Sound(x) /\ x.scans = c.scans \cup k.scans
      /\ x.events = c.events \cup k.events
      /\ x.identity = Merged(c, k.identity).identity
  BY <1>2, <1>3, <1>6, SyncedSound
<1>8. /\ x.identity \in Identity /\ ValidIdentity(x.identity)
      /\ x.identity.root = k.identity.root
      /\ k.identity.devices \subseteq x.identity.devices
      /\ k.identity.revoked \subseteq x.identity.revoked
      /\ Maxima(k.identity.seq, x.identity.seq) = x.identity.seq
  BY <1>4, <1>5, <1>7, MergedParts
<1>9. PICK d \in Bundle : d = Exported(x) /\ ValidBundle(d)
  BY <1>7, ExportedFacts
<1>10. /\ d.identity = x.identity /\ d.scans = x.scans /\ d.events = x.events
       /\ HasIdentity(d) /\ HasIdentity(x)
  BY <1>8, <1>9, NoIdentityIsNone DEF Exported, HasIdentity
<1>11. CanSync(k, d) /\ CanMerge(k.identity, x.identity)
  BY <1>8, <1>9, <1>10 DEF CanSync, CanMerge
<1>12. PICK y : y = Synced(k, d)
  OBVIOUS
<1>13. /\ Sound(y) /\ y.scans = k.scans \cup x.scans
       /\ y.events = k.events \cup x.events
       /\ y.identity = Merged(k, x.identity).identity
  BY <1>10, <1>11, <1>12, SyncedSound
<1>14. /\ y.identity \in Identity
       /\ y.identity.devices = k.identity.devices \cup x.identity.devices
       /\ y.identity.revoked = k.identity.revoked \cup x.identity.revoked
       /\ y.identity.seq = Maxima(k.identity.seq, x.identity.seq)
  BY <1>8, <1>11, <1>13, MergedParts
<1>15. HasIdentity(y)
  BY <1>14, NoIdentityIsNone DEF HasIdentity
<1>16. SameKnowledge(x, y)
  BY <1>7, <1>8, <1>10, <1>13, <1>14, <1>15 DEF SameKnowledge
<1>17. QED
  BY <1>1, <1>6, <1>9, <1>12, <1>16

(* Two replicas that sync both ways, whatever each has missed so far, know *)
(* the same (sync_import_bundle).                                          *)
THEOREM SyncAlwaysConverges == Spec => []SyncConverges
<1>1. ClientInv => SyncConverges
  BY SyncedBothWays DEF ClientInv, SyncConverges
<1>2. QED
  BY ClientInvariant, <1>1, PTL

(* An identity into which another was merged before is left alone by it.   *)
LEMMA MergedTwice ==
  ASSUME NEW id \in Identity, NEW in \in Identity, ValidIdentity(id),
         id.root = in.root, in.devices \subseteq id.devices,
         in.revoked \subseteq id.revoked, Maxima(id.seq, in.seq) = id.seq
  PROVE  MergedIdentity(id, in) = id
<1> DEFINE D == id.devices \cup in.devices
           R == id.revoked \cup in.revoked
<1>1. D = id.devices /\ R = id.revoked
  OBVIOUS
<1> HIDE DEF D, R
<1>2. PICK k : k = MergedKeys(id, in)
  OBVIOUS
<1>3. /\ k \in Identity /\ k.root = id.root /\ k.active = id.active
      /\ k.devices = id.devices /\ k.revoked = id.revoked /\ k.seq = id.seq
  BY <1>1, <1>2, MergedKeysFacts DEF D, R
<1>4. k = id
  BY <1>3, SameIdentity
<1>5. PICK m : m = MergedIdentity(id, in)
  OBVIOUS
<1>6. /\ m \in Identity /\ m.root = id.root
      /\ m.devices = id.devices /\ m.revoked = id.revoked /\ m.seq = id.seq
      /\ m.active = id.active
  <2>1. CanMerge(id, in) /\ IsAuthorized(MergedKeys(id, in), id.active)
    BY <1>2, <1>4 DEF CanMerge, ValidIdentity
  <2>2. /\ m \in Identity /\ m.root = id.root /\ m.devices = D /\ m.revoked = R
        /\ m.seq = Maxima(id.seq, in.seq) /\ m.active = id.active
    BY <1>5, <2>1, MergedFacts DEF D, R
  <2>3. QED
    BY <1>1, <2>2
<1>7. QED
  BY <1>5, <1>6, SameIdentity

LEMMA SyncedTwice ==
  ASSUME NEW c, Sound(c), NEW b \in Bundle, CanSync(c, b)
  PROVE  LET x == Synced(c, b) IN CanSync(x, b) /\ Synced(x, b) = x
<1>1. PICK x : x = Synced(c, b)
  OBVIOUS
<1>2. /\ Sound(x) /\ x \in Contents
      /\ x.scans = c.scans \cup b.scans /\ x.events = c.events \cup b.events
      /\ HasIdentity(b) => x.identity = Merged(c, b.identity).identity
  BY <1>1, SyncedSound DEF Sound
<1>3. HasIdentity(b) =>
        /\ b.identity \in Identity
        /\ HasIdentity(x) /\ x.identity \in Identity
        /\ ValidIdentity(x.identity) /\ x.identity.root = b.identity.root
        /\ MergedIdentity(x.identity, b.identity) = x.identity
  <2> SUFFICES ASSUME HasIdentity(b)
               PROVE  /\ b.identity \in Identity
                      /\ HasIdentity(x) /\ x.identity \in Identity
                      /\ ValidIdentity(x.identity)
                      /\ x.identity.root = b.identity.root
                      /\ MergedIdentity(x.identity, b.identity) = x.identity
    OBVIOUS
  <2>1. /\ b.identity \in Identity /\ ValidIdentity(b.identity)
        /\ HasIdentity(c) => CanMerge(c.identity, b.identity)
    BY DEF Bundle, HasIdentity, CanSync, ValidBundle
  <2>2. /\ x.identity \in Identity /\ ValidIdentity(x.identity)
        /\ x.identity.root = b.identity.root
        /\ b.identity.devices \subseteq x.identity.devices
        /\ b.identity.revoked \subseteq x.identity.revoked
        /\ Maxima(x.identity.seq, b.identity.seq) = x.identity.seq
    BY <1>2, <2>1, MergedParts
  <2>3. HasIdentity(x)
    BY <2>2, NoIdentityIsNone DEF HasIdentity
  <2>4. QED
    BY <2>1, <2>2, <2>3, MergedTwice
<1>4. CanSync(x, b)
  BY <1>3 DEF CanSync, CanMerge
<1>5. PICK y : y = Synced(x, b)
  OBVIOUS
<1>6. /\ Sound(y) /\ y \in Contents
      /\ y.scans = x.scans \cup b.scans /\ y.events = x.events \cup b.events
      /\ HasIdentity(b) => y.identity = Merged(x, b.identity).identity
      /\ ~HasIdentity(b) => y.identity = x.identity /\ y.seqs = x.seqs
  BY <1>2, <1>4, <1>5, SyncedSound DEF Sound
<1>7. y.identity = x.identity /\ y.seqs = x.seqs
  <2>1. CASE HasIdentity(b)
    <3>1. y.identity = MergedIdentity(x.identity, b.identity)
      BY <1>2, <1>3, <1>4, <1>6, <2>1, MergedSound DEF CanSync, ValidBundle
    <3>2. HasIdentity(y)
      BY <1>3, <2>1, <3>1 DEF HasIdentity
    <3>3. QED
      BY <1>2, <1>3, <1>6, <2>1, <3>1, <3>2 DEF Sound
  <2>2. CASE ~HasIdentity(b)
    BY <1>6, <2>2
  <2>3. QED
    BY <2>1, <2>2
<1>8. y = x
  BY <1>2, <1>6, <1>7, SameContents
<1>9. QED
  BY <1>1, <1>4, <1>5, <1>8

(* A sync bundle that was imported can be imported again, and then changes *)
(* nothing (sync_import_bundle).                                           *)
THEOREM RepeatedSyncStaysIdle == Spec => []RepeatedSyncIsIdle
<1>1. ClientInv => RepeatedSyncIsIdle
  BY SyncedTwice DEF ClientInv, TypeOK, RepeatedSyncIsIdle
<1>2. QED
  BY ClientInvariant, <1>1, PTL

=============================================================================
