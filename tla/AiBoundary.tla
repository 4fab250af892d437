---------------------------- MODULE AiBoundary ----------------------------
(***************************************************************************)
(* The AI sidecar of core/ts/grain-sdk-ai (accept.ts, token_registry.ts)   *)
(* over the store of SdkStore: a candidate that is accepted becomes an     *)
(* object that nobody can store but with the token accept() returns, which *)
(* is good for one call of applyAccepted() and for a limited time.         *)
(*                                                                         *)
(* Both run without an await until the store is called, and the store in   *)
(* memory writes at once: each is one step, at any point between the steps *)
(* of the store's other calls.  A candidate is the content identifier of   *)
(* its canonical bytes; one that is rejected or quarantined before it gets *)
(* a token changes nothing and is left out.                                *)
(*                                                                         *)
(* Definitions whose name begins with Faulty are no part of the model.     *)
(***************************************************************************)
EXTENDS SdkStore

LOCAL S == INSTANCE Sequences

CONSTANTS
  MaxPending,  \* max_pending
  Ttl,         \* ttl_ms
  MaxTokens,   \* bound: tokens issued
  MaxNow       \* bound: the clock

ASSUME AiConstants == {MaxPending, Ttl, MaxTokens, MaxNow} \subseteq Nat

VARIABLES
  entries,  \* entries of the AcceptedTokenRegistry
  tokens,   \* the tokens issued, with how often each gave its payload
  now,      \* now_ms()
  lone      \* history: objects applied while no section was open

allVars == <<vars, entries, tokens, now, lone>>

Entry == [id : 1..MaxTokens, cid : Object, expires : Nat]
Token == [cid : Object, issued : 0..MaxNow, used : Nat]

AiTypeOK ==
  /\ entries \subseteq Entry
  /\ tokens \in S!Seq(Token) /\ S!Len(tokens) <= MaxTokens
  /\ now \in 0..MaxNow
  /\ lone \subseteq Object

AiInit ==
  /\ Init
  /\ entries = {} /\ tokens = <<>> /\ now = 0 /\ lone = {}

(* cleanup; consumed entries are removed by the consume that marks them.   *)
FaultyCleanup == {e \in entries : now < e.expires}
Cleanup == {e \in entries : now <= e.expires}

(* accept, issue: a full registry refuses, after it has been cleaned up.   *)
Accept(o) ==
  LET id == S!Len(tokens) + 1
      full == Cardinality(Cleanup) >= MaxPending
  IN  /\ \/ full /\ entries' = Cleanup /\ UNCHANGED tokens
         \/ /\ ~full /\ id <= MaxTokens
            /\ entries' = Cleanup \cup
                 {[id |-> id, cid |-> o, expires |-> now + Ttl]}
            /\ tokens' = S!Append(tokens,
                           [cid |-> o, issued |-> now, used |-> 0])
      /\ UNCHANGED <<vars, now, lone>>

(* applyAccepted: consume, then putObject, which may throw.  An expired    *)
(* token is forgotten; an unknown one changes nothing.                     *)
Put(o) ==
  \/ /\ store' = [store EXCEPT !.objects = @ \cup {o}]
     /\ lone' = IF depth = 0 THEN lone \cup {o} ELSE lone
  \/ UNCHANGED <<store, lone>>

Apply(e) ==
  /\ now <= e.expires
  /\ entries' = Cleanup \ {e}
  /\ tokens' = [tokens EXCEPT ![e.id].used = @ + 1]
  /\ Put(e.cid)
  /\ UNCHANGED <<depth, saved, call, files, drawn, faults, before, now>>

ApplyExpired(e) ==
  /\ e.expires < now
  /\ entries' = entries \ {e}
  /\ UNCHANGED <<vars, tokens, now, lone>>

Tick ==
  /\ now < MaxNow /\ now' = now + 1
  /\ UNCHANGED <<vars, entries, tokens, lone>>

(* What the other parts of the SDK do meanwhile. *)
SdkStep == Next /\ UNCHANGED <<entries, tokens, now, lone>>

AiNext ==
  \/ \E o \in Object : Accept(o)
  \/ \E e \in entries : Apply(e) \/ ApplyExpired(e)
  \/ Tick \/ SdkStep

AiSpec == AiInit /\ [][AiNext]_allVars

-----------------------------------------------------------------------------
(* Every token is good for exactly one call: its payload is handed out at  *)
(* most once, whether or not the store then fails; and until then, and as  *)
(* long as it has not expired, it is kept with the payload it was issued   *)
(* for, however many candidates a full registry refuses and however many   *)
(* other tokens are used or expire (issue, consume, cleanup).              *)
TokenGoodForOnce ==
  /\ Cardinality(entries) <= MaxPending
  /\ \A i \in DOMAIN tokens :
       LET t == tokens[i]
           kept == \E e \in entries : e.id = i /\ e.cid = t.cid
       IN  /\ t.used <= 1
           /\ t.used = 0 /\ now <= t.issued + Ttl => kept
           /\ t.used = 1 => ~kept

(* What was applied while no section was open stays, whatever sections     *)
(* begin, overlap and fail later (captureSnapshot, restoreSnapshot).  What *)
(* is applied during a section is lost when its outermost call fails.      *)
AppliedStays == lone \subseteq store.objects
=============================================================================
