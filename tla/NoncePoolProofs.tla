-------------------------- MODULE NoncePoolProofs --------------------------
(***************************************************************************)
(* Proofs of the safety properties of NoncePool, for every number of       *)
(* calls, chutes and instances and every set of answers of the server.     *)
(***************************************************************************)
EXTENDS NoncePool, SequenceTheorems, TLAPS

(***************************************************************************)
(* Facts about the operators                                               *)
(***************************************************************************)

\* The lifetime doRefresh gives a batch is a number of seconds.
LEMMA EffectiveTTLType == \A ttl \in Int : EffectiveTTL(ttl) \in Int
  BY BoundAssumption DEF EffectiveTTL, ClampTTL

\* Above twice the margin, the lifetime is cut by at least the margin: the
\* clamp to MaxTTL never undoes it, because MaxTTL is above twice the margin.
LEMMA EffectiveTTLMargin ==
  \A ttl \in Int : ttl > 2 * SafetyMargin => EffectiveTTL(ttl) <= ttl - SafetyMargin
  BY BoundAssumption DEF EffectiveTTL, ClampTTL

\* The batch built from an answer is a sequence of instances.
LEMMA PoolInstancesType ==
  \A r \in Responses : PoolInstances(r) \in Seq(PoolInstance)
<1> SUFFICES ASSUME NEW r \in Responses
             PROVE  PoolInstances(r) \in Seq(PoolInstance)
  OBVIOUS
<1>1. r.instances \in Seq(ListedInstance)
  BY ResponsesAssumption DEF Response
<1>2. Len(r.instances) \in Nat
  BY <1>1
<1>3. \A i \in 1 .. Len(r.instances) : r.instances[i] \in ListedInstance
  BY <1>1, ElementOfSeq
<1>4. \A i \in 1 .. Len(r.instances) : PoolInstances(r)[i] \in PoolInstance
  BY <1>3 DEF PoolInstances, PoolInstance, ListedInstance, FirstNonce
<1>5. PoolInstances(r) \in [1 .. Len(r.instances) -> PoolInstance]
  BY <1>4 DEF PoolInstances
<1> QED
  BY <1>2, <1>5, SeqDef

\* Every instance of such a batch that has nonces has a key.
LEMMA PoolInstancesKeyed ==
  \A r \in Responses : \A i \in DOMAIN PoolInstances(r) :
    PoolInstances(r)[i].next <= PoolInstances(r)[i].count
      => PoolInstances(r)[i].key # NoKey
<1> SUFFICES ASSUME NEW r \in Responses, NEW i \in DOMAIN PoolInstances(r),
                    PoolInstances(r)[i].next <= PoolInstances(r)[i].count
             PROVE  PoolInstances(r)[i].key # NoKey
  OBVIOUS
<1>1. E2EECapable(r.instances[i])
  BY DEF PoolInstances, FirstNonce
<1> QED
  BY <1>1 DEF PoolInstances, E2EECapable

(***************************************************************************)
(* What take does                                                          *)
(***************************************************************************)

\* take returning material, seen from outside: one call gets the head of one
\* instance's list of one live batch, whose head advances; every other batch,
\* and every other list of this one, stays as it is.
LEMMA TakeNonceEffect ==
  ASSUME TypeOK, NEW t \in Takers, chute[t] \in Chutes, TakeNonce(t)
  PROVE  \E i \in DOMAIN pools[chute[t]].instances :
           LET c == chute[t]
               inst == pools[c].instances[i]
           IN  /\ pools[c] # None /\ pools[c] \in Batch
               /\ now <= pools[c].expiresAt
               /\ inst \in PoolInstance
               /\ inst.next <= inst.count
               /\ got' = [got EXCEPT ![t] =
                           [no |-> pools[c].no, index |-> i, pos |-> inst.next,
                            id |-> inst.id, key |-> inst.key, at |-> now,
                            issuedAt |-> pools[c].issuedAt,
                            nonceExpIn |-> pools[c].nonceExpIn,
                            installedAt |-> pools[c].installedAt]]
               /\ pools' = [pools EXCEPT ![c] =
                    [pools[c] EXCEPT !.instances =
                       [pools[c].instances EXCEPT ![i] = [inst EXCEPT !.next = @ + 1]]]]
<1> DEFINE c == chute[t]
<1>1. pools[c] # None /\ now <= pools[c].expiresAt
  BY DEF TakeNonce, Live
<1>2. pools[c] \in Batch
  BY <1>1 DEF TypeOK
<1>3. PICK i \in Usable(c) :
        /\ got' = [got EXCEPT ![t] =
                    [no |-> pools[c].no, index |-> i, pos |-> pools[c].instances[i].next,
                     id |-> pools[c].instances[i].id, key |-> pools[c].instances[i].key,
                     at |-> now, issuedAt |-> pools[c].issuedAt,
                     nonceExpIn |-> pools[c].nonceExpIn,
                     installedAt |-> pools[c].installedAt]]
        /\ pools' = [pools EXCEPT ![c].instances[i] = Popped(pools[c].instances[i])]
  BY DEF TakeNonce
<1>4. i \in DOMAIN pools[c].instances /\ pools[c].instances[i].next <= pools[c].instances[i].count
  BY DEF Usable
<1>5. pools[c].instances[i] \in PoolInstance
  BY <1>2, <1>4 DEF Batch
<1> QED
  BY <1>1, <1>2, <1>3, <1>4, <1>5 DEF Popped

\* What take returns is material.
LEMMA TakeMaterial ==
  ASSUME TypeOK, NEW t \in Takers, chute[t] \in Chutes, TakeNonce(t)
  PROVE  \E m \in Material : got' = [got EXCEPT ![t] = m]
<1> DEFINE c == chute[t]
<1>1. PICK i \in DOMAIN pools[c].instances :
        /\ pools[c] \in Batch
        /\ pools[c].instances[i] \in PoolInstance
        /\ got' = [got EXCEPT ![t] =
                    [no |-> pools[c].no, index |-> i, pos |-> pools[c].instances[i].next,
                     id |-> pools[c].instances[i].id, key |-> pools[c].instances[i].key, at |-> now,
                     issuedAt |-> pools[c].issuedAt, nonceExpIn |-> pools[c].nonceExpIn,
                     installedAt |-> pools[c].installedAt]]
  BY TakeNonceEffect
<1> DEFINE inst == pools[c].instances[i]
           m == [no |-> pools[c].no, index |-> i, pos |-> inst.next, id |-> inst.id, key |-> inst.key,
                 at |-> now, issuedAt |-> pools[c].issuedAt, nonceExpIn |-> pools[c].nonceExpIn,
                 installedAt |-> pools[c].installedAt]
<1>2. i \in Nat /\ now \in Nat
  BY <1>1, BoundAssumption DEF TypeOK, Batch
<1>3. m \in Material
  BY <1>1, <1>2 DEF Material, Batch, PoolInstance
<1>4. got' = [got EXCEPT ![t] = m]
  BY <1>1
<1> HIDE DEF m
<1> QED
  BY <1>3, <1>4

\* take keeps the types of what it touches, whether or not it finds a nonce.
LEMMA TakeType ==
  ASSUME TypeOK, NEW t \in Takers, chute[t] \in Chutes, TakeNonce(t) \/ TakeNothing(t)
  PROVE  /\ pools' \in [Chutes -> Batch \cup {None}]
         /\ got' \in [Takers -> Material \cup {None}]
<1>1. CASE TakeNothing(t)
  BY <1>1 DEF TakeNothing, TypeOK
<1>2. CASE TakeNonce(t)
  <2> DEFINE c == chute[t]
  <2>1. PICK i \in DOMAIN pools[c].instances :
          LET inst == pools[c].instances[i]
          IN  /\ pools[c] \in Batch
              /\ inst \in PoolInstance
              /\ got' = [got EXCEPT ![t] =
                          [no |-> pools[c].no, index |-> i, pos |-> inst.next,
                           id |-> inst.id, key |-> inst.key, at |-> now,
                           issuedAt |-> pools[c].issuedAt,
                           nonceExpIn |-> pools[c].nonceExpIn,
                           installedAt |-> pools[c].installedAt]]
              /\ pools' = [pools EXCEPT ![c] =
                   [pools[c] EXCEPT !.instances =
                      [pools[c].instances EXCEPT ![i] = [inst EXCEPT !.next = @ + 1]]]]
    BY <1>2, TakeNonceEffect
  <2> DEFINE inst == pools[c].instances[i]
             insts == [pools[c].instances EXCEPT ![i] = [inst EXCEPT !.next = @ + 1]]
  <2>2. pools[c].instances \in Seq(PoolInstance) /\ i \in 1 .. Len(pools[c].instances)
    BY <2>1 DEF Batch
  <2>3. [inst EXCEPT !.next = @ + 1] \in PoolInstance
    BY <2>1 DEF PoolInstance
  <2>4. insts \in Seq(PoolInstance)
    BY <2>2, <2>3, ExceptSeq
  <2>5. [pools[c] EXCEPT !.instances = insts] \in Batch
    <3> HIDE DEF insts
    <3> QED BY <2>1, <2>4 DEF Batch
  <2>6. pools' \in [Chutes -> Batch \cup {None}]
    BY <2>1, <2>5 DEF TypeOK
  <2>7. got' \in [Takers -> Material \cup {None}]
    BY <1>2, TakeMaterial DEF TypeOK
  <2> QED
    BY <2>6, <2>7
<1> QED
  BY <1>1, <1>2

(***************************************************************************)
(* The type invariant                                                      *)
(***************************************************************************)

\* A leader that has not cached its batch holds one.
HeldInv == \A t \in Takers : Holds(t) => batch[t] \in Batch

\* The type invariant is inductive with the chutes of the calls under way and
\* the batches of the leaders.
LEMMA TypeInvariant ==
  TypeOK /\ CallInv /\ HeldInv /\ [Next]_vars => TypeOK'
<1> SUFFICES ASSUME TypeOK, CallInv, HeldInv, [Next]_vars
             PROVE  TypeOK'
  OBVIOUS
<1>1. CASE UNCHANGED vars
  BY <1>1 DEF TypeOK, vars
<1>2. ASSUME NEW t \in Takers, Resolve(t) PROVE TypeOK'
  BY <1>2 DEF Resolve, TypeOK, PCs
<1>3. ASSUME NEW t \in Takers, FastTake(t) PROVE TypeOK'
  <2>1. chute[t] \in Chutes
    BY <1>3 DEF FastTake, CallInv
  <2>2. /\ pools' \in [Chutes -> Batch \cup {None}]
        /\ got' \in [Takers -> Material \cup {None}]
    BY <1>3, <2>1, TakeType DEF FastTake
  <2>3. pc' \in [Takers -> PCs]
    BY <1>3 DEF FastTake, TypeOK, PCs
  <2> QED
    BY <1>3, <2>2, <2>3 DEF FastTake, TypeOK
<1>4. ASSUME NEW t \in Takers, Join(t) PROVE TypeOK'
  <2>1. CASE MayLead(chute[t])
    <3>1. chute[t] \in Chutes
      BY <1>4 DEF Join, CallInv
    <3>2. << >> \in Seq(PoolInstance) /\ fetches + 1 \in Nat /\ now \in Nat
      BY BoundAssumption DEF TypeOK
    <3> DEFINE b == [no |-> fetches + 1, instances |-> << >>, expiresAt |-> 0,
                     issuedAt |-> now, nonceExpIn |-> 0, installedAt |-> now]
    <3>3. b \in Batch
      BY <3>2 DEF Batch
    <3>4. /\ batch' = [batch EXCEPT ![t] = b]
          /\ pc' = [pc EXCEPT ![t] = "fetch"]
          /\ flight' = [flight EXCEPT ![chute[t]] = t]
          /\ fetches' = fetches + 1
      BY <1>4, <2>1 DEF Join
    <3>5. batch' \in [Takers -> Batch \cup {None}]
      <4> HIDE DEF b
      <4> QED BY <3>3, <3>4 DEF TypeOK
    <3>6. pc' \in [Takers -> PCs] /\ flight' \in [Chutes -> Takers \cup {None}]
      BY <3>1, <3>4 DEF TypeOK, PCs
    <3> QED
      BY <1>4, <3>2, <3>4, <3>5, <3>6 DEF Join, TypeOK
  <2>2. CASE ~MayLead(chute[t])
    BY <1>4, <2>2 DEF Join, TypeOK, PCs
  <2> QED
    BY <2>1, <2>2
<1>5. ASSUME NEW t \in Takers, Fetch(t) PROVE TypeOK'
  <2>1. PICK r \in Responses \cup {FetchError} :
          \/ /\ Acceptable(r)
             /\ batch' = [batch EXCEPT ![t].instances = PoolInstances(r),
                                       ![t].nonceExpIn = r.nonceExpIn,
                                       ![t].issuedAt = now]
             /\ pc' = [pc EXCEPT ![t] = "install"]
          \/ /\ batch' = [batch EXCEPT ![t] = None]
             /\ pc' = [pc EXCEPT ![t] = "broken"]
    BY <1>5 DEF Fetch
  <2>2. batch' \in [Takers -> Batch \cup {None}]
    <3>1. CASE batch' = [batch EXCEPT ![t] = None]
      BY <3>1 DEF TypeOK
    <3>2. CASE Acceptable(r) /\ batch' = [batch EXCEPT ![t].instances = PoolInstances(r),
                                                       ![t].nonceExpIn = r.nonceExpIn,
                                                       ![t].issuedAt = now]
      <4>1. r \in Responses
        BY <3>2 DEF Acceptable
      <4>2. PoolInstances(r) \in Seq(PoolInstance) /\ r.nonceExpIn \in Int /\ now \in Nat
        BY <4>1, PoolInstancesType, ResponsesAssumption, BoundAssumption DEF Response, TypeOK
      <4>3. batch[t] \in Batch
        BY <1>5 DEF Fetch, HeldInv, Holds
      <4>4. [batch[t] EXCEPT !.instances = PoolInstances(r), !.nonceExpIn = r.nonceExpIn,
                             !.issuedAt = now] \in Batch
        BY <4>2, <4>3 DEF Batch
      <4> QED
        BY <3>2, <4>4 DEF TypeOK
    <3> QED
      BY <2>1, <3>1, <3>2
  <2>3. pc' \in [Takers -> PCs]
    BY <2>1 DEF TypeOK, PCs
  <2> QED
    BY <1>5, <2>2, <2>3 DEF Fetch, TypeOK
<1>6. ASSUME NEW t \in Takers, Install(t) PROVE TypeOK'
  <2> DEFINE b == [batch[t] EXCEPT !.installedAt = now,
                                   !.expiresAt = now + EffectiveTTL(batch[t].nonceExpIn)]
  <2>1. chute[t] \in Chutes /\ batch[t] \in Batch
    BY <1>6 DEF Install, CallInv, HeldInv, Holds
  <2>2. now \in Nat /\ EffectiveTTL(batch[t].nonceExpIn) \in Int
    BY <2>1, EffectiveTTLType, BoundAssumption DEF TypeOK, Batch
  <2>3. b \in Batch
    <3>1. \A x \in Int : [batch[t] EXCEPT !.installedAt = now, !.expiresAt = x] \in Batch
      BY <2>1, <2>2 DEF Batch
    <3>2. now + EffectiveTTL(batch[t].nonceExpIn) \in Int
      BY <2>2
    <3> QED
      BY <3>1, <3>2
  <2>4. pools' = [pools EXCEPT ![chute[t]] = b]
    BY <1>6 DEF Install
  <2>5. pools' \in [Chutes -> Batch \cup {None}]
    <3> HIDE DEF b
    <3> QED BY <2>3, <2>4 DEF TypeOK
  <2> QED
    BY <1>6, <2>5 DEF Install, TypeOK, PCs
<1>7. ASSUME NEW t \in Takers, EndFlight(t) PROVE TypeOK'
  BY <1>7 DEF EndFlight, TypeOK, PCs
<1>8. ASSUME NEW t \in Takers, Retake(t) PROVE TypeOK'
  <2>1. chute[t] \in Chutes
    BY <1>8 DEF Retake, CallInv
  <2>2. /\ pools' \in [Chutes -> Batch \cup {None}]
        /\ got' \in [Takers -> Material \cup {None}]
    BY <1>8, <2>1, TakeType DEF Retake
  <2>3. pc' \in [Takers -> PCs]
    BY <1>8 DEF Retake, TypeOK, PCs
  <2> QED
    BY <1>8, <2>2, <2>3 DEF Retake, TypeOK
<1>9. ASSUME NEW c \in Chutes, NEW i \in Instances, MarkFailed(c, i) PROVE TypeOK'
  <2>1. failures' \in [Chutes -> [Instances -> 0 .. MaxFailures]]
    BY <1>9, BoundAssumption DEF MarkFailed, TypeOK
  <2> QED
    BY <1>9, <2>1 DEF MarkFailed, TypeOK
<1>10. ASSUME NEW c \in Chutes, Invalidate(c) PROVE TypeOK'
  BY <1>10, BoundAssumption DEF Invalidate, TypeOK
<1>11. CASE Tick
  BY <1>11, BoundAssumption DEF Tick, TypeOK
<1> QED
  BY <1>1, <1>2, <1>3, <1>4, <1>5, <1>6, <1>7, <1>8, <1>9, <1>10, <1>11 DEF Next, Step

(***************************************************************************)
(* Calls and leaders                                                       *)
(***************************************************************************)

\* Only take changes what a call has got, and it ends the call.
LEMMA CallInvariant ==
  TypeOK /\ CallInv /\ [Next]_vars => CallInv'
<1> SUFFICES ASSUME TypeOK, CallInv, [Next]_vars
             PROVE  CallInv'
  OBVIOUS
<1> USE DEF TypeOK, CallInv
<1>1. CASE UNCHANGED vars
  BY <1>1 DEF vars
<1>2. ASSUME NEW t \in Takers, Resolve(t) PROVE CallInv'
  BY <1>2 DEF Resolve
<1>3. ASSUME NEW t \in Takers, FastTake(t) PROVE CallInv'
  <2>1. CASE TakeNonce(t) /\ pc' = [pc EXCEPT ![t] = "done"]
    <3>1. \A u \in Takers : u # t => got'[u] = got[u]
      BY <2>1 DEF TakeNonce
    <3> QED
      BY <1>3, <2>1, <3>1 DEF FastTake
  <2>2. CASE TakeNothing(t) /\ pc' = [pc EXCEPT ![t] = "join"]
    BY <1>3, <2>2 DEF FastTake, TakeNothing
  <2> QED
    BY <1>3, <2>1, <2>2 DEF FastTake
<1>4. ASSUME NEW t \in Takers, Join(t) PROVE CallInv'
  BY <1>4 DEF Join
<1>5. ASSUME NEW t \in Takers, Fetch(t) PROVE CallInv'
  <2>1. pc' = [pc EXCEPT ![t] = "install"] \/ pc' = [pc EXCEPT ![t] = "broken"]
    BY <1>5 DEF Fetch
  <2> QED
    BY <1>5, <2>1 DEF Fetch
<1>6. ASSUME NEW t \in Takers, Install(t) PROVE CallInv'
  BY <1>6 DEF Install
<1>7. ASSUME NEW t \in Takers, EndFlight(t) PROVE CallInv'
  BY <1>7 DEF EndFlight, Flying
<1>8. ASSUME NEW t \in Takers, Retake(t) PROVE CallInv'
  <2>1. CASE TakeNonce(t) /\ pc' = [pc EXCEPT ![t] = "done"]
    <3>1. \A u \in Takers : u # t => got'[u] = got[u]
      BY <2>1 DEF TakeNonce
    <3> QED
      BY <1>8, <2>1, <3>1 DEF Retake
  <2>2. CASE TakeNothing(t) /\ pc' = [pc EXCEPT ![t] = "failed"]
    BY <1>8, <2>2 DEF Retake, TakeNothing
  <2> QED
    BY <1>8, <2>1, <2>2 DEF Retake
<1>9. ASSUME NEW c \in Chutes, Invalidate(c) \/ \E i \in Instances : MarkFailed(c, i) PROVE CallInv'
  BY <1>9 DEF MarkFailed, Invalidate
<1>10. CASE Tick
  BY <1>10 DEF Tick
<1> QED
  BY <1>1, <1>2, <1>3, <1>4, <1>5, <1>6, <1>7, <1>8, <1>9, <1>10 DEF Next, Step

\* A call starts to lead only a chute nobody leads, and the flight of a chute
\* is cleared by its own leader alone.
LEMMA LeaderInvariant ==
  TypeOK /\ CallInv /\ LeaderInv /\ [Next]_vars => LeaderInv'
<1> SUFFICES ASSUME TypeOK, CallInv, LeaderInv, [Next]_vars
             PROVE  LeaderInv'
  OBVIOUS
<1> USE DEF TypeOK, LeaderInv, Leads
<1>1. CASE UNCHANGED vars
  BY <1>1 DEF vars
<1>2. ASSUME NEW t \in Takers, Resolve(t) PROVE LeaderInv'
  BY <1>2 DEF Resolve
<1>3. ASSUME NEW t \in Takers, FastTake(t) \/ Retake(t) PROVE LeaderInv'
  BY <1>3 DEF FastTake, Retake
<1>4. ASSUME NEW t \in Takers, Join(t) PROVE LeaderInv'
  <2>1. CASE MayLead(chute[t])
    <3>1. /\ flight' = [flight EXCEPT ![chute[t]] = t] /\ pc' = [pc EXCEPT ![t] = "fetch"]
          /\ chute' = chute /\ chute[t] \in Chutes
      BY <1>4, <2>1 DEF Join, CallInv
    <3>2. \A u \in Takers : Leads(u) => chute[u] # chute[t]
      BY <2>1, NullAssumption DEF MayLead
    <3>3. \A u \in Takers : u # t /\ Leads(u)' => Leads(u)
      BY <3>1
    <3> QED
      BY <3>1, <3>2, <3>3
  <2>2. CASE ~MayLead(chute[t])
    BY <1>4, <2>2 DEF Join
  <2> QED
    BY <2>1, <2>2
<1>5. ASSUME NEW t \in Takers, Fetch(t) PROVE LeaderInv'
  <2>1. pc' = [pc EXCEPT ![t] = "install"] \/ pc' = [pc EXCEPT ![t] = "broken"]
    BY <1>5 DEF Fetch
  <2> QED
    BY <1>5, <2>1 DEF Fetch
<1>6. ASSUME NEW t \in Takers, Install(t) PROVE LeaderInv'
  BY <1>6 DEF Install
<1>7. ASSUME NEW t \in Takers, EndFlight(t) PROVE LeaderInv'
  <2>1. \A u \in Takers : Leads(u)' => u # t /\ Leads(u) /\ pc[u] # "wait"
    BY <1>7 DEF EndFlight, Flying
  <2>2. \A u \in Takers : u # t /\ Leads(u) => chute[u] # chute[t]
    BY <1>7 DEF EndFlight
  <2> QED
    BY <1>7, <2>1, <2>2 DEF EndFlight
<1>8. ASSUME NEW c \in Chutes, Invalidate(c) \/ \E i \in Instances : MarkFailed(c, i) PROVE LeaderInv'
  BY <1>8 DEF MarkFailed, Invalidate
<1>9. CASE Tick
  BY <1>9 DEF Tick
<1> QED
  BY <1>1, <1>2, <1>3, <1>4, <1>5, <1>6, <1>7, <1>8, <1>9 DEF Next, Step

(***************************************************************************)
(* Batch numbers                                                           *)
(***************************************************************************)

\* What every step but a successful take, leading, fetching and installing
\* does to the batches: it may drop a cached one, and that is all.
OnlyDrops ==
  /\ fetches' = fetches /\ batch' = batch /\ got' = got
  /\ \A c \in Chutes : pools'[c] = pools[c] \/ pools'[c] = None
  /\ \A u \in Takers : Holds(u)' => Holds(u) /\ chute'[u] = chute[u]

\* Dropping cached batches (an expired or used-up one, or Invalidate) breaks
\* none of what is known of batch numbers and of nonces handed out.
LEMMA DropsPreserve ==
  ASSUME UseInv, OnlyDrops
  PROVE  NumberInv' /\ PlaceInv' /\ NewerInv' /\ ConsumedInv' /\ NonceSingleUse'
<1> USE DEF OnlyDrops, UseInv
<1>1. NumberInv'
  BY DEF NumberInv
<1>2. PlaceInv'
  BY DEF PlaceInv
<1>3. NewerInv'
  <2>1. \A u \in Takers : Holds(u) => chute[u] \in Chutes
    BY DEF CallInv, Holds
  <2> QED
    BY <2>1 DEF NewerInv
<1>4. ConsumedInv'
  BY DEF ConsumedInv
<1>5. NonceSingleUse'
  BY DEF NonceSingleUse, Nonce
<1> QED
  BY <1>1, <1>2, <1>3, <1>4, <1>5

\* Taking a nonce moves no batch.
LEMMA TakePreservesNumbers ==
  ASSUME TypeOK, CallInv, NumberInv, PlaceInv, NewerInv,
         NEW t \in Takers, chute[t] \in Chutes, TakeNonce(t),
         ~Holds(t), pc' = [pc EXCEPT ![t] = "done"],
         UNCHANGED <<fetches, chute, batch>>
  PROVE  NumberInv' /\ PlaceInv' /\ NewerInv'
<1>1. /\ \A c \in Chutes : pools'[c] # None => pools[c] # None /\ pools'[c].no = pools[c].no
      /\ pools[chute[t]] # None
      /\ got'[t].no = pools[chute[t]].no
      /\ \A u \in Takers : u # t => got'[u] = got[u]
  <2>1. PICK i \in DOMAIN pools[chute[t]].instances :
          LET c == chute[t]
              inst == pools[c].instances[i]
          IN  /\ pools[c] # None /\ pools[c] \in Batch
              /\ got' = [got EXCEPT ![t] =
                          [no |-> pools[c].no, index |-> i, pos |-> inst.next,
                           id |-> inst.id, key |-> inst.key, at |-> now,
                           issuedAt |-> pools[c].issuedAt,
                           nonceExpIn |-> pools[c].nonceExpIn,
                           installedAt |-> pools[c].installedAt]]
              /\ pools' = [pools EXCEPT ![c] =
                   [pools[c] EXCEPT !.instances =
                      [pools[c].instances EXCEPT ![i] = [inst EXCEPT !.next = @ + 1]]]]
    BY TakeNonceEffect
  <2>2. \A c \in Chutes : c # chute[t] => pools'[c] = pools[c]
    BY <2>1 DEF TypeOK
  <2>3. pools'[chute[t]].no = pools[chute[t]].no
    BY <2>1 DEF TypeOK, Batch
  <2>4. got'[t].no = pools[chute[t]].no /\ \A u \in Takers : u # t => got'[u] = got[u]
    BY <2>1 DEF TypeOK
  <2> QED
    BY <2>1, <2>2, <2>3, <2>4
<1>2. \A u \in Takers : Holds(u)' <=> Holds(u)
  BY DEF Holds, TypeOK
<1>3. NumberInv'
  BY <1>1, <1>2 DEF NumberInv
<1>4. PlaceInv'
  BY <1>1, <1>2 DEF PlaceInv
<1>5. NewerInv'
  <2>1. \A u \in Takers : Holds(u) => chute[u] \in Chutes
    BY DEF CallInv, Holds
  <2> QED
    BY <1>1, <1>2, <2>1 DEF NewerInv
<1> QED
  BY <1>3, <1>4, <1>5

\* Taking a nonce never returns one that another call has, and leaves every
\* nonce handed out before the head of its list.
LEMMA TakePreservesUse ==
  ASSUME UseInv, NEW t \in Takers, chute[t] \in Chutes, TakeNonce(t)
  PROVE  ConsumedInv' /\ NonceSingleUse'
<1> DEFINE c == chute[t]
<1> USE DEF UseInv
<1>1. PICK i \in DOMAIN pools[c].instances :
        LET inst == pools[c].instances[i]
        IN  /\ pools[c] # None /\ pools[c] \in Batch
            /\ inst \in PoolInstance
            /\ got' = [got EXCEPT ![t] =
                        [no |-> pools[c].no, index |-> i, pos |-> inst.next,
                         id |-> inst.id, key |-> inst.key, at |-> now,
                         issuedAt |-> pools[c].issuedAt,
                         nonceExpIn |-> pools[c].nonceExpIn,
                         installedAt |-> pools[c].installedAt]]
            /\ pools' = [pools EXCEPT ![c] =
                 [pools[c] EXCEPT !.instances =
                    [pools[c].instances EXCEPT ![i] = [inst EXCEPT !.next = @ + 1]]]]
  BY TakeNonceEffect
<1> DEFINE inst == pools[c].instances[i]
<1>2. inst.next \in Nat
  BY <1>1 DEF PoolInstance
<1>3. /\ got'[t].no = pools[c].no /\ got'[t].index = i /\ got'[t].pos = inst.next
      /\ \A u \in Takers : u # t => got'[u] = got[u]
  BY <1>1 DEF TypeOK
<1>4. \A d \in Chutes : d # c => pools'[d] = pools[d]
  BY <1>1 DEF TypeOK
<1>5. /\ pools'[c].no = pools[c].no
      /\ DOMAIN pools'[c].instances = DOMAIN pools[c].instances
      /\ pools'[c].instances[i].next = inst.next + 1
      /\ \A j \in DOMAIN pools[c].instances :
           j # i => pools'[c].instances[j] = pools[c].instances[j]
  <2>1. pools'[c] = [pools[c] EXCEPT !.instances =
                       [pools[c].instances EXCEPT ![i] = [inst EXCEPT !.next = @ + 1]]]
    BY <1>1 DEF TypeOK
  <2>2. pools'[c].no = pools[c].no
    BY <1>1, <2>1 DEF Batch
  <2>3. pools'[c].instances = [pools[c].instances EXCEPT ![i] = [inst EXCEPT !.next = @ + 1]]
    BY <1>1, <2>1 DEF Batch
  <2>4. [inst EXCEPT !.next = @ + 1].next = inst.next + 1
    BY <1>1 DEF PoolInstance
  <2> QED
    BY <2>2, <2>3, <2>4
<1>6. \A u \in Takers : got[u] # None => got[u].pos \in Nat
  BY DEF TypeOK, Material
<1>7. \A u \in Takers :
        u # t /\ got[u] # None /\ got[u].no = pools[c].no
          => got[u].index \in DOMAIN pools[c].instances
             /\ got[u].pos < pools[c].instances[got[u].index].next
  BY <1>1 DEF ConsumedInv
<1>8. ConsumedInv'
  <2> SUFFICES ASSUME NEW u \in Takers, NEW d \in Chutes,
                      got'[u] # None, pools'[d] # None, got'[u].no = pools'[d].no
               PROVE  /\ got'[u].index \in DOMAIN pools'[d].instances
                      /\ got'[u].pos < pools'[d].instances[got'[u].index].next
    BY DEF ConsumedInv
  <2>1. CASE u = t
    <3>1. d = c
      <4>1. pools[c] # None /\ c \in Chutes
        BY <1>1
      <4>2. SUFFICES ASSUME d # c PROVE FALSE
        OBVIOUS
      <4>3. pools[d] # None /\ pools[d].no = pools[c].no
        BY <1>3, <1>4, <2>1, <4>2
      <4> QED
        BY <4>1, <4>2, <4>3 DEF PlaceInv
    <3> QED
      BY <1>2, <1>3, <1>5, <2>1, <3>1
  <2>2. CASE u # t /\ d # c
    BY <1>3, <1>4, <2>2 DEF ConsumedInv
  <2>3. ASSUME u # t, d = c
        PROVE  /\ got'[u] = got[u] /\ got[u].pos \in Nat /\ got[u].index \in DOMAIN pools[c].instances
               /\ got[u].pos < pools[c].instances[got[u].index].next
    BY <1>3, <1>5, <1>6, <1>7, <2>3
  <2>4. CASE u # t /\ d = c /\ got[u].index = i
    BY <1>2, <1>5, <2>3, <2>4
  <2>5. CASE u # t /\ d = c /\ got[u].index # i
    BY <1>5, <2>3, <2>5
  <2> QED
    BY <2>1, <2>2, <2>4, <2>5
<1>9. NonceSingleUse'
  <2>1. \A u \in Takers : u # t /\ got[u] # None => Nonce(got'[t]) # Nonce(got[u])
    BY <1>2, <1>3, <1>6, <1>7 DEF Nonce
  <2> QED
    BY <1>3, <2>1 DEF NonceSingleUse
<1> QED
  BY <1>8, <1>9

\* Every step preserves the inductive invariant for single use.
LEMMA UseInvariant == UseInv /\ [Next]_vars => UseInv'
<1> SUFFICES ASSUME UseInv, [Next]_vars
             PROVE  UseInv'
  OBVIOUS
<1> DEFINE Rest == NumberInv /\ PlaceInv /\ NewerInv /\ ConsumedInv /\ NonceSingleUse
<1> USE DEF UseInv
<1>a. HeldInv
  BY DEF NumberInv, HeldInv
<1>b. \A t \in Takers : Holds(t) => chute[t] \in Chutes
  BY DEF CallInv, Holds
<1>c. TypeOK' /\ CallInv' /\ LeaderInv'
  BY <1>a, TypeInvariant, CallInvariant, LeaderInvariant
<1>1. CASE UNCHANGED vars
  <2>1. OnlyDrops
    BY <1>1 DEF OnlyDrops, vars, Holds
  <2> QED
    BY <1>c, <2>1, DropsPreserve
<1>2. ASSUME NEW t \in Takers, Resolve(t) PROVE Rest'
  <2>1. OnlyDrops
    BY <1>2 DEF OnlyDrops, Resolve, Holds, TypeOK
  <2> QED
    BY <2>1, DropsPreserve
<1>3. ASSUME NEW t \in Takers, FastTake(t) \/ Retake(t) PROVE Rest'
  <2>1. chute[t] \in Chutes /\ ~Holds(t)
    BY <1>3 DEF FastTake, Retake, CallInv, Holds
  <2>2. CASE TakeNonce(t) /\ pc' = [pc EXCEPT ![t] = "done"]
    BY <1>3, <2>1, <2>2, TakePreservesNumbers, TakePreservesUse DEF FastTake, Retake
  <2>3. CASE TakeNothing(t) /\ pc' \in {[pc EXCEPT ![t] = "join"], [pc EXCEPT ![t] = "failed"]}
    <3>1. OnlyDrops
      BY <1>3, <2>3 DEF OnlyDrops, FastTake, Retake, TakeNothing, Holds, TypeOK
    <3> QED
      BY <3>1, DropsPreserve
  <2> QED
    BY <1>3, <2>2, <2>3 DEF FastTake, Retake
<1>4. ASSUME NEW t \in Takers, Join(t) PROVE Rest'
  <2>1. CASE MayLead(chute[t])
    <3>1. /\ batch'[t].no = fetches + 1
          /\ \A u \in Takers : u # t => batch'[u] = batch[u]
          /\ fetches' = fetches + 1 /\ pools' = pools /\ got' = got /\ chute' = chute
      BY <1>4, <2>1 DEF Join, TypeOK
    <3>2. \A u \in Takers : u # t => (Holds(u)' <=> Holds(u))
      BY <1>4, <2>1 DEF Join, Holds, TypeOK
    <3>3. fetches \in Nat
      BY DEF TypeOK
    <3>4. /\ \A c \in Chutes : pools[c] # None => pools[c].no \in Nat /\ pools[c].no <= fetches
          /\ \A u \in Takers : Holds(u) => batch[u].no \in Nat /\ batch[u].no <= fetches
          /\ \A u \in Takers : got[u] # None => got[u].no \in Nat /\ got[u].no <= fetches
      BY DEF NumberInv, TypeOK, Batch, Material
    <3>5. NumberInv'
      <4>1. batch'[t] \in Batch
        <5> DEFINE b == [no |-> fetches + 1, instances |-> << >>, expiresAt |-> 0,
                         issuedAt |-> now, nonceExpIn |-> 0, installedAt |-> now]
        <5>1. << >> \in Seq(PoolInstance) /\ now \in Nat
          BY BoundAssumption DEF TypeOK
        <5>2. b \in Batch
          BY <3>3, <5>1 DEF Batch
        <5>3. batch'[t] = b
          BY <1>4, <2>1 DEF Join, TypeOK
        <5> QED
          BY <5>2, <5>3
      <4> QED
        BY <3>1, <3>2, <3>3, <3>4, <4>1 DEF NumberInv
    <3>6. PlaceInv'
      BY <3>1, <3>2, <3>3, <3>4 DEF PlaceInv
    <3>7. NewerInv'
      <4>1. chute[t] \in Chutes
        BY <1>4 DEF Join, CallInv
      <4> QED
        BY <3>1, <3>2, <3>3, <3>4, <4>1, <1>b DEF NewerInv
    <3>8. ConsumedInv' /\ NonceSingleUse'
      BY <3>1 DEF ConsumedInv, NonceSingleUse, Nonce
    <3> QED
      BY <3>5, <3>6, <3>7, <3>8
  <2>2. CASE ~MayLead(chute[t])
    <3>1. OnlyDrops
      BY <1>4, <2>2 DEF OnlyDrops, Join, Holds, TypeOK
    <3> QED
      BY <3>1, DropsPreserve
  <2> QED
    BY <2>1, <2>2
<1>5. ASSUME NEW t \in Takers, Fetch(t) PROVE Rest'
  <2>1. batch[t] \in Batch /\ Holds(t)
    BY <1>5, <1>a DEF Fetch, HeldInv, Holds
  <2>2. \/ pc' = [pc EXCEPT ![t] = "broken"] /\ batch' = [batch EXCEPT ![t] = None]
        \/ /\ pc' = [pc EXCEPT ![t] = "install"]
           /\ \E r : batch' = [batch EXCEPT ![t].instances = PoolInstances(r),
                                            ![t].nonceExpIn = r.nonceExpIn,
                                            ![t].issuedAt = now]
    BY <1>5 DEF Fetch
  <2>3. /\ \A u \in Takers : u # t => batch'[u] = batch[u]
        /\ \A u \in Takers : Holds(u)' => Holds(u)
        /\ Holds(t)' => batch'[t].no = batch[t].no
    <3>1. CASE pc' = [pc EXCEPT ![t] = "broken"] /\ batch' = [batch EXCEPT ![t] = None]
      BY <2>1, <3>1 DEF Holds, TypeOK
    <3>2. ASSUME NEW r,
                 pc' = [pc EXCEPT ![t] = "install"],
                 batch' = [batch EXCEPT ![t].instances = PoolInstances(r),
                                        ![t].nonceExpIn = r.nonceExpIn,
                                        ![t].issuedAt = now]
          PROVE  /\ \A u \in Takers : u # t => batch'[u] = batch[u]
                 /\ \A u \in Takers : Holds(u)' => Holds(u)
                 /\ batch'[t].no = batch[t].no
      <4>1. \A u \in Takers : u # t => batch'[u] = batch[u]
        BY <3>2 DEF TypeOK
      <4>2. \A u \in Takers : Holds(u)' => Holds(u)
        BY <2>1, <3>2 DEF TypeOK, Holds
      <4>3. batch'[t] = [batch[t] EXCEPT !.instances = PoolInstances(r),
                                         !.nonceExpIn = r.nonceExpIn, !.issuedAt = now]
        BY <3>2 DEF TypeOK
      <4>4. batch'[t].no = batch[t].no
        BY <2>1, <4>3 DEF Batch
      <4> QED
        BY <4>1, <4>2, <4>4
    <3> QED
      BY <2>2, <3>1, <3>2
  <2>4. Holds(t)' => batch'[t] \in Batch
    <3>1. ASSUME Holds(t)' PROVE batch'[t] \in Batch
      <4>1. PICK r \in Responses \cup {FetchError} :
              /\ Acceptable(r)
              /\ batch' = [batch EXCEPT ![t].instances = PoolInstances(r),
                                        ![t].nonceExpIn = r.nonceExpIn,
                                        ![t].issuedAt = now]
        BY <1>5, <3>1 DEF Fetch, Holds, TypeOK
      <4>2. r \in Responses
        BY <4>1 DEF Acceptable
      <4>3. PoolInstances(r) \in Seq(PoolInstance) /\ r.nonceExpIn \in Int /\ now \in Nat
        BY <4>2, PoolInstancesType, ResponsesAssumption, BoundAssumption DEF Response, TypeOK
      <4>4. [batch[t] EXCEPT !.instances = PoolInstances(r), !.nonceExpIn = r.nonceExpIn,
                             !.issuedAt = now] \in Batch
        BY <2>1, <4>3 DEF Batch
      <4> QED
        BY <4>1, <4>4 DEF TypeOK
    <3> QED
      BY <3>1
  <2>5. pools' = pools /\ got' = got /\ chute' = chute /\ fetches' = fetches
    BY <1>5 DEF Fetch
  <2>6. \A u \in Takers : Holds(u)' => batch'[u].no = batch[u].no
    BY <2>3
  <2>7. NumberInv'
    BY <2>3, <2>4, <2>5, <2>6 DEF NumberInv
  <2>8. PlaceInv'
    BY <2>3, <2>5, <2>6 DEF PlaceInv
  <2>9. NewerInv'
    BY <2>3, <2>5, <2>6 DEF NewerInv
  <2>10. ConsumedInv' /\ NonceSingleUse'
    BY <2>5 DEF ConsumedInv, NonceSingleUse, Nonce
  <2> QED
    BY <2>7, <2>8, <2>9, <2>10
<1>6. ASSUME NEW t \in Takers, Install(t) PROVE Rest'
  <2> DEFINE c == chute[t]
  <2>1. c \in Chutes /\ batch[t] \in Batch /\ Holds(t)
    BY <1>6, <1>a, <1>b DEF Install, HeldInv, Holds
  <2>2. /\ pools'[c].no = batch[t].no
        /\ \A d \in Chutes : d # c => pools'[d] = pools[d]
    BY <1>6, <2>1 DEF Install, TypeOK, Batch
  <2>3. /\ \A u \in Takers : u # t => batch'[u] = batch[u]
        /\ \A u \in Takers : Holds(u)' => Holds(u) /\ u # t
        /\ got' = got /\ chute' = chute /\ fetches' = fetches
    BY <1>6 DEF Install, TypeOK, Holds
  <2>4. NumberInv'
    BY <2>1, <2>2, <2>3 DEF NumberInv
  <2>5. PlaceInv'
    BY <2>1, <2>2, <2>3 DEF PlaceInv
  <2>6. \A u \in Takers : Holds(u) /\ u # t => chute[u] # c
    BY <2>1 DEF LeaderInv, Leads, Holds
  <2>7. NewerInv'
    BY <1>b, <2>2, <2>3, <2>6 DEF NewerInv
  <2>8. ConsumedInv'
    BY <2>1, <2>2, <2>3 DEF ConsumedInv, PlaceInv
  <2>9. NonceSingleUse'
    BY <2>3 DEF NonceSingleUse, Nonce
  <2> QED
    BY <2>4, <2>5, <2>7, <2>8, <2>9
<1>7. ASSUME NEW t \in Takers, EndFlight(t) PROVE Rest'
  <2>1. OnlyDrops
    BY <1>7 DEF OnlyDrops, EndFlight, Flying, Holds, TypeOK
  <2> QED
    BY <2>1, DropsPreserve
<1>8. ASSUME NEW c \in Chutes, Invalidate(c) \/ \E i \in Instances : MarkFailed(c, i) PROVE Rest'
  <2>1. OnlyDrops
    BY <1>8 DEF OnlyDrops, MarkFailed, Invalidate, Holds, TypeOK
  <2> QED
    BY <2>1, DropsPreserve
<1>9. CASE Tick
  <2>1. OnlyDrops
    BY <1>9 DEF OnlyDrops, Tick, Holds
  <2> QED
    BY <1>c, <2>1, DropsPreserve
<1> QED
  BY <1>c, <1>1, <1>2, <1>3, <1>4, <1>5, <1>6, <1>7, <1>8, <1>9 DEF Next, Step

\* The initial state satisfies the whole invariant.
LEMMA InitInvariant == Init => IInv
<1> SUFFICES ASSUME Init PROVE IInv
  OBVIOUS
<1> USE DEF Init
<1>1. TypeOK
  BY BoundAssumption DEF TypeOK, PCs
<1>2. CallInv /\ LeaderInv /\ NumberInv /\ PlaceInv /\ NewerInv
  BY DEF CallInv, LeaderInv, NumberInv, PlaceInv, NewerInv, Leads, Holds
<1>3. ConsumedInv /\ NonceSingleUse
  BY DEF ConsumedInv, NonceSingleUse
<1>4. KeyInv /\ ExpiryInv
  BY DEF KeyInv, ExpiryInv, KeyedMaterial
<1> QED
  BY <1>1, <1>2, <1>3, <1>4 DEF IInv, UseInv

(***************************************************************************)
(* Keys and expiry                                                         *)
(***************************************************************************)

\* Taking from a keyed, dated batch hands out keyed material in time, and
\* leaves the batch keyed and dated.
LEMMA TakePreservesKeys ==
  ASSUME TypeOK, KeyInv, ExpiryInv, NEW t \in Takers, chute[t] \in Chutes, TakeNonce(t)
  PROVE  /\ \A c \in Chutes : pools'[c] # None => KeyedBatch(pools'[c])
         /\ KeyedMaterial'
         /\ ExpiryInv'
<1> DEFINE c == chute[t]
<1>1. PICK i \in DOMAIN pools[c].instances :
        LET inst == pools[c].instances[i]
        IN  /\ pools[c] # None /\ pools[c] \in Batch
            /\ now <= pools[c].expiresAt
            /\ inst \in PoolInstance
            /\ inst.next <= inst.count
            /\ got' = [got EXCEPT ![t] =
                        [no |-> pools[c].no, index |-> i, pos |-> inst.next,
                         id |-> inst.id, key |-> inst.key, at |-> now,
                         issuedAt |-> pools[c].issuedAt,
                         nonceExpIn |-> pools[c].nonceExpIn,
                         installedAt |-> pools[c].installedAt]]
            /\ pools' = [pools EXCEPT ![c] =
                 [pools[c] EXCEPT !.instances =
                    [pools[c].instances EXCEPT ![i] = [inst EXCEPT !.next = @ + 1]]]]
  BY TakeNonceEffect
<1> DEFINE inst == pools[c].instances[i]
<1>2. KeyedBatch(pools[c])
      /\ pools[c].expiresAt = pools[c].installedAt + EffectiveTTL(pools[c].nonceExpIn)
  BY <1>1 DEF KeyInv, ExpiryInv
<1>3. inst.key # NoKey
  BY <1>1, <1>2 DEF KeyedBatch
<1>4. /\ got'[t].key = inst.key /\ got'[t].at = now
      /\ got'[t].installedAt = pools[c].installedAt
      /\ got'[t].nonceExpIn = pools[c].nonceExpIn
      /\ \A u \in Takers : u # t => got'[u] = got[u]
  BY <1>1 DEF TypeOK
<1>5. \A d \in Chutes : d # c => pools'[d] = pools[d]
  BY <1>1 DEF TypeOK
<1>6. pools'[c] = [pools[c] EXCEPT !.instances =
                     [pools[c].instances EXCEPT ![i] = [inst EXCEPT !.next = @ + 1]]]
  BY <1>1 DEF TypeOK
<1>7. /\ pools'[c].expiresAt = pools[c].expiresAt
      /\ pools'[c].installedAt = pools[c].installedAt
      /\ pools'[c].nonceExpIn = pools[c].nonceExpIn
      /\ pools'[c].instances = [pools[c].instances EXCEPT ![i] = [inst EXCEPT !.next = @ + 1]]
  BY <1>1, <1>6, ZenonT(60) DEF Batch
<1>8. KeyedBatch(pools'[c])
  <2>1. [inst EXCEPT !.next = @ + 1].key = inst.key
    BY <1>1 DEF PoolInstance
  <2> QED
    BY <1>2, <1>3, <1>7, <2>1 DEF KeyedBatch
<1>9. \A d \in Chutes : pools'[d] # None => KeyedBatch(pools'[d])
  BY <1>5, <1>8 DEF KeyInv
<1>10. KeyedMaterial'
  BY <1>3, <1>4 DEF KeyedMaterial, KeyInv
<1>11. ExpiryInv'
  <2>1. \A d \in Chutes :
          pools'[d] # None
            => pools'[d].expiresAt = pools'[d].installedAt + EffectiveTTL(pools'[d].nonceExpIn)
    BY <1>2, <1>5, <1>7 DEF ExpiryInv
  <2>2. got'[t].at <= got'[t].installedAt + EffectiveTTL(got'[t].nonceExpIn)
    <3>1. now <= pools[c].expiresAt
      BY <1>1
    <3> QED
      BY <1>2, <1>4, <3>1
  <2>3. \A u \in Takers :
          got'[u] # None => got'[u].at <= got'[u].installedAt + EffectiveTTL(got'[u].nonceExpIn)
    BY <1>4, <2>2 DEF ExpiryInv
  <2> QED
    BY <2>1, <2>3 DEF ExpiryInv
<1> QED
  BY <1>9, <1>10, <1>11

\* Every step preserves the whole invariant.
LEMMA InvInvariant == IInv /\ [Next]_vars => IInv'
<1> SUFFICES ASSUME IInv, [Next]_vars
             PROVE  KeyInv' /\ ExpiryInv'
  BY UseInvariant DEF IInv
<1> USE DEF IInv, UseInv
<1> DEFINE Quiet == /\ batch' = batch /\ got' = got
                    /\ \A c \in Chutes : pools'[c] = pools[c] \/ pools'[c] = None
                    /\ \A u \in Takers : pc'[u] = "install" => pc[u] = "install"
<1>a. Quiet => KeyInv' /\ ExpiryInv'
  BY DEF KeyInv, ExpiryInv, KeyedMaterial
<1>1. CASE UNCHANGED vars
  BY <1>1, <1>a DEF vars
<1>2. ASSUME NEW t \in Takers, Resolve(t) PROVE Quiet
  BY <1>2 DEF Resolve, TypeOK
<1>3. ASSUME NEW t \in Takers, FastTake(t) \/ Retake(t) PROVE KeyInv' /\ ExpiryInv'
  <2>1. CASE TakeNothing(t)
    <3>1. Quiet
      BY <1>3, <2>1 DEF FastTake, Retake, TakeNothing, TypeOK
    <3> QED
      BY <1>a, <3>1
  <2>2. CASE TakeNonce(t)
    <3>1. chute[t] \in Chutes
      BY <1>3 DEF FastTake, Retake, CallInv
    <3>2. /\ batch' = batch
          /\ \A u \in Takers : pc'[u] = "install" => pc[u] = "install"
      BY <1>3 DEF FastTake, Retake, TypeOK
    <3> QED
      BY <2>2, <3>1, <3>2, TakePreservesKeys DEF KeyInv
  <2> QED
    BY <1>3, <2>1, <2>2 DEF FastTake, Retake
<1>4. ASSUME NEW t \in Takers, Join(t) PROVE KeyInv' /\ ExpiryInv'
  <2>1. pools' = pools /\ got' = got
    BY <1>4 DEF Join
  <2>2. \A u \in Takers : pc'[u] = "install" => pc[u] = "install" /\ batch'[u] = batch[u]
    BY <1>4 DEF Join, TypeOK
  <2> QED
    BY <2>1, <2>2 DEF KeyInv, ExpiryInv, KeyedMaterial
<1>5. ASSUME NEW t \in Takers, Fetch(t) PROVE KeyInv' /\ ExpiryInv'
  <2>1. pools' = pools /\ got' = got
    BY <1>5 DEF Fetch
  <2>2. \A u \in Takers : u # t /\ pc'[u] = "install" => pc[u] = "install" /\ batch'[u] = batch[u]
    <3>1. \A u \in Takers : u # t => pc'[u] = pc[u] /\ batch'[u] = batch[u]
      BY <1>5 DEF Fetch, TypeOK
    <3> QED
      BY <3>1
  <2>3. ASSUME pc'[t] = "install" PROVE KeyedBatch(batch'[t])
    <3>1. PICK r \in Responses \cup {FetchError} :
            /\ Acceptable(r)
            /\ batch' = [batch EXCEPT ![t].instances = PoolInstances(r),
                                      ![t].nonceExpIn = r.nonceExpIn,
                                      ![t].issuedAt = now]
      BY <1>5, <2>3 DEF Fetch, TypeOK
    <3>2. r \in Responses
      BY <3>1 DEF Acceptable
    <3>3. batch[t] \in Batch
      BY <1>5 DEF Fetch, NumberInv, Holds
    <3>4. batch'[t].instances = PoolInstances(r)
      BY <3>1, <3>3 DEF TypeOK, Batch
    <3> QED
      BY <3>2, <3>4, PoolInstancesKeyed DEF KeyedBatch
  <2> QED
    BY <2>1, <2>2, <2>3 DEF KeyInv, ExpiryInv, KeyedMaterial
<1>6. ASSUME NEW t \in Takers, Install(t) PROVE KeyInv' /\ ExpiryInv'
  <2> DEFINE c == chute[t]
  <2>1. c \in Chutes /\ batch[t] \in Batch /\ KeyedBatch(batch[t])
    BY <1>6 DEF Install, CallInv, NumberInv, Holds, KeyInv
  <2>2. pools'[c] = [batch[t] EXCEPT !.installedAt = now,
                                     !.expiresAt = now + EffectiveTTL(batch[t].nonceExpIn)]
    BY <1>6, <2>1 DEF Install, TypeOK
  <2>3. /\ pools'[c].instances = batch[t].instances
        /\ pools'[c].expiresAt = pools'[c].installedAt + EffectiveTTL(pools'[c].nonceExpIn)
    BY <2>1, <2>2 DEF Batch
  <2>4. KeyedBatch(pools'[c])
    BY <2>1, <2>3 DEF KeyedBatch
  <2>5. /\ \A d \in Chutes : d # c => pools'[d] = pools[d]
        /\ \A u \in Takers : pc'[u] = "install" => pc[u] = "install" /\ batch'[u] = batch[u]
        /\ got' = got
    BY <1>6 DEF Install, TypeOK
  <2> QED
    BY <2>3, <2>4, <2>5 DEF KeyInv, ExpiryInv, KeyedMaterial
<1>7. ASSUME NEW t \in Takers, EndFlight(t) PROVE Quiet
  BY <1>7 DEF EndFlight, TypeOK
<1>8. ASSUME NEW c \in Chutes, Invalidate(c) \/ \E i \in Instances : MarkFailed(c, i) PROVE Quiet
  BY <1>8 DEF MarkFailed, Invalidate, TypeOK
<1>9. CASE Tick
  BY <1>9, <1>a DEF Tick
<1> QED
  BY <1>a, <1>1, <1>2, <1>3, <1>4, <1>5, <1>6, <1>7, <1>8, <1>9 DEF Next, Step

(***************************************************************************)
(* Theorems                                                                *)
(***************************************************************************)

\* The inductive invariant holds in every reachable state.
THEOREM InvHolds == Spec => []IInv
  BY InitInvariant, InvInvariant, PTL DEF Spec

\* The type invariant of the nonce pool.
THEOREM TypeCorrect == Spec => []TypeOK
  BY InvHolds, PTL DEF IInv, UseInv

\* Take never returns the same nonce twice, whatever refreshes, expiries,
\* failures and invalidations interleave with the calls.
THEOREM SingleUse == Spec => []NonceSingleUse
  BY InvHolds, PTL DEF IInv, UseInv

\* Take never returns material of an instance without a key.
THEOREM Keyed == Spec => []KeyedMaterial
  BY InvHolds, PTL DEF IInv, KeyInv

\* Within the safety margin between the server's answer and its caching, no
\* nonce is handed out after the lifetime the server promised.
THEOREM Fresh == Spec => []FreshWhenHandedOut
<1>1. IInv => FreshWhenHandedOut
  <2> SUFFICES ASSUME IInv, NEW t \in Takers, got[t] # None,
                      got[t].nonceExpIn > 2 * SafetyMargin,
                      got[t].installedAt <= got[t].issuedAt + SafetyMargin
               PROVE  got[t].at <= got[t].issuedAt + got[t].nonceExpIn
    BY DEF FreshWhenHandedOut
  <2>1. /\ got[t].at \in Nat /\ got[t].installedAt \in Nat /\ got[t].issuedAt \in Nat
        /\ got[t].nonceExpIn \in Int
    BY DEF IInv, UseInv, TypeOK, Material
  <2>2. got[t].at <= got[t].installedAt + EffectiveTTL(got[t].nonceExpIn)
    BY DEF IInv, ExpiryInv
  <2>3. /\ EffectiveTTL(got[t].nonceExpIn) \in Int
        /\ EffectiveTTL(got[t].nonceExpIn) <= got[t].nonceExpIn - SafetyMargin
    BY <2>1, EffectiveTTLType, EffectiveTTLMargin
  <2> QED
    BY <2>1, <2>2, <2>3, BoundAssumption
<1> QED
  BY <1>1, InvHolds, PTL

\* A batch in the cache is only ever replaced by one fetched later.
THEOREM Newer == Spec => NewerBatchesOnly
<1> DEFINE Safe == \A c \in Chutes : pools[c] # None /\ pools'[c] # None
                                       => pools'[c].no >= pools[c].no
<1>1. IInv /\ [Next]_vars => [Safe]_pools
  <2> SUFFICES ASSUME IInv, [Next]_vars PROVE [Safe]_pools
    OBVIOUS
  <2> USE DEF IInv, UseInv
  <2>a. \A c \in Chutes : pools[c] # None => pools[c].no \in Nat
    BY DEF TypeOK, Batch
  <2>1. ASSUME NEW t \in Takers, FastTake(t) \/ Retake(t) PROVE Safe
    <3>1. CASE TakeNothing(t)
      <4>1. \A c \in Chutes : pools'[c] = pools[c] \/ pools'[c] = None
        BY <3>1 DEF TakeNothing, TypeOK
      <4> QED
        BY <2>a, <4>1
    <3>2. CASE TakeNonce(t)
      <4>1. chute[t] \in Chutes /\ ~Holds(t)
        BY <2>1 DEF FastTake, Retake, CallInv, Holds
      <4>2. /\ pools[chute[t]] \in Batch
            /\ \E insts : pools' = [pools EXCEPT ![chute[t]] =
                             [pools[chute[t]] EXCEPT !.instances = insts]]
        BY <3>2, <4>1, TakeNonceEffect
      <4>3. \A c \in Chutes : pools'[c] # None => pools'[c].no = pools[c].no
        BY <4>2 DEF TypeOK, Batch
      <4> QED
        BY <2>a, <4>3
    <3> QED
      BY <2>1, <3>1, <3>2 DEF FastTake, Retake
  <2>2. ASSUME NEW t \in Takers, Install(t) PROVE Safe
    <3>1. chute[t] \in Chutes /\ batch[t] \in Batch /\ Holds(t)
      BY <2>2 DEF Install, CallInv, NumberInv, Holds
    <3>2. /\ pools'[chute[t]].no = batch[t].no
          /\ \A c \in Chutes : c # chute[t] => pools'[c] = pools[c]
      BY <2>2, <3>1 DEF Install, TypeOK, Batch
    <3>3. batch[t].no \in Nat
      BY <3>1 DEF Batch
    <3> QED
      BY <2>a, <3>1, <3>2, <3>3 DEF NewerInv
  <2>3. ASSUME NEW d \in Chutes, Invalidate(d) PROVE Safe
    <3>1. \A c \in Chutes : pools'[c] = pools[c] \/ pools'[c] = None
      BY <2>3 DEF Invalidate, TypeOK
    <3> QED
      BY <2>a, <3>1
  <2>4. ASSUME NEW t \in Takers,
               Resolve(t) \/ Join(t) \/ Fetch(t) \/ EndFlight(t)
        PROVE  UNCHANGED pools
    BY <2>4 DEF Resolve, Join, Fetch, EndFlight
  <2>5. CASE Tick \/ UNCHANGED vars \/ \E c \in Chutes, i \in Instances : MarkFailed(c, i)
    BY <2>5 DEF Tick, vars, MarkFailed
  <2> QED
    BY <2>1, <2>2, <2>3, <2>4, <2>5 DEF Next, Step
<1> QED
  BY <1>1, InvHolds, PTL DEF Spec, NewerBatchesOnly

(***************************************************************************)
(* The refinement of NonceSource                                           *)
(***************************************************************************)

\* The refinement mapping.
Status(p) == [t \in Takers |-> IF p[t] \in {"done", "failed"} THEN p[t] ELSE "waiting"]
Result(p, g) == [t \in Takers |-> IF p[t] = "done"
                                    THEN [nonce |-> Nonce(g[t]), key |-> g[t].key]
                                    ELSE None]

\* A call that ends with a nonce has it, and the others keep theirs.
LEMMA TakeGives ==
  ASSUME TypeOK, NEW t \in Takers, chute[t] \in Chutes, TakeNonce(t)
  PROVE  got'[t] # None /\ \A u \in Takers : u # t => got'[u] = got[u]
<1>1. PICK m \in Material : got' = [got EXCEPT ![t] = m]
  BY TakeMaterial
<1> QED
  BY <1>1, MaterialAssumption DEF TypeOK

\* The two takes of a call.
LEMMA TakeSteps ==
  ASSUME IInv, NEW t \in Takers, FastTake(t) \/ Retake(t)
  PROVE  /\ chute[t] \in Chutes /\ pc[t] \in {"take", "retake"}
         /\ \/ TakeNonce(t) /\ pc' = [pc EXCEPT ![t] = "done"]
            \/ got' = got /\ pc' = [pc EXCEPT ![t] = "join"]
            \/ got' = got /\ pc' = [pc EXCEPT ![t] = "failed"]
  BY DEF FastTake, Retake, TakeNothing, IInv, UseInv, CallInv

\* The calls that a step ends with an error; none of them gets anything.
Ended == {u \in Takers : pc[u] # "failed" /\ pc'[u] = "failed"}

\* A step that gives nobody anything leaves the finished calls alone.
OnlyFails == /\ got' = got
             /\ \A u \in Takers : \/ pc'[u] = pc[u]
                                  \/ /\ pc[u] \notin {"done", "failed"}
                                     /\ pc'[u] # "done"

\* Every step gives one call a nonce, or only lets calls fail.
LEMMA GiveOrFail ==
  ASSUME IInv, Next
  PROVE  OnlyFails \/ \E t \in Takers : /\ pc[t] \notin {"done", "failed"}
                                        /\ chute[t] \in Chutes /\ TakeNonce(t)
                                        /\ pc' = [pc EXCEPT ![t] = "done"]
<1> USE DEF OnlyFails
<1>0. pc \in [Takers -> PCs]
  BY DEF IInv, UseInv, TypeOK
<1>1. ASSUME NEW t \in Takers, Resolve(t) PROVE OnlyFails
  BY <1>0, <1>1 DEF Resolve
<1>2. ASSUME NEW t \in Takers, Join(t) PROVE OnlyFails
  BY <1>0, <1>2 DEF Join
<1>3. ASSUME NEW t \in Takers, Fetch(t) PROVE OnlyFails
  BY <1>0, <1>3 DEF Fetch
<1>4. ASSUME NEW t \in Takers, Install(t) PROVE OnlyFails
  BY <1>0, <1>4 DEF Install
<1>5. ASSUME NEW t \in Takers, EndFlight(t) PROVE OnlyFails
  BY <1>0, <1>5 DEF EndFlight, Flying
<1>6. ASSUME NEW t \in Takers, FastTake(t) \/ Retake(t)
      PROVE  OnlyFails \/ \E u \in Takers : /\ pc[u] \notin {"done", "failed"}
                                            /\ chute[u] \in Chutes /\ TakeNonce(u)
                                            /\ pc' = [pc EXCEPT ![u] = "done"]
  <2>1. /\ chute[t] \in Chutes /\ pc[t] \in {"take", "retake"}
        /\ \/ TakeNonce(t) /\ pc' = [pc EXCEPT ![t] = "done"]
           \/ got' = got /\ pc' = [pc EXCEPT ![t] = "join"]
           \/ got' = got /\ pc' = [pc EXCEPT ![t] = "failed"]
    BY <1>6, TakeSteps
  <2>2. CASE TakeNonce(t) /\ pc' = [pc EXCEPT ![t] = "done"]
    BY <2>1, <2>2
  <2>3. CASE got' = got /\ (pc' = [pc EXCEPT ![t] = "join"] \/ pc' = [pc EXCEPT ![t] = "failed"])
    BY <1>0, <2>1, <2>3
  <2> QED
    BY <2>1, <2>2, <2>3
<1>7. ASSUME (\E c \in Chutes, i \in Instances : MarkFailed(c, i)) \/ (\E c \in Chutes : Invalidate(c)) \/ Tick
      PROVE  OnlyFails
  BY <1>7 DEF MarkFailed, Invalidate, Tick
<1> HIDE DEF OnlyFails
<1> QED
  BY <1>1, <1>2, <1>3, <1>4, <1>5, <1>6, <1>7 DEF Next, Step

\* A call that is done has its material.
LEMMA DoneInvariant == IInv /\ DoneInv /\ [Next]_vars => DoneInv'
<1> SUFFICES ASSUME IInv, DoneInv, [Next]_vars PROVE DoneInv'
  OBVIOUS
<1>1. TypeOK
  BY DEF IInv, UseInv
<1>2. CASE UNCHANGED vars
  BY <1>2 DEF vars, DoneInv
<1>3. CASE OnlyFails
  BY <1>3 DEF OnlyFails, DoneInv
<1>4. ASSUME NEW t \in Takers, chute[t] \in Chutes, TakeNonce(t), pc' = [pc EXCEPT ![t] = "done"]
      PROVE  DoneInv'
  <2>1. got'[t] # None /\ \A u \in Takers : u # t => got'[u] = got[u]
    BY <1>1, <1>4, TakeGives
  <2>2. \A u \in Takers : u # t => pc'[u] = pc[u]
    BY <1>1, <1>4 DEF TypeOK
  <2> QED
    BY <2>1, <2>2 DEF DoneInv
<1> QED
  BY <1>2, <1>3, <1>4, GiveOrFail

\* Calls that fail together are a step of the source, or nothing happened.
LEMMA FailRefines ==
  ASSUME IInv, OnlyFails
  PROVE  Source!Next \/ (Status(pc)' = Status(pc) /\ Result(pc, got)' = Result(pc, got))
<1>1. \A u \in Takers : /\ u \in Ended => pc[u] \notin {"done", "failed"} /\ pc'[u] = "failed"
                        /\ u \notin Ended => Status(pc)'[u] = Status(pc)[u]
                        /\ (pc'[u] = "done") = (pc[u] = "done")
  BY DEF OnlyFails, Ended, Status
<1>2. Result(pc, got)' = Result(pc, got)
  BY <1>1 DEF OnlyFails, Result
<1>3. \A u \in Ended : Status(pc)[u] = "waiting"
  BY <1>1 DEF Ended, Status
<1>4. Status(pc)' = [u \in Takers |-> IF u \in Ended THEN "failed" ELSE Status(pc)[u]]
  BY <1>1 DEF Ended, Status
<1>5. PICK S \in SUBSET Takers : S = Ended
  BY DEF Ended
<1>6. Source!Fail(S)
  BY <1>2, <1>3, <1>4, <1>5 DEF Source!Fail, Status, Result
<1> QED
  BY <1>6 DEF Source!Next

\* A call that is given a nonce is given a new one, and its key.
LEMMA GiveRefines ==
  ASSUME IInv, IInv', DoneInv, NEW t \in Takers, pc[t] \notin {"done", "failed"},
         chute[t] \in Chutes, TakeNonce(t), pc' = [pc EXCEPT ![t] = "done"]
  PROVE  Source!Next
<1> DEFINE m == [nonce |-> Nonce(got[t]), key |-> got[t].key]'
<1>1. got'[t] # None /\ \A u \in Takers : u # t => got'[u] = got[u]
  BY TakeGives DEF IInv, UseInv
<1>2. pc'[t] = "done" /\ \A u \in Takers : u # t => pc'[u] = pc[u]
  BY DEF IInv, UseInv, TypeOK
<1>3. Status(pc)' = [Status(pc) EXCEPT ![t] = "done"] /\ Status(pc)[t] = "waiting"
  BY <1>2 DEF Status
<1>4. Result(pc, got)'[t] = m
  BY <1>2 DEF Result
<1>5. Result(pc, got)' = [Result(pc, got) EXCEPT ![t] = m]
  BY <1>1, <1>2 DEF Result
<1>6. m.key \in Keys
  <2>1. got'[t].key # NoKey /\ got'[t] \in Material
    BY <1>1 DEF IInv, UseInv, KeyInv, KeyedMaterial, TypeOK
  <2> QED
    BY <2>1 DEF Material
<1>7. \A u \in Takers : Status(pc)[u] = "done" => m.nonce # Result(pc, got)[u].nonce
  <2> SUFFICES ASSUME NEW u \in Takers, Status(pc)[u] = "done"
               PROVE  Nonce(got'[t]) # Result(pc, got)[u].nonce
    OBVIOUS
  <2>1. pc[u] = "done" /\ u # t
    BY DEF Status
  <2>2. got[u] # None /\ got'[u] = got[u]
    BY <1>1, <2>1 DEF DoneInv
  <2>3. Nonce(got'[t]) # Nonce(got'[u])
    BY <1>1, <2>1, <2>2 DEF IInv, UseInv, NonceSingleUse
  <2>4. Result(pc, got)[u].nonce = Nonce(got[u])
    BY <2>1 DEF Result
  <2> QED
    BY <2>2, <2>3, <2>4 DEF Nonce
<1> HIDE DEF m
<1>8. Source!Give(t, Result(pc, got)'[t])
  BY <1>3, <1>4, <1>5, <1>6, <1>7 DEF Source!Give, Source!Handed, Status, Result
<1> QED
  BY <1>8 DEF Source!Next, Result

LEMMA NextRefines ==
  ASSUME IInv, IInv', DoneInv, [Next]_vars
  PROVE  Source!Next \/ (Status(pc)' = Status(pc) /\ Result(pc, got)' = Result(pc, got))
<1>1. CASE UNCHANGED vars
  BY <1>1 DEF vars, Status, Result
<1>2. CASE Next
  BY <1>2, GiveOrFail, FailRefines, GiveRefines
<1> QED
  BY <1>1, <1>2

\* The pool behind Take, with its cache, its refreshes and its failures, is a
\* source of keyed material with nonces that are never handed out twice.
THEOREM Implements == Spec => ImplementsSource
<1>1. Init => Source!Init /\ DoneInv
  BY DEF Init, Source!Init, DoneInv
<1>2. Spec => []DoneInv
  BY <1>1, InvHolds, DoneInvariant, PTL DEF Spec
<1>3. IInv /\ IInv' /\ DoneInv /\ [Next]_vars =>
        [Source!Next]_<<[t \in Takers |-> IF pc[t] \in {"done", "failed"} THEN pc[t] ELSE "waiting"],
                        [t \in Takers |-> IF pc[t] = "done"
                                            THEN [nonce |-> Nonce(got[t]), key |-> got[t].key]
                                            ELSE None]>>
  BY NextRefines DEF Status, Result
<1> QED
  BY <1>1, <1>2, <1>3, InvHolds, PTL DEF Spec, ImplementsSource, Source!Spec

=============================================================================
