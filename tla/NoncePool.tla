----------------------------- MODULE NoncePool -----------------------------
(***************************************************************************)
(* The pool of single-use Chutes E2EE nonces                               *)
(* (internal/provider/chutes/noncepool.go).                                *)
(*                                                                         *)
(* Every request of the proxy that needs Chutes key material calls Take.   *)
(* Take consumes a nonce from the cached /e2e/instances response of the    *)
(* chute, and refreshes the cache through a singleflight group when the    *)
(* cached batch is expired or used up.  MarkFailed and Invalidate are      *)
(* called by requests whose upstream attempt failed, at any time.          *)
(*                                                                         *)
(* Abstractions.  A nonce is never inspected, so it is its identity: the   *)
(* number of the fetch that brought it, the position of its instance in    *)
(* the response and its position in that instance's list; the slice        *)
(* inst.nonces is the interval next .. count of positions not consumed.    *)
(* Instances that doRefresh skips stay in the batch with no nonce left,    *)
(* which take cannot tell from their absence.  Time is a bounded clock.    *)
(***************************************************************************)
EXTENDS Integers, Sequences, FiniteSets

CONSTANTS
  Takers,        \* the calls of Take, one element per call
  Chutes,        \* chute UUIDs
  Instances,     \* instance IDs
  Keys,          \* ML-KEM public keys
  NoKey,         \* the empty e2e_pubkey
  Responses,     \* what GET /e2e/instances/{chute} may answer
  FetchError,    \* a request error, a non-200 answer or unparseable JSON
  None,
  DefaultTTL, MaxTTL, RejectTTL, SafetyMargin,  \* seconds
  MaxInstances,
  MaxFailures,   \* bound: MarkFailed stops counting here
  MaxClock       \* bound: the clock stops here

\* An entry of the answer: the instance, its key, how many nonces it lists.
ListedInstance == [id : Instances, key : Keys \cup {NoKey}, count : Nat]
Response == [instances : Seq(ListedInstance), nonceExpIn : Int]

ASSUME ResponsesAssumption == Responses \subseteq Response
ASSUME NullAssumption ==
  /\ None \notin Takers \cup Chutes
  /\ FetchError \notin Responses
  /\ NoKey \notin Keys
ASSUME BoundAssumption ==
  /\ DefaultTTL \in Nat /\ MaxTTL \in Nat /\ RejectTTL \in Nat /\ SafetyMargin \in Nat
  /\ 2 * SafetyMargin < MaxTTL
  /\ MaxTTL <= RejectTTL
  /\ MaxInstances \in Nat /\ MaxFailures \in Nat /\ MaxClock \in Nat

VARIABLES
  now,       \* the clock
  pools,     \* NoncePool.pools: the cached batch of each chute, or None
  failures,  \* NoncePool.failures, a missing count being 0
  flight,    \* the singleflight group: the leader refreshing the chute, or None
  fetches,   \* how many refreshes have been started
  pc,        \* where each call of Take is
  chute,     \* the chute the call resolved its model to
  batch,     \* the batch a leader has fetched and not installed, or None
  got        \* the E2EEMaterial the call returned, or None

vars == <<now, pools, failures, flight, fetches, pc, chute, batch, got>>

(***************************************************************************)
(* Types                                                                   *)
(***************************************************************************)
PoolInstance == [id : Instances, key : Keys \cup {NoKey}, next : Nat \ {0}, count : Nat]

\* A cached batch.  issuedAt, nonceExpIn and installedAt are ghosts: when the
\* server answered, the lifetime it promised, and when the batch was cached.
Batch == [no : Nat, instances : Seq(PoolInstance), expiresAt : Int,
          issuedAt : Nat, nonceExpIn : Int, installedAt : Nat]

\* The material of one request.  The nonce is <<no, index, pos>>; the other
\* fields are the instance, its key, and ghosts copied from the batch.
Material == [no : Nat, index : Nat, pos : Nat, id : Instances, key : Keys \cup {NoKey},
             at : Nat, issuedAt : Nat, nonceExpIn : Int, installedAt : Nat]
ASSUME MaterialAssumption == None \notin Material   \* nil is no material

PCs == {"start", "take", "join", "wait", "fetch", "install", "landed", "broken",
        "retake", "done", "failed"}

TypeOK ==
  /\ now \in 0 .. MaxClock
  /\ pools \in [Chutes -> Batch \cup {None}]
  /\ failures \in [Chutes -> [Instances -> 0 .. MaxFailures]]
  /\ flight \in [Chutes -> Takers \cup {None}]
  /\ fetches \in Nat
  /\ pc \in [Takers -> PCs]
  /\ chute \in [Takers -> Chutes \cup {None}]
  /\ batch \in [Takers -> Batch \cup {None}]
  /\ got \in [Takers -> Material \cup {None}]

Init ==
  /\ now = 0
  /\ pools = [c \in Chutes |-> None]
  /\ failures = [c \in Chutes |-> [i \in Instances |-> 0]]
  /\ flight = [c \in Chutes |-> None]
  /\ fetches = 0
  /\ pc = [t \in Takers |-> "start"]
  /\ chute = [t \in Takers |-> None]
  /\ batch = [t \in Takers |-> None]
  /\ got = [t \in Takers |-> None]

(***************************************************************************)
(* take: one critical section of NoncePool.mu                              *)
(***************************************************************************)

\* time.Now().After(pool.expiresAt) is false: the boundary instant is live.
Live(c) == /\ pools[c] # None
           /\ now <= pools[c].expiresAt

\* The positions of the instances that still have nonces.
Usable(c) == {i \in DOMAIN pools[c].instances :
                pools[c].instances[i].next <= pools[c].instances[i].count}

Failures(c, i) == failures[c][pools[c].instances[i].id]

\* The scan keeps the first index among those with the fewest failures.
Best(c, i) == \A j \in Usable(c) : \/ Failures(c, i) < Failures(c, j)
                                   \/ Failures(c, i) = Failures(c, j) /\ i <= j

\* inst.nonces = inst.nonces[1:]
PoppedNothing(inst) == inst   \* mutant: the nonce stays in the list
Popped(inst) == [inst EXCEPT !.next = @ + 1]

\* take returns material: pop the first nonce of the best instance.
TakeNonce(t) ==
  LET c == chute[t] IN
  /\ Live(c)
  /\ \E i \in Usable(c) :
       /\ Best(c, i)
       /\ LET p == pools[c]
              inst == p.instances[i]
          IN  /\ got' = [got EXCEPT ![t] =
                          [no |-> p.no, index |-> i, pos |-> inst.next,
                           id |-> inst.id, key |-> inst.key, at |-> now,
                           issuedAt |-> p.issuedAt, nonceExpIn |-> p.nonceExpIn,
                           installedAt |-> p.installedAt]]
              /\ pools' = [pools EXCEPT ![c].instances[i] = Popped(inst)]

\* take returns nil and drops an expired or used-up batch.
TakeNothing(t) ==
  LET c == chute[t] IN
  /\ Live(c) => Usable(c) = {}
  /\ pools' = [pools EXCEPT ![c] = None]
  /\ UNCHANGED got

(***************************************************************************)
(* doRefresh                                                               *)
(***************************************************************************)

\* The switch on resp.NonceExpIn, then the safety margin.
ClampTTL(ttl) == IF ttl <= 0 THEN DefaultTTL
                 ELSE IF ttl > MaxTTL THEN MaxTTL ELSE ttl
EffectiveTTLNoMargin(ttl) == ClampTTL(ttl)   \* mutant
EffectiveTTL(ttl) == IF ClampTTL(ttl) > 2 * SafetyMargin
                       THEN ClampTTL(ttl) - SafetyMargin
                       ELSE ClampTTL(ttl)

E2EECapableNoKeyCheck(inst) == inst.count > 0   \* mutant
E2EECapable(inst) == inst.key # NoKey /\ inst.count > 0

\* The answers doRefresh accepts; every other one is an error of the refresh.
Acceptable(r) ==
  /\ r # FetchError
  /\ Len(r.instances) \in 1 .. MaxInstances
  /\ r.nonceExpIn <= RejectTTL
  /\ \E i \in DOMAIN r.instances : E2EECapable(r.instances[i])

\* nonces[0], the head of a list nobody has taken from yet.
FirstNonceOffByOne == 0   \* mutant
FirstNonce == 1

\* The chutePool built from an answer; a skipped instance has nothing left.
PoolInstances(r) ==
  [i \in 1 .. Len(r.instances) |->
     [id    |-> r.instances[i].id,
      key   |-> r.instances[i].key,
      next  |-> FirstNonce,
      count |-> IF E2EECapable(r.instances[i]) THEN r.instances[i].count ELSE 0]]

(***************************************************************************)
(* Take                                                                    *)
(***************************************************************************)

\* resolver.Resolve: the model's chute, or an error that ends the call.
Resolve(t) ==
  /\ pc[t] = "start"
  /\ \/ /\ pc' = [pc EXCEPT ![t] = "failed"]
        /\ UNCHANGED chute
     \/ \E c \in Chutes :
          /\ pc' = [pc EXCEPT ![t] = "take"]
          /\ chute' = [chute EXCEPT ![t] = c]
  /\ UNCHANGED <<now, pools, failures, flight, fetches, batch, got>>

\* The fast path.
FastTake(t) ==
  /\ pc[t] = "take"
  /\ \/ /\ TakeNonce(t)
        /\ pc' = [pc EXCEPT ![t] = "done"]
     \/ /\ TakeNothing(t)
        /\ pc' = [pc EXCEPT ![t] = "join"]
  /\ UNCHANGED <<now, failures, flight, fetches, chute, batch>>

\* singleflight: nobody is refreshing this chute.
MayLeadAlways(c) == TRUE   \* mutant: no singleflight
MayLead(c) == flight[c] = None

\* refresh.Do: lead a refresh of the chute, or wait for the one in flight.
Join(t) ==
  /\ pc[t] = "join"
  /\ \/ /\ MayLead(chute[t])
        /\ flight' = [flight EXCEPT ![chute[t]] = t]
        /\ fetches' = fetches + 1
        /\ pc' = [pc EXCEPT ![t] = "fetch"]
        \* The number of the fetch is fixed when it starts.
        /\ batch' = [batch EXCEPT ![t] =
                      [no |-> fetches + 1, instances |-> << >>, expiresAt |-> 0,
                       issuedAt |-> now, nonceExpIn |-> 0, installedAt |-> now]]
     \/ /\ ~MayLead(chute[t])
        /\ pc' = [pc EXCEPT ![t] = "wait"]
        /\ UNCHANGED <<flight, fetches, batch>>
  /\ UNCHANGED <<now, pools, failures, chute, got>>

\* The server answers the leader's fetch, or the fetch fails (the leader's
\* context being cancelled is one way); a bad answer ends the refresh.
Fetch(t) ==
  /\ pc[t] = "fetch"
  /\ \E r \in Responses \cup {FetchError} :
       \/ /\ Acceptable(r)
          /\ batch' = [batch EXCEPT ![t].instances = PoolInstances(r),
                                    ![t].nonceExpIn = r.nonceExpIn,
                                    ![t].issuedAt = now]
          /\ pc' = [pc EXCEPT ![t] = "install"]
       \/ /\ ~Acceptable(r)
          /\ batch' = [batch EXCEPT ![t] = None]
          /\ pc' = [pc EXCEPT ![t] = "broken"]
  /\ UNCHANGED <<now, pools, failures, flight, fetches, chute, got>>

\* The answer is read, expiresAt computed and the batch cached under the lock.
Install(t) ==
  /\ pc[t] = "install"
  /\ pools' = [pools EXCEPT ![chute[t]] =
                [batch[t] EXCEPT !.installedAt = now,
                                 !.expiresAt = now + EffectiveTTL(batch[t].nonceExpIn)]]
  /\ batch' = [batch EXCEPT ![t] = None]
  /\ pc' = [pc EXCEPT ![t] = "landed"]
  /\ UNCHANGED <<now, failures, flight, fetches, chute, got>>

\* The calls blocked in refresh.Do on the flight that t leads, and t itself.
FlyingAlone(t) == {t}   \* mutant: the waiters are not woken
Flying(t) == {t} \cup {u \in Takers : pc[u] = "wait" /\ chute[u] = chute[t]}

\* singleflight: the function returned; its error is everyone's result.
EndFlight(t) ==
  /\ pc[t] \in {"landed", "broken"}
  /\ flight' = [flight EXCEPT ![chute[t]] = None]
  /\ pc' = [u \in Takers |->
              IF u \in Flying(t)
                THEN IF pc[t] = "landed" THEN "retake" ELSE "failed"
                ELSE pc[u]]
  /\ UNCHANGED <<now, pools, failures, fetches, chute, batch, got>>

\* The second take; with no nonce left the call fails.
Retake(t) ==
  /\ pc[t] = "retake"
  /\ \/ /\ TakeNonce(t)
        /\ pc' = [pc EXCEPT ![t] = "done"]
     \/ /\ TakeNothing(t)
        /\ pc' = [pc EXCEPT ![t] = "failed"]
  /\ UNCHANGED <<now, failures, flight, fetches, chute, batch>>

(***************************************************************************)
(* Feedback from requests.  Their material may come from an attestation    *)
(* instead of Take, so these calls can come at any time.                   *)
(***************************************************************************)
MarkFailed(c, i) ==
  /\ failures[c][i] < MaxFailures
  /\ failures' = [failures EXCEPT ![c][i] = @ + 1]
  /\ UNCHANGED <<now, pools, flight, fetches, pc, chute, batch, got>>

Invalidate(c) ==
  /\ pools' = [pools EXCEPT ![c] = None]
  /\ failures' = [failures EXCEPT ![c] = [i \in Instances |-> 0]]
  /\ UNCHANGED <<now, flight, fetches, pc, chute, batch, got>>

Tick ==
  /\ now < MaxClock
  /\ now' = now + 1
  /\ UNCHANGED <<pools, failures, flight, fetches, pc, chute, batch, got>>

\* The steps of the call t itself.
Step(t) == \/ Resolve(t) \/ FastTake(t) \/ Join(t) \/ Fetch(t)
           \/ Install(t) \/ EndFlight(t) \/ Retake(t)

Next == \/ \E t \in Takers : Step(t)
        \/ \E c \in Chutes, i \in Instances : MarkFailed(c, i)
        \/ \E c \in Chutes : Invalidate(c)
        \/ Tick

\* A goroutine that can run does; the HTTP client bounds every fetch.
Fairness == \A t \in Takers : WF_vars(Step(t))

Spec == Init /\ [][Next]_vars /\ Fairness

(***************************************************************************)
(* Properties                                                              *)
(***************************************************************************)

Nonce(m) == <<m.no, m.index, m.pos>>

\* No two calls of Take ever return the same nonce, whatever refreshes,
\* expiries and invalidations happen between them ("The nonce is consumed
\* (removed from the pool) atomically").
NonceSingleUse ==
  \A t, u \in Takers :
    t # u /\ got[t] # None /\ got[u] # None => Nonce(got[t]) # Nonce(got[u])

\* The clamp and the safety margin of doRefresh do their job: when the answer
\* was cached within the margin after the server issued it and the promised
\* lifetime is above twice the margin, no nonce is handed out after the
\* lifetime the server promised.
FreshWhenHandedOut ==
  \A t \in Takers :
    /\ got[t] # None
    /\ got[t].nonceExpIn > 2 * SafetyMargin
    /\ got[t].installedAt <= got[t].issuedAt + SafetyMargin
    => got[t].at <= got[t].issuedAt + got[t].nonceExpIn

\* Take never hands out material without an instance key, even when the
\* server's answer mixes usable and unusable instances.
KeyedMaterial == \A t \in Takers : got[t] # None => got[t].key # NoKey

\* One refresh of a chute runs at a time, so a batch is never replaced by one
\* whose fetch started earlier (a slow answer overwriting a newer one).
NewerBatchesOnly ==
  [][\A c \in Chutes : pools[c] # None /\ pools'[c] # None
                         => pools'[c].no >= pools[c].no]_pools

\* Every call of Take returns, with material or with an error: nobody is left
\* blocked in the singleflight group when the leader fails.
TakeReturns == \A t \in Takers : <>(pc[t] \in {"done", "failed"})

(***************************************************************************)
(* The inductive invariant behind the safety properties                    *)
(***************************************************************************)

\* t leads the refresh of its chute; t holds a batch it has not cached yet.
Leads(t) == pc[t] \in {"fetch", "install", "landed", "broken"}
Holds(t) == pc[t] \in {"fetch", "install"}

\* A call past its resolution has a chute; only a finished call has material.
CallInv ==
  \A t \in Takers : /\ pc[t] \notin {"start", "failed"} => chute[t] \in Chutes
                    /\ got[t] # None => pc[t] = "done"

\* The singleflight group knows the one leader of each chute.
LeaderInv == \A t \in Takers : Leads(t) => flight[chute[t]] = t

\* Batches are numbered by the fetches that brought them.
NumberInv ==
  /\ \A c \in Chutes : pools[c] # None => pools[c].no <= fetches
  /\ \A t \in Takers : Holds(t) => batch[t] \in Batch /\ batch[t].no <= fetches
  /\ \A t \in Takers : got[t] # None => got[t].no <= fetches

\* A batch number is in one place: one cached batch or one leader's batch,
\* and no nonce of a batch not yet cached has been handed out.
PlaceInv ==
  /\ \A c, d \in Chutes :
       c # d /\ pools[c] # None /\ pools[d] # None => pools[c].no # pools[d].no
  /\ \A t, u \in Takers : t # u /\ Holds(t) /\ Holds(u) => batch[t].no # batch[u].no
  /\ \A t \in Takers, c \in Chutes :
       Holds(t) /\ pools[c] # None => batch[t].no # pools[c].no
  /\ \A t, u \in Takers : Holds(t) /\ got[u] # None => batch[t].no # got[u].no

\* What a leader brings is newer than what its chute has cached.
NewerInv ==
  \A t \in Takers :
    Holds(t) /\ pools[chute[t]] # None => pools[chute[t]].no < batch[t].no

\* A nonce handed out from a batch still cached lies before the list's head.
ConsumedInv ==
  \A t \in Takers, c \in Chutes :
    got[t] # None /\ pools[c] # None /\ got[t].no = pools[c].no
      => /\ got[t].index \in DOMAIN pools[c].instances
         /\ got[t].pos < pools[c].instances[got[t].index].next

\* An instance with nonces left has a key, wherever its batch is.
KeyedBatch(b) ==
  \A i \in DOMAIN b.instances :
    b.instances[i].next <= b.instances[i].count => b.instances[i].key # NoKey
KeyInv ==
  /\ \A c \in Chutes : pools[c] # None => KeyedBatch(pools[c])
  /\ \A t \in Takers : pc[t] = "install" => KeyedBatch(batch[t])
  /\ KeyedMaterial

\* A cached batch expires one effective lifetime after it was cached, and
\* nothing is handed out after that.
ExpiryInv ==
  /\ \A c \in Chutes :
       pools[c] # None
         => pools[c].expiresAt = pools[c].installedAt + EffectiveTTL(pools[c].nonceExpIn)
  /\ \A t \in Takers :
       got[t] # None => got[t].at <= got[t].installedAt + EffectiveTTL(got[t].nonceExpIn)

\* The inductive invariant for single use, and the whole one.
UseInv == /\ TypeOK /\ CallInv /\ LeaderInv /\ NumberInv /\ PlaceInv
          /\ NewerInv /\ ConsumedInv /\ NonceSingleUse
IInv == UseInv /\ KeyInv /\ ExpiryInv

\* A call that is done has its material.
DoneInv == \A t \in Takers : pc[t] = "done" => got[t] # None

(***************************************************************************)
(* The refinement                                                          *)
(***************************************************************************)

\* Take implements NonceSource: every call ends at most once, with an error
\* or with keyed material whose nonce nobody was given before, and neither
\* a refresh nor MarkFailed, Invalidate or another call changes the outcome.
Source == INSTANCE NonceSource WITH
            status <- [t \in Takers |-> IF pc[t] \in {"done", "failed"} THEN pc[t] ELSE "waiting"],
            result <- [t \in Takers |-> IF pc[t] = "done"
                                           THEN [nonce |-> Nonce(got[t]), key |-> got[t].key]
                                           ELSE None]

ImplementsSource == Source!Spec

=============================================================================
