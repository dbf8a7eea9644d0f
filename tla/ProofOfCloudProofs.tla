------------------------- MODULE ProofOfCloudProofs -------------------------
(***************************************************************************)
(* Proofs about ProofOfCloud, for every number of trust servers, every     *)
(* quorum and every set of tokens: its safety properties, and that it      *)
(* implements QuorumVote.                                                  *)
(***************************************************************************)
EXTENDS ProofOfCloud, FiniteSetTheorems, SequenceTheorems, TLAPS

(***************************************************************************)
(* Counting and sorting                                                    *)
(***************************************************************************)

\* n different values are n values.
LEMMA DistinctImages ==
  ASSUME NEW n \in Nat, NEW S, NEW f \in [1 .. n -> S],
         \A i, j \in 1 .. n : f[i] = f[j] => i = j,
         \A x \in S : \E i \in 1 .. n : x = f[i]
  PROVE  IsFiniteSet(S) /\ Cardinality(S) = n
<1>1. f \in Bijection(1 .. n, S)
  BY DEF Bijection, Injection, Surjection, IsInjective
<1>2. ExistsBijection(1 .. n, S)
  BY <1>1 DEF ExistsBijection
<1>3. Cardinality(S) = n
  BY <1>2, FS_CountingElements
<1>4. IsFiniteSet(S)
  BY <1>2, FS_NatBijection
<1> QED
  BY <1>3, <1>4

\* Different numbers can be put in order: each one goes to the place that the
\* count of smaller ones gives it.
LEMMA OrderExists ==
  ASSUME NEW n \in Nat, NEW k \in [1 .. n -> Int],
         \A i, j \in 1 .. n : k[i] = k[j] => i = j
  PROVE  \E f \in [1 .. n -> 1 .. n] : \A i, j \in 1 .. n : i < j => k[f[i]] < k[f[j]]
<1> DEFINE Below(i) == {j \in 1 .. n : k[j] < k[i]}
           rank == [i \in 1 .. n |-> Cardinality(Below(i)) + 1]
<1>1. IsFiniteSet(1 .. n) /\ Cardinality(1 .. n) = n
  BY FS_Interval
<1>2. ASSUME NEW i \in 1 .. n
      PROVE  IsFiniteSet(Below(i)) /\ Cardinality(Below(i)) \in Nat /\ Cardinality(Below(i)) < n
  <2>1. Below(i) \in SUBSET (1 .. n) /\ i \notin Below(i)
    OBVIOUS
  <2>2. Below(i) # 1 .. n
    BY <2>1
  <2> HIDE DEF Below
  <2>3. IsFiniteSet(Below(i)) /\ Cardinality(Below(i)) <= n /\ Cardinality(Below(i)) # n
    BY <1>1, <2>1, <2>2, FS_Subset
  <2> QED
    BY <2>3, FS_CardinalityType
<1>3. ASSUME NEW i \in 1 .. n, NEW j \in 1 .. n, k[i] < k[j]
      PROVE  rank[i] < rank[j]
  <2>1. Below(i) \in SUBSET Below(j) /\ i \in Below(j) /\ i \notin Below(i)
    BY <1>3
  <2>2. Below(i) # Below(j)
    BY <2>1
  <2>3. rank[i] = Cardinality(Below(i)) + 1 /\ rank[j] = Cardinality(Below(j)) + 1
    OBVIOUS
  <2> HIDE DEF Below, rank
  <2>4. Cardinality(Below(i)) <= Cardinality(Below(j)) /\ Cardinality(Below(i)) # Cardinality(Below(j))
    BY <1>2, <2>1, <2>2, FS_Subset
  <2> QED
    BY <1>2, <2>3, <2>4
<1>4. rank \in [1 .. n -> 1 .. n]
  <2>1. ASSUME NEW i \in 1 .. n PROVE Cardinality(Below(i)) + 1 \in 1 .. n
    <3> HIDE DEF Below
    <3> QED
      BY <1>2
  <2> QED
    BY <2>1
<1> HIDE DEF rank
<1>5. \A i, j \in 1 .. n : rank[i] = rank[j] => i = j
  <2> SUFFICES ASSUME NEW i \in 1 .. n, NEW j \in 1 .. n, i # j
               PROVE  rank[i] # rank[j]
    OBVIOUS
  <2>1. k[i] < k[j] \/ k[j] < k[i]
    OBVIOUS
  <2>2. rank[i] \in Int /\ rank[j] \in Int
    BY <1>4
  <2> QED
    BY <1>3, <2>1, <2>2
<1>6. rank \in Surjection(1 .. n, 1 .. n)
  <2>1. rank \in Injection(1 .. n, 1 .. n)
    BY <1>4, <1>5 DEF Injection, IsInjective
  <2> QED
    BY <1>1, <2>1, FS_Injection
<1>7. \A v \in 1 .. n : \E i \in 1 .. n : rank[i] = v
  BY <1>6 DEF Surjection
<1> DEFINE f == [v \in 1 .. n |-> CHOOSE i \in 1 .. n : rank[i] = v]
<1>8. \A v \in 1 .. n : f[v] \in 1 .. n /\ rank[f[v]] = v
  BY <1>7
<1>9. f \in [1 .. n -> 1 .. n]
  BY <1>8
<1> HIDE DEF f
<1>10. ASSUME NEW i \in 1 .. n, NEW j \in 1 .. n, i < j
       PROVE  k[f[i]] < k[f[j]]
  <2>1. f[i] \in 1 .. n /\ f[j] \in 1 .. n /\ rank[f[i]] = i /\ rank[f[j]] = j
    BY <1>8
  <2>2. k[f[i]] \in Int /\ k[f[j]] \in Int
    BY <2>1
  <2>3. k[f[i]] # k[f[j]]
    BY <1>10, <2>1
  <2>4. ~(k[f[j]] < k[f[i]])
    BY <1>3, <1>10, <2>1
  <2> QED
    BY <2>2, <2>3, <2>4
<1> QED
  BY <1>9, <1>10

LEMMA EntryParts ==
  ASSUME NEW e \in Entry
  PROVE  e.peer \in Peers /\ e.peer \in Int /\ e.moniker \in Monikers /\ e.machine \in Machines \cup {NoId}
<1>1. e.peer \in Peers /\ e.moniker \in Monikers /\ e.machine \in Machines \cup {NoId}
  BY DEF Entry
<1>2. Peers \subseteq Int
  BY PeersAssumption
<1> QED
  BY <1>1, <1>2

LEMMA NonceParts ==
  ASSUME NEW ns \in Seq(Entry), NEW i \in DOMAIN ns
  PROVE  /\ ns[i].peer \in Peers /\ ns[i].peer \in Int /\ ns[i].moniker \in Monikers
         /\ ns[i].machine \in Machines \cup {NoId} /\ ns[i] \in Entry
<1>1. ns[i] \in Entry
  BY LenProperties, ElementOfSeq
<1> QED
  BY <1>1, EntryParts

\* What the sort returns: the same entries, in the order of their servers.
LEMMA ByPeerEffect ==
  ASSUME NEW ns \in Seq(Entry),
         \A i, j \in DOMAIN ns : ns[i].peer = ns[j].peer => i = j
  PROVE  LET s == ByPeer(ns) IN
         /\ s \in Seq(Entry) /\ Len(s) = Len(ns)
         /\ \A i, j \in DOMAIN s : i < j => s[i].peer < s[j].peer
         /\ \A i \in DOMAIN s : \E j \in DOMAIN ns : s[i] = ns[j]
<1> DEFINE n == Len(ns)
           k == [i \in 1 .. n |-> ns[i].peer]
           Ordered(f) == \A i, j \in DOMAIN ns : i < j => ns[f[i]].peer < ns[f[j]].peer
<1>1. n \in Nat /\ DOMAIN ns = 1 .. n /\ \A i \in 1 .. n : ns[i] \in Entry
  BY ElementOfSeq
<1>2. k \in [1 .. n -> Int]
  <2>1. \A i \in 1 .. n : ns[i].peer \in Int
    BY <1>1, EntryParts
  <2> QED
    BY <2>1
<1>3. \E f \in [DOMAIN ns -> DOMAIN ns] : Ordered(f)
  <2>1. PICK f \in [1 .. n -> 1 .. n] : \A i, j \in 1 .. n : i < j => k[f[i]] < k[f[j]]
    BY <1>1, <1>2, OrderExists
  <2>2. \A i \in 1 .. n : f[i] \in 1 .. n /\ k[f[i]] = ns[f[i]].peer
    OBVIOUS
  <2>3. Ordered(f)
    BY <1>1, <2>1, <2>2
  <2> QED
    BY <1>1, <2>3
<1> DEFINE from == CHOOSE f \in [DOMAIN ns -> DOMAIN ns] : Ordered(f)
<1>4. from \in [DOMAIN ns -> DOMAIN ns] /\ Ordered(from)
  BY <1>3
<1>5. ByPeer(ns) = [i \in DOMAIN ns |-> ns[from[i]]]
  BY DEF ByPeer
<1> HIDE DEF from
<1> DEFINE s == ByPeer(ns)
<1>6. DOMAIN s = 1 .. n /\ \A i \in 1 .. n : s[i] = ns[from[i]] /\ from[i] \in 1 .. n
  BY <1>1, <1>4, <1>5
<1>7. s \in [1 .. n -> Entry]
  BY <1>1, <1>5, <1>6
<1>8. s \in Seq(Entry) /\ Len(s) = n
  BY <1>1, <1>7, SeqDef, LenProperties
<1>9. \A i, j \in DOMAIN s : i < j => s[i].peer < s[j].peer
  BY <1>1, <1>4, <1>6
<1>10. \A i \in DOMAIN s : \E j \in DOMAIN ns : s[i] = ns[j]
  BY <1>1, <1>6
<1> HIDE DEF s
<1>11. /\ s \in Seq(Entry) /\ Len(s) = Len(ns)
       /\ \A i, j \in DOMAIN s : i < j => s[i].peer < s[j].peer
       /\ \A i \in DOMAIN s : \E j \in DOMAIN ns : s[i] = ns[j]
  BY <1>8, <1>9, <1>10
<1> QED
  BY <1>11 DEF s

(***************************************************************************)
(* What the steps work on                                                  *)
(***************************************************************************)

LEMMA ResultParts ==
  ASSUME NEW c \in Result
  PROVE  /\ c.kind \in {"nonce", "error", "forbidden"}
         /\ c.kind = "nonce" => c.entry \in Entry
         /\ PeerOf(c) \in Peers /\ SaidBy(c) \in Answer
<1>1. CASE c \in [kind : {"nonce"}, entry : Entry]
  BY <1>1 DEF PeerOf, SaidBy, Answer, Entry
<1>2. CASE c \in [kind : {"error", "forbidden"}, peer : Peers]
  BY <1>2 DEF PeerOf, SaidBy, Answer
<1> QED
  BY <1>1, <1>2 DEF Result

LEMMA CollectedParts ==
  ASSUME NEW p \in Peers, NEW r \in Reply
  PROVE  Collected(p, r) \in Result /\ PeerOf(Collected(p, r)) = p
<1>1. CASE r.status = 403
  BY <1>1 DEF Collected, Result, PeerOf
<1>2. CASE r.status = 200 /\ r.parsed /\ r.moniker # NoId
  <2>1. r \in [status : {200}, parsed : BOOLEAN, moniker : Monikers \cup {NoId},
               machine : Machines \cup {NoId}]
    BY <1>2 DEF Reply
  <2>2. [peer |-> p, moniker |-> r.moniker, machine |-> r.machine] \in Entry
    BY <1>2, <2>1 DEF Entry
  <2>3. Collected(p, r) = [kind |-> "nonce", entry |->
          [peer |-> p, moniker |-> r.moniker, machine |-> r.machine]]
    BY <1>2 DEF Collected
  <2> QED
    BY <2>2, <2>3 DEF Result, PeerOf
<1>3. CASE ~(r.status = 403) /\ ~(r.status = 200 /\ r.parsed /\ r.moniker # NoId)
  <2>1. Collected(p, r) = [kind |-> "error", peer |-> p]
    BY <1>3 DEF Collected
  <2> QED
    BY <2>1 DEF Result, PeerOf
<1> QED
  BY <1>1, <1>2, <1>3

LEMMA Appended ==
  ASSUME NEW S, NEW s \in Seq(S), NEW e \in S
  PROVE  /\ Append(s, e) \in Seq(S) /\ Len(Append(s, e)) = Len(s) + 1
         /\ \A i \in DOMAIN Append(s, e) :
              \/ i \in DOMAIN s /\ Append(s, e)[i] = s[i]
              \/ i = Len(s) + 1 /\ Append(s, e)[i] = e
         /\ Len(s) \in Nat /\ DOMAIN s = 1 .. Len(s)
BY LenProperties

LEMMA Shifted ==
  ASSUME NEW S, NEW s \in Seq(S), s # <<>>
  PROVE  /\ Tail(s) \in Seq(S) /\ Len(Tail(s)) = Len(s) - 1
         /\ Head(s) = s[1] /\ s[1] \in S /\ 1 \in DOMAIN s
         /\ \A i \in DOMAIN Tail(s) : i + 1 \in DOMAIN s /\ i # 0 /\ Tail(s)[i] = s[i + 1] /\ i \in Int
         /\ Len(s) \in Nat
<1>1. Len(s) \in Nat \ {0} /\ DOMAIN s = 1 .. Len(s)
  BY EmptySeq, LenProperties
<1>2. /\ Tail(s) \in Seq(S) /\ Len(Tail(s)) = Len(s) - 1
      /\ \A i \in 1 .. Len(Tail(s)) : Tail(s)[i] = s[i + 1]
  BY HeadTailProperties
<1>3. DOMAIN Tail(s) = 1 .. Len(s) - 1
  BY <1>2, LenProperties
<1>4. Head(s) = s[1] /\ s[1] \in S
  BY <1>1, ElementOfSeq
<1> QED
  BY <1>1, <1>2, <1>3, <1>4

LEMMA QuorumIsPositive == Quorum \in Nat /\ Quorum >= 1 /\ Cardinality(Peers) \in Nat
BY PeersAssumption, QuorumAssumption, FS_CardinalityType

(***************************************************************************)
(* The initial state and the goroutines                                    *)
(***************************************************************************)

LEMMA InitInv == Init => Inv
<1> SUFFICES ASSUME Init PROVE Inv
  OBVIOUS
<1> USE DEF Init
<1>1. channel \in Seq(Result) /\ nonces \in Seq(Entry) /\ Len(channel) = 0 /\ Len(nonces) = 0
  BY EmptySeq
<1>2. DOMAIN channel = {} /\ DOMAIN nonces = {}
  OBVIOUS
<1>3. TypeOK
  BY <1>1, QuorumIsPositive DEF TypeOK, Answer, Outcome
<1>4. OncePerPeer /\ Standing /\ Progress
  BY <1>1, <1>2, QuorumIsPositive DEF OncePerPeer, Standing, Progress
<1>5. RegisteredIsVouched /\ ChainInPeerOrder
  BY IdsAssumption DEF RegisteredIsVouched, ChainInPeerOrder
<1> QED
  BY <1>3, <1>4, <1>5 DEF Inv

LEMMA PostInv ==
  ASSUME Inv, NEW p \in Peers, Post(p)
  PROVE  Inv'
<1>1. PICK r \in Reply :
        LET c == Collected(p, r) IN
        /\ channel' = Append(channel, c)
        /\ said' = IF pc = "collect" THEN [said EXCEPT ![p] = SaidBy(c)] ELSE said
  BY DEF Post
<1> DEFINE c == Collected(p, r)
<1>2. c \in Result /\ PeerOf(c) = p /\ SaidBy(c) \in Answer
  BY CollectedParts, ResultParts
<1>3. /\ channel' = Append(channel, c)
      /\ said' = IF pc = "collect" THEN [said EXCEPT ![p] = SaidBy(c)] ELSE said
  BY <1>1
<1>4. /\ p \in posting /\ posting' = posting \ {p}
      /\ UNCHANGED <<pc, received, nonces, signer, sigs, token, result>>
  BY DEF Post
<1> HIDE DEF c
<1>5. TypeOK /\ OncePerPeer /\ Standing /\ Progress /\ ChainInPeerOrder /\ RegisteredIsVouched
  BY DEF Inv
<1>6. /\ channel' \in Seq(Result) /\ Len(channel') = Len(channel) + 1 /\ Len(channel) \in Nat
      /\ \A i \in DOMAIN channel' : \/ i \in DOMAIN channel /\ channel'[i] = channel[i]
                                    \/ i = Len(channel) + 1 /\ channel'[i] = c
  BY <1>2, <1>3, <1>5, Appended DEF TypeOK
<1>7. Cardinality(posting') = Cardinality(posting) - 1 /\ Cardinality(posting) \in Nat
  <2>1. posting \in SUBSET Peers
    BY <1>5 DEF TypeOK
  <2>2. IsFiniteSet(posting)
    BY <2>1, PeersAssumption, FS_Subset
  <2> QED
    BY <1>4, <2>2, FS_RemoveElement, FS_CardinalityType
<1>8. said' \in [Peers -> Answer] /\ \A q \in Peers : q # p => said'[q] = said[q]
  BY <1>2, <1>3, <1>5 DEF TypeOK
<1>9. pc = "collect" => said'[p] = SaidBy(c)
  BY <1>3, <1>5 DEF TypeOK
<1>10. TypeOK'
  BY <1>4, <1>5, <1>6, <1>7, <1>8 DEF TypeOK, Progress
<1>11. /\ \A i \in DOMAIN channel : PeerOf(channel[i]) \in Peers /\ PeerOf(channel[i]) # p
       /\ \A i \in DOMAIN nonces : nonces[i].peer \in Peers /\ nonces[i].peer # p
  <2>1. \A i \in DOMAIN channel : PeerOf(channel[i]) \in Peers
    BY <1>5, LenProperties, ElementOfSeq, ResultParts DEF TypeOK
  <2>2. \A i \in DOMAIN nonces : nonces[i].peer \in Peers
    BY <1>5, NonceParts DEF TypeOK
  <2> QED
    BY <1>4, <1>5, <2>1, <2>2 DEF OncePerPeer
<1>12. OncePerPeer'
  BY <1>2, <1>4, <1>5, <1>6, <1>11 DEF OncePerPeer
<1>13. Standing'
  <2>1. ASSUME pc' = "collect", NEW i \in DOMAIN channel', channel'[i].kind \in {"nonce", "forbidden"}
        PROVE  said'[PeerOf(channel'[i])] = SaidBy(channel'[i])
    BY <1>2, <1>4, <1>5, <1>6, <1>8, <1>9, <1>11, <2>1 DEF Standing
  <2>2. ASSUME pc' \in {"collect", "chain"}, NEW i \in DOMAIN nonces'
        PROVE  said'[nonces'[i].peer] = nonces'[i].machine
    BY <1>4, <1>5, <1>8, <1>11, <2>2 DEF Standing
  <2> QED
    BY <2>1, <2>2 DEF Standing
<1>14. Progress'
  BY <1>4, <1>5 DEF Progress, MachinesAgree, MonikersDiffer
<1>15. ChainInPeerOrder' /\ RegisteredIsVouched'
  BY <1>4, <1>5 DEF ChainInPeerOrder, RegisteredIsVouched
<1> QED
  BY <1>10, <1>12, <1>13, <1>14, <1>15 DEF Inv

(***************************************************************************)
(* Receiving a result                                                      *)
(***************************************************************************)

\* Taking a result out of the channel leaves every server in one place.
LEMMA Taken ==
  ASSUME Inv, channel # <<>>, channel' = Tail(channel), posting' = posting, received' = received + 1
  PROVE  /\ channel' \in Seq(Result) /\ received' \in Nat
         /\ received' + Len(channel') + Cardinality(posting') = Cardinality(Peers)
         /\ \A i \in DOMAIN channel' : PeerOf(channel'[i]) \notin posting'
         /\ \A i, j \in DOMAIN channel' : PeerOf(channel'[i]) = PeerOf(channel'[j]) => i = j
         /\ \A i \in DOMAIN nonces, j \in DOMAIN channel' : nonces[i].peer # PeerOf(channel'[j])
         /\ \A i \in DOMAIN channel' : PeerOf(channel[1]) # PeerOf(channel'[i])
         /\ \A i \in DOMAIN channel' : channel'[i].kind \in {"nonce", "forbidden"} /\ pc = "collect" =>
              said[PeerOf(channel'[i])] = SaidBy(channel'[i])
<1>1. TypeOK /\ OncePerPeer /\ Standing /\ Progress
  BY DEF Inv
<1>2. /\ channel' \in Seq(Result) /\ Len(channel') = Len(channel) - 1 /\ Len(channel) \in Nat
      /\ 1 \in DOMAIN channel
      /\ \A i \in DOMAIN channel' : i + 1 \in DOMAIN channel /\ i # 0 /\ channel'[i] = channel[i + 1] /\ i \in Int
  BY <1>1, Shifted DEF TypeOK
<1>3. Cardinality(posting) \in Nat
  <2>1. posting \in SUBSET Peers
    BY <1>1 DEF TypeOK
  <2> QED
    BY <2>1, PeersAssumption, FS_Subset, FS_CardinalityType
<1>4. received' \in Nat /\ received' + Len(channel') + Cardinality(posting') = Cardinality(Peers)
  BY <1>1, <1>2, <1>3 DEF TypeOK, Progress
<1>5. \A i, j \in DOMAIN channel' : PeerOf(channel'[i]) = PeerOf(channel'[j]) => i = j
  BY <1>1, <1>2 DEF OncePerPeer
<1>6. \A i \in DOMAIN channel' : PeerOf(channel[1]) # PeerOf(channel'[i])
  BY <1>1, <1>2 DEF OncePerPeer
<1>7. /\ \A i \in DOMAIN channel' : PeerOf(channel'[i]) \notin posting'
      /\ \A i \in DOMAIN nonces, j \in DOMAIN channel' : nonces[i].peer # PeerOf(channel'[j])
  BY <1>1, <1>2 DEF OncePerPeer
<1>8. \A i \in DOMAIN channel' : channel'[i].kind \in {"nonce", "forbidden"} /\ pc = "collect" =>
              said[PeerOf(channel'[i])] = SaidBy(channel'[i])
  BY <1>1, <1>2 DEF Standing
<1> QED
  BY <1>2, <1>4, <1>5, <1>6, <1>7, <1>8

\* What the entries of a lookup must satisfy before and after the sort.
Fit(ns) ==
  /\ ns \in Seq(Entry)
  /\ \A i \in DOMAIN ns : ns[i].peer \notin posting
  /\ \A i \in DOMAIN ns, j \in DOMAIN Tail(channel) : ns[i].peer # PeerOf(Tail(channel)[j])
  /\ \A i, j \in DOMAIN ns : ns[i].peer = ns[j].peer => i = j
  /\ \A i \in DOMAIN ns : said[ns[i].peer] = ns[i].machine

\* The received entry fits those before it.
LEMMA NewNonces ==
  ASSUME Inv, pc = "collect", channel # <<>>
  PROVE  LET c == Head(channel)
             ns == IF c.kind = "nonce" THEN Append(nonces, c.entry) ELSE nonces
         IN  Fit(ns) /\ Len(ns) <= Quorum
<1> DEFINE c == Head(channel)
           ns == IF c.kind = "nonce" THEN Append(nonces, c.entry) ELSE nonces
           tl == Tail(channel)
<1>1. TypeOK /\ OncePerPeer /\ Standing /\ Progress
  BY DEF Inv
<1>2. /\ c = channel[1] /\ 1 \in DOMAIN channel /\ c \in Result
      /\ \A i \in DOMAIN tl : i + 1 \in DOMAIN channel /\ i # 0 /\ tl[i] = channel[i + 1] /\ i \in Int
  BY <1>1, Shifted DEF TypeOK
<1>3. Len(nonces) < Quorum /\ Len(nonces) \in Nat /\ nonces \in Seq(Entry) /\ Quorum \in Nat
  BY <1>1, QuorumIsPositive, LenProperties DEF TypeOK, Progress
<1> HIDE DEF tl, c
<1>4. CASE c.kind # "nonce"
  <2>1. ns = nonces
    BY <1>4
  <2> HIDE DEF ns
  <2>2. \A i \in DOMAIN ns, j \in DOMAIN tl : ns[i].peer # PeerOf(tl[j])
    BY <1>1, <1>2, <2>1 DEF OncePerPeer
  <2>3. Fit(ns)
    BY <1>1, <1>3, <2>1, <2>2 DEF Fit, OncePerPeer, Standing, tl
  <2> QED
    BY <1>3, <2>1, <2>3 DEF ns, c
<1>5. CASE c.kind = "nonce"
  <2> DEFINE e == c.entry
  <2>1. e \in Entry /\ PeerOf(c) = e.peer /\ SaidBy(c) = e.machine
    BY <1>2, <1>5, ResultParts DEF PeerOf, SaidBy
  <2>2. ns = Append(nonces, e)
    BY <1>5
  <2> HIDE DEF ns, e
  <2>3. /\ ns \in Seq(Entry) /\ Len(ns) = Len(nonces) + 1 /\ DOMAIN nonces = 1 .. Len(nonces)
        /\ \A i \in DOMAIN ns : \/ i \in DOMAIN nonces /\ ns[i] = nonces[i]
                                \/ i = Len(nonces) + 1 /\ ns[i] = e
    BY <1>3, <2>1, <2>2, Appended
  <2>4. /\ e.peer \notin posting /\ said[e.peer] = e.machine
        /\ \A i \in DOMAIN nonces : nonces[i].peer # e.peer
        /\ \A j \in DOMAIN tl : e.peer # PeerOf(tl[j])
    BY <1>1, <1>2, <1>5, <2>1 DEF OncePerPeer, Standing
  <2>5. \A i \in DOMAIN ns, j \in DOMAIN tl : ns[i].peer # PeerOf(tl[j])
    BY <1>1, <1>2, <2>3, <2>4 DEF OncePerPeer
  <2>6. \A i, j \in DOMAIN ns : ns[i].peer = ns[j].peer => i = j
    BY <1>1, <2>3, <2>4 DEF OncePerPeer
  <2>7. \A i \in DOMAIN ns : ns[i].peer \notin posting /\ said[ns[i].peer] = ns[i].machine
    BY <1>1, <2>3, <2>4 DEF OncePerPeer, Standing
  <2>8. Fit(ns)
    BY <2>3, <2>5, <2>6, <2>7 DEF Fit, tl
  <2> QED
    BY <1>3, <2>3, <2>8 DEF ns, c, e
<1> QED
  BY <1>4, <1>5

\* The sort keeps what the checks rely on.
LEMMA SortedFits ==
  ASSUME NEW ns, Fit(ns)
  PROVE  /\ Fit(ByPeer(ns)) /\ Len(ByPeer(ns)) = Len(ns)
         /\ \A i, j \in DOMAIN ByPeer(ns) : i < j => ByPeer(ns)[i].peer < ByPeer(ns)[j].peer
<1> DEFINE s == ByPeer(ns)
<1>1. /\ s \in Seq(Entry) /\ Len(s) = Len(ns)
      /\ \A i, j \in DOMAIN s : i < j => s[i].peer < s[j].peer
      /\ \A i \in DOMAIN s : \E j \in DOMAIN ns : s[i] = ns[j]
  BY ByPeerEffect DEF Fit
<1> HIDE DEF s
<1>2. \A i, j \in DOMAIN s : s[i].peer = s[j].peer => i = j
  <2> SUFFICES ASSUME NEW i \in DOMAIN s, NEW j \in DOMAIN s, s[i].peer = s[j].peer, i # j
               PROVE  FALSE
    OBVIOUS
  <2>1. i \in Int /\ j \in Int
    BY <1>1, LenProperties
  <2>2. s[i].peer \in Int
    BY <1>1, NonceParts
  <2>3. i < j \/ j < i
    BY <2>1
  <2> QED
    BY <1>1, <2>2, <2>3
<1>3. Fit(s)
  BY <1>1, <1>2 DEF Fit
<1> QED
  BY <1>1, <1>3 DEF s

LEMMA ReceiveInv ==
  ASSUME Inv, Receive
  PROVE  Inv'
<1> DEFINE c == Head(channel)
           ns == IF c.kind = "nonce" THEN Append(nonces, c.entry) ELSE nonces
<1>1. /\ pc = "collect" /\ channel # <<>> /\ channel' = Tail(channel) /\ received' = received + 1
      /\ UNCHANGED <<posting, signer, sigs, said, token>>
  BY DEF Receive
<1>2. \/ Finish("unregistered") /\ UNCHANGED nonces
      \/ Len(ns) >= Quorum /\ EnterChain(ns)
      \/ /\ Len(ns) < Quorum /\ nonces' = ns
         /\ Finish("unknown") \/ UNCHANGED <<pc, result>>
  BY DEF Receive
<1>3. Fit(ns) /\ Len(ns) <= Quorum
  BY <1>1, NewNonces
<1>4. /\ channel' \in Seq(Result) /\ received' \in Nat
      /\ received' + Len(channel') + Cardinality(posting') = Cardinality(Peers)
      /\ \A i \in DOMAIN channel' : PeerOf(channel'[i]) \notin posting'
      /\ \A i, j \in DOMAIN channel' : PeerOf(channel'[i]) = PeerOf(channel'[j]) => i = j
      /\ \A i \in DOMAIN nonces, j \in DOMAIN channel' : nonces[i].peer # PeerOf(channel'[j])
      /\ \A i \in DOMAIN channel' : channel'[i].kind \in {"nonce", "forbidden"} =>
           said[PeerOf(channel'[i])] = SaidBy(channel'[i])
  BY <1>1, Taken
<1>5. TypeOK /\ OncePerPeer /\ Standing /\ Progress
  BY DEF Inv
<1>6. result = "pending" /\ Quorum \in Nat /\ Quorum >= 1 /\ signer = 1
  BY <1>1, <1>5, QuorumIsPositive DEF TypeOK, Progress
<1>7. result' \notin Machines => RegisteredIsVouched'
  BY DEF RegisteredIsVouched
<1>8. "pending" \notin Machines /\ "unknown" \notin Machines /\ "unregistered" \notin Machines
  BY IdsAssumption
<1> HIDE DEF ns, c
<1>9. CASE Finish("unregistered") /\ UNCHANGED nonces
  <2>1. TypeOK'
    BY <1>1, <1>4, <1>5, <1>9 DEF TypeOK, Finish, Outcome
  <2>2. OncePerPeer' /\ Standing' /\ Progress' /\ ChainInPeerOrder'
    BY <1>1, <1>4, <1>5, <1>9 DEF OncePerPeer, Standing, Progress, ChainInPeerOrder, Finish
  <2> QED
    BY <1>7, <1>8, <1>9, <2>1, <2>2 DEF Inv, Finish
<1>10. ASSUME NEW s, Fit(s), nonces' = s, Len(s) <= Quorum
       PROVE  /\ nonces' \in Seq(Entry) /\ Len(nonces') <= Quorum /\ OncePerPeer'
              /\ \A i \in DOMAIN nonces' : said'[nonces'[i].peer] = nonces'[i].machine
  BY <1>1, <1>4, <1>10 DEF OncePerPeer, Fit
<1>11. CASE Len(ns) >= Quorum /\ EnterChain(ns)
  <2> DEFINE s == ByPeer(ns)
  <2>1. /\ Fit(s) /\ Len(s) = Len(ns)
        /\ \A i, j \in DOMAIN s : i < j => s[i].peer < s[j].peer
    BY <1>3, SortedFits
  <2>2. /\ nonces' = s
        /\ \/ MachinesAgree(s) /\ MonikersDiffer(s) /\ pc' = "chain" /\ result' = result
           \/ pc' = "done" /\ result' = "unknown"
    BY <1>11 DEF EnterChain, Finish
  <2> HIDE DEF s
  <2>3. Len(s) = Quorum
    <3>1. Len(ns) \in Nat
      BY <1>3, LenProperties DEF Fit
    <3> QED
      BY <1>3, <1>6, <1>11, <2>1, <3>1
  <2>4. /\ nonces' \in Seq(Entry) /\ Len(nonces') <= Quorum /\ OncePerPeer'
        /\ \A i \in DOMAIN nonces' : said'[nonces'[i].peer] = nonces'[i].machine
    BY <1>6, <1>10, <2>1, <2>2, <2>3
  <2>5. TypeOK'
    BY <1>1, <1>4, <1>5, <1>6, <2>2, <2>4 DEF TypeOK, Outcome
  <2>6. Standing' /\ ChainInPeerOrder'
    BY <2>1, <2>2, <2>4 DEF Standing, ChainInPeerOrder
  <2>7. Progress'
    BY <1>1, <1>4, <1>6, <2>2, <2>3 DEF Progress, MachinesAgree, MonikersDiffer
  <2> QED
    BY <1>6, <1>7, <1>8, <2>2, <2>4, <2>5, <2>6, <2>7 DEF Inv
<1>12. CASE Len(ns) < Quorum /\ nonces' = ns /\ (Finish("unknown") \/ UNCHANGED <<pc, result>>)
  <2>1. /\ nonces' \in Seq(Entry) /\ Len(nonces') <= Quorum /\ OncePerPeer'
        /\ \A i \in DOMAIN nonces' : said'[nonces'[i].peer] = nonces'[i].machine
    BY <1>3, <1>10, <1>12
  <2>2. TypeOK'
    BY <1>1, <1>4, <1>5, <1>6, <1>12, <2>1 DEF TypeOK, Outcome, Finish
  <2>3. Standing' /\ ChainInPeerOrder'
    BY <1>1, <1>4, <1>12, <2>1 DEF Standing, ChainInPeerOrder, Finish
  <2>4. Progress'
    BY <1>1, <1>4, <1>6, <1>12 DEF Progress, Finish
  <2> QED
    BY <1>6, <1>7, <1>8, <1>12, <2>1, <2>2, <2>3, <2>4 DEF Inv, Finish
<1> QED
  BY <1>2, <1>9, <1>11, <1>12

(***************************************************************************)
(* The chain of signatures                                                 *)
(***************************************************************************)

\* What the end of stage 1 has settled, as long as the chain is under way.
LEMMA ChainFacts ==
  ASSUME Inv, pc = "chain"
  PROVE  /\ nonces \in Seq(Entry) /\ DOMAIN nonces = 1 .. Quorum /\ Len(nonces) = Quorum
         /\ \A i \in 1 .. Quorum : /\ nonces[i].machine = nonces[1].machine
                                   /\ said[nonces[i].peer] = nonces[1].machine
                                   /\ nonces[i].peer \in Peers
         /\ nonces[1].machine \in Machines /\ nonces[1].machine # NoId
         /\ 1 \in 1 .. Quorum /\ signer \in 1 .. Quorum /\ result = "pending"
<1>1. TypeOK /\ Standing /\ Progress
  BY DEF Inv
<1>2. nonces \in Seq(Entry) /\ Len(nonces) = Quorum /\ DOMAIN nonces = 1 .. Quorum
  BY <1>1, LenProperties DEF TypeOK, Progress
<1>3. 1 \in 1 .. Quorum /\ signer \in 1 .. Quorum /\ result = "pending"
  BY <1>1, QuorumIsPositive DEF TypeOK, Progress
<1>4. \A i \in 1 .. Quorum : nonces[i].machine = nonces[1].machine /\ nonces[i].machine # NoId
  BY <1>1, <1>2 DEF Progress, MachinesAgree
<1>5. \A i \in 1 .. Quorum : nonces[i].peer \in Peers
  BY <1>2, NonceParts
<1>6. nonces[1].machine \in Machines
  BY <1>2, <1>3, <1>4, NonceParts
<1>7. \A i \in 1 .. Quorum : said[nonces[i].peer] = nonces[i].machine
  BY <1>1, <1>2 DEF Standing
<1> QED
  BY <1>2, <1>3, <1>4, <1>5, <1>6, <1>7

\* The entries of a chain are those of a quorum of servers and signers.
LEMMA QuorumOfEntries ==
  ASSUME Inv, pc = "chain"
  PROVE  /\ IsFiniteSet({nonces[i].peer : i \in DOMAIN nonces})
         /\ Cardinality({nonces[i].peer : i \in DOMAIN nonces}) = Quorum
         /\ Cardinality({nonces[i].moniker : i \in DOMAIN nonces}) = Quorum
<1> DEFINE f == [i \in 1 .. Quorum |-> nonces[i].peer]
           g == [i \in 1 .. Quorum |-> nonces[i].moniker]
           P == {nonces[i].peer : i \in DOMAIN nonces}
           M == {nonces[i].moniker : i \in DOMAIN nonces}
<1>1. nonces \in Seq(Entry) /\ DOMAIN nonces = 1 .. Quorum
  BY ChainFacts
<1>2. Quorum \in Nat
  BY QuorumIsPositive
<1>4. f \in [1 .. Quorum -> P] /\ g \in [1 .. Quorum -> M]
  BY <1>1
<1>5. \A i, j \in 1 .. Quorum : f[i] = f[j] => i = j
  BY <1>1 DEF Inv, OncePerPeer
<1>6. \A i, j \in 1 .. Quorum : g[i] = g[j] => i = j
  BY <1>1 DEF Inv, Progress, MonikersDiffer
<1>7. /\ \A x \in P : \E i \in 1 .. Quorum : x = f[i]
      /\ \A x \in M : \E i \in 1 .. Quorum : x = g[i]
  BY <1>1
<1> HIDE DEF f, g, P, M
<1>8. IsFiniteSet(P) /\ Cardinality(P) = Quorum
  BY <1>2, <1>4, <1>5, <1>7, DistinctImages
<1>9. Cardinality(M) = Quorum
  BY <1>2, <1>4, <1>6, <1>7, DistinctImages
<1> QED
  BY <1>8, <1>9 DEF P, M

\* A step of the chain that does not end in a machine keeps the invariant.
LEMMA ChainStepInv ==
  ASSUME Inv, pc = "chain", UNCHANGED <<posting, channel, received, nonces, token>>,
         sigs' \subseteq Monikers, said' \in [Peers -> Answer],
         \/ /\ pc' = "done" /\ result' \in {"unknown", "unregistered"}
            /\ signer' \in 1 .. Quorum + 1
         \/ pc' = pc /\ result' = result /\ said' = said /\ signer' \in 1 .. Quorum
  PROVE  Inv'
<1>1. TypeOK /\ OncePerPeer /\ Standing /\ Progress /\ ChainInPeerOrder /\ RegisteredIsVouched
  BY DEF Inv
<1>2. "pending" \notin Machines /\ "unknown" \notin Machines /\ "unregistered" \notin Machines
  BY IdsAssumption
<1>3. Quorum \in Nat /\ result = "pending"
  BY QuorumIsPositive, ChainFacts
<1>4. TypeOK'
  BY <1>1, <1>3 DEF TypeOK, Outcome
<1>5. OncePerPeer'
  BY <1>1 DEF OncePerPeer
<1>6. Standing' /\ ChainInPeerOrder'
  BY <1>1 DEF Standing, ChainInPeerOrder
<1>7. Progress'
  BY <1>1, <1>3 DEF Progress, MachinesAgree, MonikersDiffer
<1>8. RegisteredIsVouched'
  BY <1>2, <1>3 DEF RegisteredIsVouched
<1> QED
  BY <1>4, <1>5, <1>6, <1>7, <1>8 DEF Inv

LEMMA ReturnTokenInv ==
  ASSUME Inv, NEW t \in Tokens, ReturnToken(t)
  PROVE  Inv'
<1>1. pc = "chain" /\ UNCHANGED <<posting, channel, received, nonces, signer, sigs, said>>
  BY DEF ReturnToken
<1>2. TypeOK /\ OncePerPeer /\ Standing /\ Progress
  BY DEF Inv
<1>3. CASE ~Accepted(t)
  <2>1. pc' = "done" /\ result' = "unknown" /\ token' = token
    BY <1>3 DEF ReturnToken, Finish
  <2> QED
    BY <1>1, <1>2, <2>1, ChainStepInv DEF TypeOK
<1>4. CASE Accepted(t)
  <2>1. pc' = "done" /\ result' = t.machine /\ token' = t
    BY <1>4 DEF ReturnToken, Finish
  <2>2. /\ nonces[1].machine \in Machines
        /\ \A i \in DOMAIN nonces : nonces[i].machine = nonces[1].machine
        /\ nonces[1].machine # NoId
    BY <1>1, ChainFacts
  <2>3. /\ t.machine = nonces[1].machine /\ t.hash = QuoteHash
        /\ Now - t.timestamp \in -Window .. Window
    BY <1>4, <2>2 DEF Accepted, ValidClaims
  <2>4. t.timestamp >= Now - Window /\ t.timestamp <= Now + Window
    BY <2>3, TokensAssumption
  <2>5. /\ Cardinality({nonces[i].peer : i \in DOMAIN nonces}) = Quorum
        /\ Cardinality({nonces[i].moniker : i \in DOMAIN nonces}) = Quorum
    BY <1>1, QuorumOfEntries
  <2>6. RegisteredIsVouched'
    BY <1>1, <2>1, <2>2, <2>3, <2>4, <2>5 DEF RegisteredIsVouched
  <2>7. "pending" \notin Machines
    BY IdsAssumption
  <2>8. TypeOK'
    BY <1>1, <1>2, <2>1, <2>2, <2>3, <2>7 DEF TypeOK, Outcome
  <2>9. OncePerPeer'
    BY <1>1, <1>2 DEF OncePerPeer
  <2>10. Standing' /\ ChainInPeerOrder' /\ Progress'
    BY <1>1, <1>2, <2>1 DEF Standing, ChainInPeerOrder, Progress
  <2> QED
    BY <2>6, <2>8, <2>9, <2>10 DEF Inv
<1> QED
  BY <1>3, <1>4

LEMMA ReturnSigsInv ==
  ASSUME Inv, NEW s \in SUBSET Monikers, ReturnSigs(s)
  PROVE  Inv'
<1>1. /\ pc = "chain" /\ UNCHANGED <<posting, channel, received, nonces, said, token>>
      /\ sigs' = s /\ signer' = signer + 1
  BY DEF ReturnSigs
<1>2. signer \in 1 .. Quorum /\ Len(nonces) = Quorum /\ Quorum \in Nat
  BY <1>1, ChainFacts, QuorumIsPositive
<1>3. said \in [Peers -> Answer]
  BY DEF Inv, TypeOK
<1>4. CASE signer = Quorum
  <2>1. pc' = "done" /\ result' = "unknown" /\ signer' \in 1 .. Quorum + 1
    BY <1>1, <1>2, <1>4 DEF ReturnSigs, Finish
  <2> QED
    BY <1>1, <1>3, <2>1, ChainStepInv
<1>5. CASE signer # Quorum
  <2>1. pc' = pc /\ result' = result /\ signer' \in 1 .. Quorum
    BY <1>1, <1>2, <1>5 DEF ReturnSigs
  <2> QED
    BY <1>1, <1>3, <2>1, ChainStepInv
<1> QED
  BY <1>4, <1>5

LEMMA RefuseSignatureInv ==
  ASSUME Inv, RefuseSignature
  PROVE  Inv'
<1>1. /\ pc = "chain" /\ UNCHANGED <<posting, channel, received, nonces, signer, sigs, token>>
      /\ pc' = "done" /\ result' = "unregistered"
      /\ said' = [said EXCEPT ![nonces[signer].peer] = "no"]
  BY DEF RefuseSignature, Finish
<1>2. /\ said \in [Peers -> Answer] /\ sigs \subseteq Monikers /\ signer \in 1 .. Quorum + 1
  BY DEF Inv, TypeOK
<1>3. said' \in [Peers -> Answer]
  BY <1>1, <1>2 DEF Answer
<1> QED
  BY <1>1, <1>2, <1>3, ChainStepInv

LEMMA FailStage2Inv ==
  ASSUME Inv, FailStage2
  PROVE  Inv'
<1>1. /\ pc = "chain" /\ UNCHANGED <<posting, channel, received, nonces, signer, sigs, said, token>>
      /\ pc' = "done" /\ result' = "unknown"
  BY DEF FailStage2, Finish
<1>2. /\ said \in [Peers -> Answer] /\ sigs \subseteq Monikers /\ signer \in 1 .. Quorum + 1
  BY DEF Inv, TypeOK
<1> QED
  BY <1>1, <1>2, ChainStepInv

(***************************************************************************)
(* The theorems                                                            *)
(***************************************************************************)

LEMMA Unchanged == Inv /\ UNCHANGED vars => Inv'
BY DEF vars, Inv, TypeOK, OncePerPeer, Standing, Progress, ChainInPeerOrder,
       RegisteredIsVouched, MachinesAgree, MonikersDiffer

LEMMA NextInv == Inv /\ [Next]_vars => Inv'
<1> SUFFICES ASSUME Inv, [Next]_vars PROVE Inv'
  OBVIOUS
<1>1. CASE Receive
  BY <1>1, ReceiveInv
<1>2. CASE \E p \in Peers : Post(p)
  BY <1>2, PostInv
<1>3. CASE \E t \in Tokens : ReturnToken(t)
  BY <1>3, ReturnTokenInv
<1>4. CASE \E s \in SUBSET Monikers : ReturnSigs(s)
  BY <1>4, ReturnSigsInv
<1>5. CASE RefuseSignature
  BY <1>5, RefuseSignatureInv
<1>6. CASE FailStage2
  BY <1>6, FailStage2Inv
<1>7. CASE UNCHANGED vars
  BY <1>7, Unchanged
<1> QED
  BY <1>1, <1>2, <1>3, <1>4, <1>5, <1>6, <1>7 DEF Next, Collecting, Chaining, Done

\* The inductive invariant holds in every state of a lookup (CheckQuote),
\* whatever the servers answer and in whatever order.
THEOREM Invariance == Spec => []Inv
BY InitInv, NextInv, PTL DEF Spec

\* The counts of goroutines, results and nonces stay within the bounds that
\* the channel and the chain of CheckQuote need.
THEOREM TypeCorrect == Spec => []TypeOK
<1>1. Inv => TypeOK
  BY DEF Inv
<1> QED
  BY <1>1, Invariance, PTL

\* CheckQuote says registered only with a fresh token for this quote whose
\* machine a quorum of different servers and signers named.
THEOREM Vouched == Spec => []RegisteredIsVouched
<1>1. Inv => RegisteredIsVouched
  BY DEF Inv
<1> QED
  BY <1>1, Invariance, PTL

\* The chain of CheckQuote visits the servers in the order of their URLs.
THEOREM PeerOrder == Spec => []ChainInPeerOrder
<1>1. Inv => ChainInPeerOrder
  BY DEF Inv
<1> QED
  BY <1>1, Invariance, PTL

(***************************************************************************)
(* The refinement                                                          *)
(***************************************************************************)

\* What the servers said, as votes.
VoteMap(sd) == [p \in Peers |-> IF sd[p] = NoId THEN "none" ELSE sd[p]]

LEMMA SameCardinality == \A S : Vote!Cardinality(S) = Cardinality(S)
BY DEF Vote!Cardinality, Cardinality

LEMMA InitRefines == Init => Vote!Init
<1> SUFFICES ASSUME Init PROVE Vote!Init
  OBVIOUS
<1>1. VoteMap(said) = [p \in Peers |-> "none"]
  BY DEF Init, VoteMap
<1> QED
  BY <1>1 DEF Init, Vote!Init, VoteMap

\* A goroutine's answer is its server's vote.
LEMMA PostRefines ==
  ASSUME Inv, NEW p \in Peers, Post(p)
  PROVE  Vote!Next \/ (VoteMap(said)' = VoteMap(said) /\ result' = result)
<1>1. PICK r \in Reply : said' = IF pc = "collect" THEN [said EXCEPT ![p] = SaidBy(Collected(p, r))] ELSE said
  BY DEF Post
<1>2. result' = result
  BY DEF Post
<1>3. SaidBy(Collected(p, r)) \in Answer
  BY CollectedParts, ResultParts
<1>4. said \in [Peers -> Answer]
  BY DEF Inv, TypeOK
<1>5. CASE pc # "collect"
  BY <1>1, <1>2, <1>5 DEF VoteMap
<1>6. CASE pc = "collect"
  <2> DEFINE a == SaidBy(Collected(p, r))
             v == IF a = NoId THEN "none" ELSE a
  <2>1. said' = [said EXCEPT ![p] = a]
    BY <1>1, <1>6
  <2>2. v \in Machines \cup {"none", "no"}
    BY <1>3 DEF Answer
  <2> HIDE DEF a
  <2>3. VoteMap(said)' = [VoteMap(said) EXCEPT ![p] = v]
    BY <1>4, <2>1 DEF VoteMap
  <2> HIDE DEF v
  <2>4. Vote!Cast(p, v)
    BY <1>2, <2>3 DEF Vote!Cast, VoteMap
  <2> QED
    BY <2>2, <2>4 DEF Vote!Next, Vote!Votes
<1> QED
  BY <1>5, <1>6

\* A refusal is its server's vote, and final; every other end of stage 1 is
\* "unknown", or no end at all.
LEMMA ReceiveRefines ==
  ASSUME Inv, Receive
  PROVE  Vote!Next \/ (VoteMap(said)' = VoteMap(said) /\ result' = result)
<1> DEFINE c == Head(channel)
           ns == IF c.kind = "nonce" THEN Append(nonces, c.entry) ELSE nonces
<1>1. pc = "collect" /\ channel # <<>> /\ said' = said
  BY DEF Receive
<1>2. TypeOK /\ Standing
  BY DEF Inv
<1>3. result = "pending"
  BY <1>1, <1>2 DEF TypeOK
<1>4. \/ c.kind = "forbidden" /\ Finish("unregistered")
      \/ EnterChain(ns)
      \/ Finish("unknown") \/ result' = result
  BY DEF Receive
<1>5. VoteMap(said)' = VoteMap(said)
  BY <1>1 DEF VoteMap
<1>6. CASE c.kind = "forbidden" /\ Finish("unregistered")
  <2>1. c = channel[1] /\ 1 \in DOMAIN channel /\ c \in Result
    BY <1>1, <1>2, Shifted DEF TypeOK
  <2>2. said[PeerOf(c)] = "no" /\ PeerOf(c) \in Peers
    BY <1>1, <1>2, <1>6, <2>1, ResultParts DEF Standing, SaidBy
  <2>3. PICK p \in Peers : said[p] = "no"
    BY <2>2
  <2>4. VoteMap(said)[p] = "no"
    BY <2>3, IdsAssumption DEF VoteMap
  <2>5. [VoteMap(said) EXCEPT ![p] = "no"] = VoteMap(said)
    BY <2>3, <2>4 DEF VoteMap
  <2>6. Vote!Refuse(p)
    BY <1>3, <1>5, <1>6, <2>5 DEF Vote!Refuse, VoteMap, Finish
  <2> QED
    BY <2>3, <2>6 DEF Vote!Next
<1>7. ASSUME result' = "unknown" PROVE Vote!Next
  <2>1. "unknown" \notin Machines
    BY IdsAssumption
  <2>2. Vote!Decide("unknown")
    BY <1>3, <1>5, <1>7, <2>1 DEF Vote!Decide, VoteMap
  <2> QED
    BY <2>2 DEF Vote!Next
<1>8. CASE EnterChain(ns)
  BY <1>5, <1>7, <1>8 DEF EnterChain, Finish
<1>9. CASE Finish("unknown") \/ result' = result
  BY <1>5, <1>7, <1>9 DEF Finish
<1> QED
  BY <1>4, <1>6, <1>8, <1>9

\* The token decides for a machine by which a quorum of servers still stands.
LEMMA ReturnTokenRefines ==
  ASSUME Inv, NEW t \in Tokens, ReturnToken(t)
  PROVE  Vote!Next
<1>1. pc = "chain" /\ said' = said
  BY DEF ReturnToken
<1>2. /\ DOMAIN nonces = 1 .. Quorum
      /\ \A i \in 1 .. Quorum : said[nonces[i].peer] = nonces[1].machine /\ nonces[i].peer \in Peers
      /\ nonces[1].machine \in Machines /\ nonces[1].machine # NoId /\ result = "pending"
  BY <1>1, ChainFacts
<1>3. VoteMap(said)' = VoteMap(said)
  BY <1>1 DEF VoteMap
<1>4. CASE ~Accepted(t)
  <2>1. result' = "unknown" /\ "unknown" \notin Machines
    BY <1>4, IdsAssumption DEF ReturnToken, Finish
  <2>2. Vote!Decide("unknown")
    BY <1>2, <1>3, <2>1 DEF Vote!Decide, VoteMap
  <2> QED
    BY <2>2 DEF Vote!Next
<1>5. CASE Accepted(t)
  <2> DEFINE P == {nonces[i].peer : i \in DOMAIN nonces}
  <2>1. PICK m \in Machines : m = nonces[1].machine
    BY <1>2
  <2>2. result' = m
    BY <1>2, <1>5, <2>1 DEF ReturnToken, Finish, Accepted, ValidClaims
  <2>3. IsFiniteSet(Vote!Supporters(m)) /\ Vote!Supporters(m) \in SUBSET Peers
    <3>1. Vote!Supporters(m) \in SUBSET Peers
      BY DEF Vote!Supporters
    <3> QED
      BY <3>1, PeersAssumption, FS_Subset
  <2>4. P \in SUBSET Vote!Supporters(m)
    BY <1>2, <2>1 DEF Vote!Supporters
  <2>5. Cardinality(P) = Quorum
    BY <1>1, QuorumOfEntries
  <2> HIDE DEF P
  <2>6. Cardinality(Vote!Supporters(m)) >= Quorum
    <3>1. Cardinality(P) <= Cardinality(Vote!Supporters(m)) /\ Cardinality(Vote!Supporters(m)) \in Nat
      BY <2>3, <2>4, FS_Subset, FS_CardinalityType
    <3> QED
      BY <2>5, <3>1, QuorumIsPositive
  <2>7. Vote!Decide(m)
    BY <1>2, <1>3, <2>2, <2>6, SameCardinality DEF Vote!Decide, VoteMap
  <2> QED
    BY <2>1, <2>7 DEF Vote!Next
<1> QED
  BY <1>4, <1>5

LEMMA ChainRefines ==
  ASSUME Inv, \/ \E s \in SUBSET Monikers : ReturnSigs(s)
              \/ RefuseSignature
              \/ FailStage2
  PROVE  Vote!Next \/ (VoteMap(said)' = VoteMap(said) /\ result' = result)
<1>1. pc = "chain"
  BY DEF ReturnSigs, RefuseSignature, FailStage2
<1>2. result = "pending" /\ nonces[signer].peer \in Peers /\ said \in [Peers -> Answer]
  BY <1>1, ChainFacts DEF Inv, TypeOK
<1>3. CASE RefuseSignature
  <2>1. PICK p \in Peers : p = nonces[signer].peer
    BY <1>2
  <2>2. said' = [said EXCEPT ![p] = "no"] /\ result' = "unregistered"
    BY <1>3, <2>1 DEF RefuseSignature, Finish
  <2>3. VoteMap(said)' = [VoteMap(said) EXCEPT ![p] = "no"]
    BY <1>2, <2>2, <2>1, IdsAssumption DEF VoteMap
  <2>4. Vote!Refuse(p)
    BY <1>2, <2>2, <2>3 DEF Vote!Refuse, VoteMap
  <2> QED
    BY <2>1, <2>4 DEF Vote!Next
<1>4. CASE FailStage2 \/ \E s \in SUBSET Monikers : ReturnSigs(s)
  <2>1. said' = said /\ (result' = result \/ result' = "unknown")
    BY <1>4 DEF FailStage2, ReturnSigs, Finish
  <2>2. VoteMap(said)' = VoteMap(said)
    BY <2>1 DEF VoteMap
  <2>3. "unknown" \notin Machines
    BY IdsAssumption
  <2>4. result' = "unknown" => Vote!Decide("unknown")
    BY <1>2, <2>2, <2>3 DEF Vote!Decide, VoteMap
  <2> QED
    BY <2>1, <2>2, <2>4 DEF Vote!Next
<1> QED
  BY <1>3, <1>4

LEMMA NextRefines ==
  Inv /\ [Next]_vars => Vote!Next \/ (VoteMap(said)' = VoteMap(said) /\ result' = result)
<1> SUFFICES ASSUME Inv, [Next]_vars
             PROVE  Vote!Next \/ (VoteMap(said)' = VoteMap(said) /\ result' = result)
  OBVIOUS
<1>1. CASE UNCHANGED vars
  BY <1>1 DEF vars, VoteMap
<1>2. CASE Receive
  BY <1>2, ReceiveRefines
<1>3. CASE \E p \in Peers : Post(p)
  BY <1>3, PostRefines
<1>4. CASE \E t \in Tokens : ReturnToken(t)
  BY <1>4, ReturnTokenRefines
<1>5. CASE \/ \E s \in SUBSET Monikers : ReturnSigs(s)
           \/ RefuseSignature
           \/ FailStage2
  BY <1>5, ChainRefines
<1> QED
  BY <1>1, <1>2, <1>3, <1>4, <1>5 DEF Next, Collecting, Chaining, Done

\* The lookup implements the vote of QuorumVote: CheckQuote says registered
\* only while a quorum of servers stands by the machine, and not registered
\* only after a refusal.
THEOREM Refinement == Spec => ImplementsVote
<1>1. Inv /\ [Next]_vars =>
        [Vote!Next]_<<[p \in Peers |-> IF said[p] = NoId THEN "none" ELSE said[p]], result>>
  BY NextRefines DEF VoteMap
<1> QED
  BY <1>1, InitRefines, Invariance, PTL DEF Spec, ImplementsVote, Vote!Spec

=============================================================================
