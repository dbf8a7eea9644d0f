---------------------------- MODULE ProofOfCloud ----------------------------
(***************************************************************************)
(* One lookup of a TDX quote in the Proof of Cloud registry (PoCClient in  *)
(* poc.go).  Stage 1 asks every trust server for a nonce, one goroutine    *)
(* per server, over a buffered channel, and stops at the first refusal or  *)
(* as soon as a quorum has answered.  Stage 2 passes the partial           *)
(* signatures from server to server until one of them returns a token.     *)
(*                                                                         *)
(* Peers are numbered in the order of their URLs.  NoId is the empty       *)
(* string.  Tokens are the tokens that a server may return, as the claims  *)
(* of the token and the unauthenticated fields of the answer around it.    *)
(***************************************************************************)
EXTENDS Integers, Sequences, FiniteSets

CONSTANTS Peers,      \* the trust servers
          Quorum,     \* answers needed in stage 1
          Machines,   \* machine identifiers
          Monikers,   \* names of signers
          NoId,       \* an absent identifier
          QuoteHash,  \* the hash of the quote that is looked up
          Now,        \* the time at which the token is checked
          Window,     \* tolerated distance of a token's timestamp
          Absent,     \* an absent numeric claim
          Tokens      \* tokens a server may return

ASSUME PeersAssumption == IsFiniteSet(Peers) /\ Peers \subseteq Nat
ASSUME QuorumAssumption == Quorum \in 1 .. Cardinality(Peers)
ASSUME TokensAssumption == /\ Now \in Int /\ Window \in Nat
                           /\ \A t \in Tokens : t.timestamp \in Int
\* Identifiers are none of the words for what is not a machine.
ASSUME IdsAssumption ==
  /\ NoId \notin Machines \cup {"none", "no"}
  /\ Machines \cap {"none", "no", "pending", "unknown", "unregistered"} = {}

VARIABLES pc,         \* "collect", "chain" or "done"
          posting,    \* stage-1 goroutines that have not sent their result
          channel,    \* collectCh: results that CheckQuote has not received
          received,   \* number of results received
          nonces,     \* nonce entries, in the order of receipt, then sorted
          signer,     \* index in nonces of the next stage-2 server
          sigs,       \* partial signatures of the last answer
          said,       \* the last thing each server answered to this lookup
          token,      \* the token that was accepted
          result      \* what CheckQuote returns

vars == <<pc, posting, channel, received, nonces, signer, sigs, said, token, result>>

Entry == [peer : Peers, moniker : Monikers, machine : Machines \cup {NoId}]
Result == [kind : {"nonce"}, entry : Entry] \cup [kind : {"error", "forbidden"}, peer : Peers]
Outcome == {"pending", "unknown", "unregistered"} \cup Machines
Answer == Machines \cup {NoId, "none", "no"}

NoToken == [hash |-> NoId]

\* A lookup starts with one goroutine per server.
Init == /\ pc = "collect"
        /\ posting = Peers
        /\ channel = <<>>
        /\ received = 0
        /\ nonces = <<>>
        /\ signer = 1
        /\ sigs = {}
        /\ said = [p \in Peers |-> "none"]
        /\ token = NoToken
        /\ result = "pending"

-----------------------------------------------------------------------------
(* Stage 1. *)

\* A server's answer to the first request: the status is 0 when the request
\* failed, and an answer without moniker or nonce has moniker NoId.
Reply == [status : {0, 500}] \cup [status : {403}]
           \cup [status : {200}, parsed : BOOLEAN, moniker : Monikers \cup {NoId},
                 machine : Machines \cup {NoId}]

Collected(p, r) ==
  CASE r.status = 403 -> [kind |-> "forbidden", peer |-> p]
    [] r.status = 200 /\ r.parsed /\ r.moniker # NoId ->
         [kind |-> "nonce", entry |-> [peer |-> p, moniker |-> r.moniker, machine |-> r.machine]]
    [] OTHER -> [kind |-> "error", peer |-> p]

SaidBy(c) == IF c.kind = "nonce" THEN c.entry.machine ELSE IF c.kind = "forbidden" THEN "no" ELSE "none"

\* mutant: the channel holds one result
ChannelCapOne == 1

\* make(chan collectResult, len(c.peers)).
ChannelCap == Cardinality(Peers)

\* A collector posts to its server and sends what it got; the send needs room
\* in the channel.  After cancel1 the post may fail, and the goroutine still
\* sends.
Post(p) ==
  /\ p \in posting
  /\ Len(channel) < ChannelCap
  /\ posting' = posting \ {p}
  /\ \E r \in Reply :
       LET c == Collected(p, r) IN
       /\ channel' = Append(channel, c)
       /\ said' = IF pc = "collect" THEN [said EXCEPT ![p] = SaidBy(c)] ELSE said
  /\ UNCHANGED <<pc, received, nonces, signer, sigs, token, result>>

Finish(o) == pc' = "done" /\ result' = o

\* mutant: servers may name different machines
MachinesAgreeNot(ns) == TRUE

MachinesAgree(ns) == \A i \in DOMAIN ns : ns[i].machine # NoId /\ ns[i].machine = ns[1].machine

\* mutant: one signer may count twice
MonikersDifferNot(ns) == TRUE

MonikersDiffer(ns) == \A i, j \in DOMAIN ns : ns[i].moniker = ns[j].moniker => i = j

\* mutant: the entries are not sorted
ByArrival(ns) == ns

\* sort.Slice by URL; no two entries of a lookup have the same one.
ByPeer(ns) ==
  LET from == CHOOSE f \in [DOMAIN ns -> DOMAIN ns] :
                \A i, j \in DOMAIN ns : i < j => ns[f[i]].peer < ns[f[j]].peer
  IN  [i \in DOMAIN ns |-> ns[from[i]]]

\* The end of stage 1: order, then both consistency checks, then the chain.
EnterChain(ns) ==
  IF MachinesAgree(ByPeer(ns)) /\ MonikersDiffer(ByPeer(ns))
  THEN nonces' = ByPeer(ns) /\ pc' = "chain" /\ UNCHANGED result
  ELSE nonces' = ByPeer(ns) /\ Finish("unknown")

\* The collecting loop receives one result.
Receive ==
  /\ pc = "collect"
  /\ channel # <<>>
  /\ LET c == Head(channel)
         ns == IF c.kind = "nonce" THEN Append(nonces, c.entry) ELSE nonces
     IN  /\ channel' = Tail(channel)
         /\ received' = received + 1
         /\ \/ /\ c.kind = "forbidden"
               /\ Finish("unregistered")
               /\ UNCHANGED nonces
            \/ /\ c.kind # "forbidden"
               /\ Len(ns) >= Quorum
               /\ EnterChain(ns)
            \/ /\ c.kind # "forbidden"
               /\ Len(ns) < Quorum
               /\ nonces' = ns
               /\ IF received' = Cardinality(Peers) THEN Finish("unknown")
                                                    ELSE UNCHANGED <<pc, result>>
  /\ UNCHANGED <<posting, signer, sigs, said, token>>

-----------------------------------------------------------------------------
(* Stage 2. *)

\* mutant: the token's machine is not compared
ValidClaimsOtherMachine(t, machine) ==
  /\ t.hash = QuoteHash
  /\ t.timestamp # Absent
  /\ Now - t.timestamp \in -Window .. Window
  /\ t.exp = Absent \/ Now <= t.exp

\* verifyPoCJWTClaims: fails closed on an absent hash or timestamp, and
\* accepts an absent expiry.
ValidClaims(t, machine) ==
  /\ t.hash = QuoteHash
  /\ t.timestamp # Absent
  /\ Now - t.timestamp \in -Window .. Window
  /\ t.exp = Absent \/ Now <= t.exp
  /\ machine # NoId => t.machine = machine

\* The fields around the token may be absent, but may not contradict it.
WrapperAgrees(t) ==
  /\ t.wrapMachine \in {NoId, t.machine}
  /\ t.wrapLabel \in {NoId, t.label}

Accepted(t) == ValidClaims(t, nonces[1].machine) /\ WrapperAgrees(t)

\* The next server of the chain returns a token.
ReturnToken(t) ==
  /\ pc = "chain"
  /\ signer <= Len(nonces)
  /\ IF Accepted(t) THEN Finish(t.machine) /\ token' = t
                    ELSE Finish("unknown") /\ UNCHANGED token
  /\ UNCHANGED <<posting, channel, received, nonces, signer, sigs, said>>

\* It returns partial signatures, which replace those of the server before it.
\* A chain that ends without a token is an error.
ReturnSigs(s) ==
  /\ pc = "chain"
  /\ signer <= Len(nonces)
  /\ sigs' = s
  /\ signer' = signer + 1
  /\ IF signer = Len(nonces) THEN Finish("unknown") ELSE UNCHANGED <<pc, result>>
  /\ UNCHANGED <<posting, channel, received, nonces, said, token>>

\* It refuses.
RefuseSignature ==
  /\ pc = "chain"
  /\ signer <= Len(nonces)
  /\ Finish("unregistered")
  /\ said' = [said EXCEPT ![nonces[signer].peer] = "no"]
  /\ UNCHANGED <<posting, channel, received, nonces, signer, sigs, token>>

\* The request fails, its status is neither 200 nor 403, or its body parses
\* neither as a token nor as a map of signatures.
FailStage2 ==
  /\ pc = "chain"
  /\ signer <= Len(nonces)
  /\ Finish("unknown")
  /\ UNCHANGED <<posting, channel, received, nonces, signer, sigs, said, token>>

Collecting == Receive \/ \E p \in Peers : Post(p)

Chaining == \/ \E t \in Tokens : ReturnToken(t)
            \/ \E s \in SUBSET Monikers : ReturnSigs(s)
            \/ RefuseSignature
            \/ FailStage2

\* The caller goes on once CheckQuote has returned.
Done == pc = "done" /\ UNCHANGED vars

Next == Collecting \/ Chaining \/ Done

\* Every request of the HTTP client has a timeout, so every post returns.
Fairness == /\ \A p \in Peers : WF_vars(Post(p))
            /\ WF_vars(Receive)
            /\ WF_vars(Chaining)

Spec == Init /\ [][Next]_vars /\ Fairness

-----------------------------------------------------------------------------
(* Properties. *)

\* The shape of the lookup: never more results in the channel than goroutines
\* that ended, and never more nonces than the quorum (CheckQuote).
TypeOK ==
  /\ pc \in {"collect", "chain", "done"}
  /\ posting \subseteq Peers
  /\ channel \in Seq(Result)
  /\ received + Len(channel) + Cardinality(posting) = Cardinality(Peers)
  /\ nonces \in Seq(Entry) /\ Len(nonces) <= Quorum
  /\ signer \in 1 .. Quorum + 1
  /\ sigs \subseteq Monikers
  /\ said \in [Peers -> Answer]
  /\ token \in Tokens \cup {NoToken}
  /\ result \in Outcome
  /\ (pc = "done") = (result # "pending")

\* Registered means what the registry promises: a token for this very quote,
\* fresh when it was read, naming the machine that a quorum of different
\* servers, with different signer names, named before (CheckQuote and
\* verifyPoCJWTClaims, for every order in which the answers arrive).
RegisteredIsVouched ==
  result \in Machines =>
    /\ token.hash = QuoteHash
    /\ token.timestamp >= Now - Window /\ token.timestamp <= Now + Window
    /\ token.machine = result
    /\ Cardinality({nonces[i].peer : i \in DOMAIN nonces}) = Quorum
    /\ Cardinality({nonces[i].moniker : i \in DOMAIN nonces}) = Quorum
    /\ \A i \in DOMAIN nonces : nonces[i].machine = result

\* The chain visits the servers in the order of their URLs although their
\* nonces arrive in any order, so a captured lookup can be replayed.
ChainInPeerOrder ==
  pc = "chain" => \A i, j \in DOMAIN nonces : i < j => nonces[i].peer < nonces[j].peer

-----------------------------------------------------------------------------
(* The inductive invariant. *)

PeerOf(c) == IF c.kind = "nonce" THEN c.entry.peer ELSE c.peer

\* Every server is in one place: still posting, in the channel, or received.
OncePerPeer ==
  /\ \A i \in DOMAIN channel : PeerOf(channel[i]) \notin posting
  /\ \A i, j \in DOMAIN channel : PeerOf(channel[i]) = PeerOf(channel[j]) => i = j
  /\ \A i \in DOMAIN nonces : nonces[i].peer \notin posting
  /\ \A i \in DOMAIN nonces, j \in DOMAIN channel : nonces[i].peer # PeerOf(channel[j])
  /\ \A i, j \in DOMAIN nonces : nonces[i].peer = nonces[j].peer => i = j

\* A lookup that is under way relies on what the servers still say.
Standing ==
  /\ pc = "collect" => \A i \in DOMAIN channel :
       channel[i].kind \in {"nonce", "forbidden"} => said[PeerOf(channel[i])] = SaidBy(channel[i])
  /\ pc \in {"collect", "chain"} => \A i \in DOMAIN nonces : said[nonces[i].peer] = nonces[i].machine

\* How far the lookup is.
Progress ==
  /\ received \in Nat
  /\ pc = "collect" => Len(nonces) < Quorum /\ signer = 1
  /\ pc = "chain" => /\ Len(nonces) = Quorum /\ signer <= Quorum
                     /\ MachinesAgree(nonces) /\ MonikersDiffer(nonces)

Inv == /\ TypeOK /\ OncePerPeer /\ Standing /\ Progress
       /\ ChainInPeerOrder /\ RegisteredIsVouched

-----------------------------------------------------------------------------
(* The refinement. *)

\* The lookup implements the vote: it says registered only while a quorum of
\* servers stands by the machine, also when a server takes back in stage 2
\* what it said in stage 1 (CheckQuote).
Vote == INSTANCE QuorumVote WITH
          vote <- [p \in Peers |-> IF said[p] = NoId THEN "none" ELSE said[p]],
          outcome <- result

ImplementsVote == Vote!Spec

\* CheckQuote returns, and none of its goroutines stays blocked on the channel
\* although CheckQuote stops receiving at the first refusal or at the quorum.
LookupEnds == <>(result # "pending" /\ posting = {})

=============================================================================
