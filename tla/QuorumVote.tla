----------------------------- MODULE QuorumVote -----------------------------
(***************************************************************************)
(* What a Proof of Cloud lookup promises, whatever the protocol behind it: *)
(* every trust server has one standing vote on a quote (the machine it     *)
(* names, a refusal, or nothing usable), and the lookup may say that the   *)
(* hardware is registered as machine m only while a quorum of servers      *)
(* stands by m, that it is not registered only after a refusal, and that   *)
(* it does not know at any time.                                           *)
(***************************************************************************)
EXTENDS Integers, FiniteSets

CONSTANTS Peers, Quorum, Machines

VARIABLES vote, outcome

Votes == Machines \cup {"none", "no"}
Outcomes == {"pending", "unknown", "unregistered"} \cup Machines

Supporters(m) == {p \in Peers : vote[p] = m}

Init == /\ vote = [p \in Peers |-> "none"]
        /\ outcome = "pending"

\* A server votes, or takes back what it said.
Cast(p, v) == /\ vote' = [vote EXCEPT ![p] = v]
              /\ UNCHANGED outcome

Decide(o) == /\ outcome = "pending"
             /\ o \in Machines => Cardinality(Supporters(o)) >= Quorum
             /\ outcome' = o
             /\ UNCHANGED vote

\* A refusal that is read is final.
Refuse(p) == /\ outcome = "pending"
             /\ outcome' = "unregistered"
             /\ vote' = [vote EXCEPT ![p] = "no"]

Next == \/ \E p \in Peers, v \in Votes : Cast(p, v)
        \/ \E o \in Machines \cup {"unknown"} : Decide(o)
        \/ \E p \in Peers : Refuse(p)

Spec == Init /\ [][Next]_<<vote, outcome>>

=============================================================================
