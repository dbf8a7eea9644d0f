--------------------------- MODULE MCProofOfCloud ---------------------------
(***************************************************************************)
(* Three trust servers and a quorum of two, so that answers may come after *)
(* the quorum; tokens with one claim, or one field around it, that is off  *)
(* by one, absent or different from what it should be.                     *)
(***************************************************************************)
EXTENDS ProofOfCloud

CONSTANTS m1, m2, mon1, mon2, mon3, quoteHash, other

MCMachines == {m1, m2}
MCMonikers == {mon1, mon2, mon3}
MCNow == 10
MCWindow == 2
MCAbsent == -1

Good(m) == [hash |-> quoteHash, timestamp |-> MCNow, exp |-> MCAbsent, machine |-> m,
            label |-> "l", wrapMachine |-> NoId, wrapLabel |-> NoId]

MCTokens ==
  UNION { {Good(m)}
    \cup {[Good(m) EXCEPT !.hash = x] : x \in {NoId, other}}
    \cup {[Good(m) EXCEPT !.timestamp = x] : x \in {MCAbsent} \cup 7 .. 13}
    \cup {[Good(m) EXCEPT !.exp = x] : x \in {9, 10}}
    \cup {[Good(m) EXCEPT !.wrapMachine = x] : x \in MCMachines}
    \cup {[Good(m) EXCEPT !.wrapLabel = x] : x \in {"l", "m"}} : m \in MCMachines \cup {NoId} }

=============================================================================
