----------------------------- MODULE NonceSource ----------------------------
(***************************************************************************)
(* What NoncePool.Take promises its callers, whatever it caches, fetches   *)
(* and throws away in between: a call that is waiting ends once, either    *)
(* with an error, or with the key of an instance and a nonce that no call  *)
(* was given before.  What was given does not change.                      *)
(***************************************************************************)
CONSTANTS Takers, Keys, None

VARIABLES status,  \* "waiting", "done" or "failed"
          result   \* the material of a call that is done

Handed == {result[t].nonce : t \in {u \in Takers : status[u] = "done"}}

Init == /\ status = [t \in Takers |-> "waiting"]
        /\ result = [t \in Takers |-> None]

\* The call t gets m; nonces are any values at all.
Give(t, m) ==
  /\ status[t] = "waiting"
  /\ status' = [status EXCEPT ![t] = "done"]
  /\ result' = [result EXCEPT ![t] = m]
  /\ m.nonce \notin Handed
  /\ m.key \in Keys

\* One error may end the calls of all who waited for the same refresh.
Fail(S) ==
  /\ \A t \in S : status[t] = "waiting"
  /\ status' = [t \in Takers |-> IF t \in S THEN "failed" ELSE status[t]]
  /\ UNCHANGED result

Next == \/ \E t \in Takers : Give(t, result'[t])
        \/ \E S \in SUBSET Takers : Fail(S)

Spec == Init /\ [][Next]_<<status, result>>

=============================================================================
