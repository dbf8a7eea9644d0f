------------------------------ MODULE Exchange ------------------------------
(***************************************************************************)
(* What the proxy promises of every request it handles, on the shared      *)
(* client as on a pinned connection.  The body is held until it is sealed  *)
(* for the upstream; it goes out in the clear only to a provider without   *)
(* E2EE.  An answer comes from an exchange, never from nothing, and is     *)
(* relayed only under a verdict: a report that is at hand and lets it      *)
(* pass.  A failed attempt is sealed anew, and once the handler is closing *)
(* nothing is sent again.                                                  *)
(***************************************************************************)
CONSTANT Requests

VARIABLES sealing,  \* the provider has E2EE
          phase,    \* where each request is
          verdict   \* the report at hand lets an answer pass

vars == <<sealing, phase, verdict>>

\* held: the proxy has the body; sealed, plain: it is with the upstream;
\* answered: a 200 answer is at hand; relaying: it goes to the client;
\* closing: nothing is left to do but to reply and to clean up.
Phases == {"idle", "held", "sealed", "plain", "answered", "relaying", "closing"}

Init == /\ sealing \in BOOLEAN
        /\ phase = [r \in Requests |-> "idle"]
        /\ verdict \in [Requests -> BOOLEAN]

Move(r, from, to) == phase[r] \in from /\ phase' = [phase EXCEPT ![r] = to]

Accept(r) == Move(r, {"idle"}, "held")
Seal(r)   == Move(r, {"held"}, "sealed")
Expose(r) == ~sealing /\ Move(r, {"held"}, "plain")
Answer(r) == Move(r, {"sealed", "plain"}, "answered")
Relay(r)  == verdict'[r] /\ Move(r, {"sealed", "plain", "answered"}, "relaying")
Retry(r)  == Move(r, {"sealed", "plain", "relaying"}, "held")
End(r)    == Move(r, Phases \ {"idle"}, "idle")

\* One failure may close all the requests that waited for the same call.
Close(S) ==
  /\ \A r \in S : phase[r] \in Phases \ {"idle"}
  /\ phase' = [r \in Requests |-> IF r \in S THEN "closing" ELSE phase[r]]

\* Reports come and go, except under an answer that is being relayed.
Judge == \A r \in Requests :
           phase[r] = "relaying" /\ phase'[r] = "relaying" => verdict'[r] = verdict[r]

Next == /\ \/ \E S \in SUBSET Requests : Close(S)
           \/ \E r \in Requests : \/ Accept(r) \/ Seal(r) \/ Expose(r) \/ Answer(r)
                                  \/ Relay(r) \/ Retry(r) \/ End(r)
        /\ Judge
        /\ verdict' \in [Requests -> BOOLEAN]
        /\ UNCHANGED sealing

Spec == Init /\ [][Next]_vars

=============================================================================
