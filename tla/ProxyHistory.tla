---------------------------- MODULE ProxyHistory ----------------------------
(***************************************************************************)
(* ProxyRequest with auxiliary variables that follow the evidence behind a *)
(* report as it moves between requests and the report cache: whether it    *)
(* was fetched before the last E2EE decryption failure.  They let the      *)
(* claim about recovery be stated; they never constrain a step.            *)
(***************************************************************************)
EXTENDS ProxyRequest

VARIABLES
  cacheStale,  \* the cached report is from before the last E2EE failure
  stale,       \* the requests whose report is
  late         \* the requests that arrived after the last E2EE failure

history == <<cacheStale, stale, late>>

HInit ==
  /\ Init
  /\ cacheStale = FALSE
  /\ stale = {}
  /\ late = {}

Moved(r, from, to) == req[r].pc = from /\ req'[r].pc = to

\* Some request is between the failure and the end of the invalidation.
HandlingFailure == \E x \in Requests : req[x].pc \in {"demote", "putdemoted", "wipe", "wipekey"}

\* An E2EE decryption failure makes all evidence stale.
FollowFailure(r) ==
  /\ Moved(r, "mark", "demote")
  /\ cacheStale' = TRUE
  /\ stale' = Requests
  /\ late' = {}

GotReport(r) == Moved(r, "lookup", "admit") \/ Moved(r, "demote", "putdemoted")
PutReport(r) == \/ Moved(r, "store", "admit") \/ Moved(r, "promote", "idle")
                \/ Moved(r, "putdemoted", "wipe")

\* Otherwise a Put takes the request's evidence into the cache, a hit takes
\* it out, and a request that fetches or ends leaves it.
FollowStep(r) ==
  /\ ~Moved(r, "mark", "demote")
  /\ cacheStale' = IF PutReport(r) THEN r \in stale ELSE cacheStale
  /\ stale' = CASE GotReport(r) /\ cacheStale -> stale \cup {r}
                [] GotReport(r) /\ ~cacheStale -> stale \ {r}
                [] Moved(r, "attest", "store") \/ req'[r].pc = "idle" -> stale \ {r}
                [] OTHER -> stale
  /\ late' = CASE Moved(r, "idle", "lookup") /\ ~HandlingFailure -> late \cup {r}
               [] req'[r].pc = "idle" -> late \ {r}
               [] OTHER -> late

HNext == \/ \E r \in Requests : (Arrive(r) \/ Step(r)) /\ (FollowFailure(r) \/ FollowStep(r))
         \/ (Tick \/ Evict) /\ UNCHANGED history

HSpec == HInit /\ [][HNext]_<<vars, history>>

(***************************************************************************)
(* What a comment claims, checked by the run that refutes it               *)
(***************************************************************************)

\* handleE2EEDecryptionFailure: "Invalidate caches to force full
\* re-attestation on the next request".  A request that arrives after an E2EE
\* failure was handled is only sent under evidence fetched after that failure.
FailureForcesReattestation ==
  \A r \in Requests : r \in late /\ req[r].pc = "send" => r \notin stale

=============================================================================
