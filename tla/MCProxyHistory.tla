--------------------------- MODULE MCProxyHistory ---------------------------
(***************************************************************************)
(* The instance of ProxyHistory that TLC checks: MCProxyRequest's keys and *)
(* documents, and a provider with signing keys.                            *)
(***************************************************************************)
EXTENDS ProxyHistory, TLC

CONSTANTS k1, k2

MCKeys == {k1, k2}

D(k, bound, blocked) == [key |-> k, bound |-> bound, blocked |-> blocked]

\* The binding factor is enforced: an unbound document is a blocked one.
MCDocs == {D(k1, TRUE, FALSE), D(k2, FALSE, TRUE)}

VeniceOnly == {[e2ee |-> TRUE, pool |-> FALSE, ehbp |-> FALSE, tls |-> FALSE]}

RequestSymmetry == Permutations(Requests)

=============================================================================
