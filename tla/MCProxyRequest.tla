--------------------------- MODULE MCProxyRequest ---------------------------
(***************************************************************************)
(* The instances of ProxyRequest that TLC checks: handler goroutines that  *)
(* share the caches, two keys (a rotation), documents that pass and        *)
(* documents that fail, and each kind of provider.                         *)
(***************************************************************************)
EXTENDS ProxyRequest, TLC

CONSTANTS k1, k2

MCKeys == {k1, k2}

D(k, bound, blocked) == [key |-> k, bound |-> bound, blocked |-> blocked]

\* The binding factor is enforced: an unbound document is a blocked one.
MCDocs == {D(k1, TRUE, FALSE), D(k2, FALSE, TRUE)}

Venice == [e2ee |-> TRUE, pool |-> FALSE, ehbp |-> FALSE, tls |-> FALSE]
ChutesProvider == [Venice EXCEPT !.pool = TRUE]
Tinfoil == [Venice EXCEPT !.ehbp = TRUE, !.tls = TRUE]
Plain == [Venice EXCEPT !.e2ee = FALSE]

AllProviders == {Venice, ChutesProvider, Tinfoil, Plain}
ChutesOnly == {ChutesProvider}
KeyCacheProviders == {Venice, Tinfoil}

RequestSymmetry == Permutations(Requests)

=============================================================================
