---------------------------- MODULE MCPinnedPath ----------------------------
(***************************************************************************)
(* The instances of PinnedPath that TLC checks.                            *)
(***************************************************************************)
EXTENDS PinnedPath

CONSTANTS a, b, s1, s2

Peer(domain, spki) == [domain |-> domain, spki |-> spki]
D(keyed, bound, blocked) == [keyed |-> keyed, bound |-> bound, blocked |-> blocked]

\* Two backends, each with its certificate.
TwoDomains == {Peer(a, s1), Peer(b, s2)}
\* One backend with two certificates.
OneDomain == {Peer(a, s1), Peer(a, s2)}

\* Good; blocked by an enforced factor; unbound, the binding factor being
\* allowed to fail.
AllDocs == {D(TRUE, TRUE, FALSE), D(TRUE, TRUE, TRUE), D(TRUE, FALSE, FALSE)}
\* The binding factor is enforced: an unbound document is a blocked one.
EnforcedDocs == {D(TRUE, TRUE, FALSE), D(TRUE, FALSE, TRUE)}

Serves(e2ee, force, domains) ==
  [e2ee |-> e2ee, force |-> force, domains |-> [m \in Models |-> domains]]

\* neardirect, whose models may move, the nearcloud gateway under --force, and
\* a provider without E2EE.
MCProviders == {Serves(TRUE, FALSE, {a, b}), Serves(TRUE, TRUE, {a}), Serves(FALSE, FALSE, {a})}
Gateway == {Serves(TRUE, FALSE, {a})}

=============================================================================
