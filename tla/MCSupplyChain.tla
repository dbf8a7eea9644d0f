---------------------------- MODULE MCSupplyChain ----------------------------
(***************************************************************************)
(* Two digests looked up and a third beyond the cap, images of every kind  *)
(* of provenance, a digest that two repositories name, manifests that are  *)
(* absent or that the quote does not bind, and entries that are right or   *)
(* have one thing wrong.                                                   *)
(***************************************************************************)
EXTENDS SupplyChain

CONSTANTS d1, d2, d3, router, agent, pinned, stranger, build, fork, k, k2

MCDigests == {d1, d2, d3}
MCRepos == {router, agent, pinned, stranger}

Ref(r, d) == [repo |-> r, digest |-> d]
M(images, register) == [present |-> TRUE, hash |-> TRUE, images |-> images, register |-> register]
NoManifest == [present |-> FALSE, hash |-> FALSE, images |-> <<>>, register |-> "empty"]
Both(m, g) == [model |-> m, gateway |-> g]

MCEvidence ==
  { Both(NoManifest, NoManifest),
    Both(M(<<Ref(router, d1), Ref(agent, d2), Ref(agent, d1)>>, "match"), NoManifest),
    Both(M(<<Ref(router, d1), Ref(router, d2), Ref(agent, d3)>>, "match"), NoManifest),
    Both(M(<<Ref(router, d1), Ref(pinned, d2)>>, "match"), M(<<Ref(agent, d2)>>, "short")),
    Both(M(<<Ref(agent, d1)>>, "match"), M(<<Ref(agent, d1), Ref(router, d2)>>, "match")),
    Both(M(<<Ref(router, d1)>>, "other"), M(<<Ref(router, d2)>>, "match")),
    Both(M(<<Ref(stranger, d1)>>, "match"), NoManifest) }

Image(p, key, gateway) ==
  [provenance |-> p, key |-> key, model |-> TRUE, gateway |-> gateway, issuer |-> GitHub,
   identities |-> {build}, sources |-> {"source"}, noDSSE |-> FALSE]

MCPolicy(gateway) ==
  [r \in {router, agent, pinned} |->
     CASE r = router -> Image("fulcio", NoKey, gateway)
       [] r = agent -> Image("sigstore", k, gateway)
       [] r = pinned -> Image("compose", NoKey, FALSE)]

MCPolicies == {<<>>, MCPolicy(FALSE), MCPolicy(TRUE)}

Proof == [present |-> TRUE, index |-> 0, size |-> 1, hashes |-> 0, valid |-> TRUE]
Fulcio == [verifier |-> "certificate", issuer |-> GitHub, identity |-> build, source |-> "source",
           key |-> k2, dsse |-> TRUE, set |-> "signed", proof |-> Proof]
Raw == [Fulcio EXCEPT !.verifier = "rawKey", !.issuer = "none", !.identity = NoKey, !.key = k]

MCEntries ==
  { Fulcio, Raw,
    [Fulcio EXCEPT !.identity = fork],
    [Fulcio EXCEPT !.dsse = FALSE],
    [Fulcio EXCEPT !.proof.index = 1],
    [Fulcio EXCEPT !.proof.index = -1],
    [Fulcio EXCEPT !.proof.size = 0],
    [Raw EXCEPT !.set = "absent"],
    [Raw EXCEPT !.verifier = "certificate", !.key = k2],
    [Raw EXCEPT !.verifier = "undecodable"] }

=============================================================================
