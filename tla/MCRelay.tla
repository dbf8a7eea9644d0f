------------------------------- MODULE MCRelay ------------------------------
(***************************************************************************)
(* The instances of Relay that TLC checks: each protocol with each way to  *)
(* answer, messages with one field, or with the content and another one,   *)
(* set to each kind of value, and answers of a few lines.                  *)
(***************************************************************************)
EXTENDS Relay

H(p, e, s) == [prot |-> p, ep |-> e, stream |-> s]

AllHows == {H(p, "chat", s) : p \in Protocols, s \in BOOLEAN}
           \cup {H("near", e, FALSE) : e \in Endpoints \ {"chat"}}
MCReads == [p \in Protocols |-> IF p \in FullBody THEN 4 ELSE 2]
ChutesStream == {H("chutes", "chat", TRUE)}

\* A message with one field, and a sealed content beside it.
MCDeltas == {Nothing} \cup {[Nothing EXCEPT ![p] = v] : p \in ChatPaths, v \in Leaf}
            \cup {[Nothing EXCEPT !["content"] = "sealed", ![p] = v] :
                    p \in {"refusal", "function_call"}, v \in {"sealed", "plain"}}

MCItems == {NoItem} \cup {[NoItem EXCEPT ![p] = v] : p \in ItemPaths, v \in Leaf}

\* A request with one field that varies.
Varied(paths) ==
  {[p \in paths \cup {"model", "role"} |-> IF p = q THEN v ELSE "absent"] :
     q \in paths, v \in Leaf \ {"sealed", "forged"}}
MCBodies ==
  [ep \in Endpoints |-> IF ep = "audio" THEN Varied({"prompt"}) ELSE Varied(SealedPaths("near", ep))]

=============================================================================
