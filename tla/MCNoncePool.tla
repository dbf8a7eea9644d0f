---------------------------- MODULE MCNoncePool ----------------------------
(***************************************************************************)
(* The instances of NoncePool that TLC checks: one chute, for chutes share *)
(* nothing but the lock; concurrent calls of Take; answers that mix a      *)
(* usable and an unusable instance.                                        *)
(***************************************************************************)
EXTENDS NoncePool

CONSTANTS i1, i2, k1

MCInstances == {i1, i2}
MCKeys == {k1}

Entry(i, k, n) == [id |-> i, key |-> k, count |-> n]

\* A short-lived answer with a keyless and a usable instance, one with two
\* usable instances whose lifetime is clamped, one rejected for its lifetime.
MCResponses ==
  { [instances |-> <<Entry(i1, NoKey, 1), Entry(i2, k1, 2)>>, nonceExpIn |-> 3],
    [instances |-> <<Entry(i1, k1, 1), Entry(i2, k1, 1)>>, nonceExpIn |-> 0],
    [instances |-> <<Entry(i1, k1, 1)>>, nonceExpIn |-> 7] }

=============================================================================
