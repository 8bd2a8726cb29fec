---------------------------- MODULE MCComponents ----------------------------
(* The parts of Components on small instances.                              *)
EXTENDS Components, Sequences, TLC

CONSTANTS
  f1, l1, l2

\* The client f1 uses the connection ID.
MCClient == [x \in ConnIDs |-> f1]

\* Connections and the pools of the listen side are interchangeable.
MCSymmetry == Permutations(Conns) \cup Permutations(Pools)

\* One pool of two connections, or two of one connection each.
MCConfigs == {l1 :> 2 @@ l2 :> 0, l1 :> 1 @@ l2 :> 1}

\* interval / sqrt(1), and a balancer rule of each kind.
MCLaw == <<1>>
MCRules == <<"seq", "bps", "const">>
=============================================================================
