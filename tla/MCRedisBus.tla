----------------------------- MODULE MCRedisBus -----------------------------
(***************************************************************************)
(* Instances of RedisBus for TLC.  e1 and e2 share a key and a stream; the *)
(* number of workers varies with the run.                                  *)
(***************************************************************************)
EXTENDS RedisBus, TLC

CONSTANTS e1, e2, e3, s1, s2, k1, k2, w1, w2, n1, n2, a1, a2

OneStream == [e \in Events |-> s1]
Rank == [s \in Streams |-> IF s = s1 THEN 1 ELSE 2]
SharedKey == [e \in Events |-> IF e = e3 THEN k2 ELSE k1]
ByWorker == [k \in Keys |-> IF k = k1 \/ w2 \notin Workers THEN w1 ELSE w2]
\* Processes are interchangeable.
Symmetry == Permutations(Nodes)
=============================================================================
