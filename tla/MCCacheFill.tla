---------------------------- MODULE MCCacheFill ----------------------------
(* Instances of CacheFill for TLC.                                          *)
EXTENDS CacheFill, TLC

CONSTANTS b1, b2, t1, t2, t3, here, there

(* One thread alone in its process, the others together. *)
Apart == [t \in Threads |-> IF t = t1 THEN here ELSE there]

Swap == Permutations(Threads \ {t1})
=============================================================================
