-------------------------- MODULE MCReadAdmission --------------------------
(* Requests of every kind, that need a part of the memory or all of it.     *)
EXTENDS ReadAdmission

CONSTANTS r1, r2, r3

SomePlans == {[script |-> Direct, memory |-> 1],
              [script |-> Selective, memory |-> 2],
              [script |-> Cached, memory |-> 1],
              [script |-> Missing, memory |-> 3]}
=============================================================================
