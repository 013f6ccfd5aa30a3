------------------------ MODULE MCFairStreamScheduler ------------------------
(***************************************************************************)
(* Small instances of the scheduler: three users, one of them with two     *)
(* handler threads, so that a user can queue behind itself and borrow.     *)
(***************************************************************************)
EXTENDS FairStreamScheduler

CONSTANTS u1, u2, u3, a1, a2, b1, c1

ThreeUsers == {u1, u2, u3}

SharedThreads == {a1, a2, b1, c1}

UserOfThread ==
  [t \in Threads |-> CASE t \in {a1, a2} -> u1
                       [] t = b1 -> u2
                       [] t = c1 -> u3]
=============================================================================
