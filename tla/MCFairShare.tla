---------------------------- MODULE MCFairShare ----------------------------
(* The instances of MCFairStreamScheduler, with the history of FairShare.   *)
EXTENDS MCFairStreamScheduler, FairShare
=============================================================================
