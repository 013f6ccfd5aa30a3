---------------------------- MODULE MCTokenStore ----------------------------
(***************************************************************************)
(* Instances of TokenStore: handlers are interchangeable.                  *)
(***************************************************************************)
EXTENDS TokenStore, TLC

CONSTANTS alice, bob, h1, h2, h3, adm1, adm2

TwoUsers == {alice, bob}
TwoHandlers == {h1, h2}
ThreeHandlers == {h1, h2, h3}
OneAdmin == {adm1}

SwapHandlers == Permutations(Handlers)
=============================================================================
