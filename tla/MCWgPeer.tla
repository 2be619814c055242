------------------------------ MODULE MCWgPeer ------------------------------
(***************************************************************************)
(* WgPeer with its timers scaled down, their order kept: a key is renewed  *)
(* at 2 and dead at 4, attempts are 2 apart and given up at 5.             *)
(***************************************************************************)
EXTENDS WgPeer, TLC

Symmetry == Permutations(Indices)
=============================================================================
