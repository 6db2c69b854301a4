------------------------- MODULE MC_EffectGateway -------------------------
(* Small instances of the outbound path.                                   *)
EXTENDS EffectGateway, TLC

Symmetry == Permutations(Runtimes)
=============================================================================
