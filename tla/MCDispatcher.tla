---------------------------- MODULE MCDispatcher ----------------------------
(***************************************************************************)
(* The dispatcher for TLC.                                                 *)
(***************************************************************************)
EXTENDS Dispatcher, TLC

\* Agents and claims are only compared.
Symmetry == Permutations(Claims) \cup Permutations(Agents)
=============================================================================
