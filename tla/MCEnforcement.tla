---------------------------- MODULE MCEnforcement ----------------------------
(***************************************************************************)
(* Small instances of Enforcement for TLC.                                 *)
(***************************************************************************)
EXTENDS Enforcement, TLC

CONSTANTS p1, p2

MCPolicies == {p1, p2}
Switch == {"true", "false"}
MCLogOnlyValues == Switch \union {"invalid"}
Symmetry == Permutations(MCPolicies)
=============================================================================
