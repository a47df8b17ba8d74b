------------------------------- MODULE MCPfp -------------------------------
(* Pfp over the rules of MCRules. *)
EXTENDS Pfp, MCRules
=============================================================================
