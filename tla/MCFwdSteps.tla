----------------------------- MODULE MCFwdSteps -----------------------------
(* FwdSteps over the rules of MCRules, from fewer databases. *)
EXTENDS FwdSteps, MCRules

MCFwdEDBs == { db \in MCEDBs : db[p] # {a} /\ db[fp] = {} }
=============================================================================
