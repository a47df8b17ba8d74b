------------------------------ MODULE MCStorage ------------------------------
(* Two inputs on one file, a store of up to five nodes.                     *)
EXTENDS Storage
==============================================================================
