----------------------------- MODULE MCBddStore -----------------------------
(* BddStore over a few variables.  The renaming projects the second column   *)
(* away and exchanges the first and the last.                                *)
EXTENDS BddStore

MCBits == { <<v, v # 2>> : v \in 1 .. NVars }
MCVarLists == [f \in Families |-> IF f = "joined" THEN {{1, NVars}} ELSE {{1}, {2, NVars}}]
MCMaxHeld == [f \in Families |-> IF f = "joined" THEN 4 ELSE 3]
MCRenamings == { <<{2}, [NoPerm EXCEPT ![1] = NVars, ![NVars] = 1]>> }
=============================================================================
