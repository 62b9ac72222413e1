----------------------------- MODULE MCPrebuilts -----------------------------
(*************************************************************************)
(* Two ROMs whose modules overlap, the first with two in vendor_dlkm, the *)
(* second with a partition table of its own.                             *)
(*************************************************************************)
EXTENDS Prebuilts, TLC

CONSTANTS r1, r2, m1, m2

MCModulesIn ==
    r1 :> [d \in ModuleDirs |-> IF d = "modules/dlkm" THEN {m1, m2} ELSE {m1}]
        @@ r2 :> [d \in ModuleDirs |-> {m2}]
MCSameSizes == {r1}
=============================================================================
