----------------------------- MODULE MCProgress -----------------------------
(* Progress for a binary and two libraries; the libraries need each other. *)
EXTENDS Progress, TLC

CONSTANTS bin, lib1, lib2, src1, src2

SmallKeys == (bin :> {src1}) @@ (lib1 :> {src1, src2}) @@ (lib2 :> {src1})
SmallDeps == (bin :> {lib1}) @@ (lib1 :> {lib2}) @@ (lib2 :> {lib1})
=============================================================================
