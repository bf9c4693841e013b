---------------------------- MODULE MCLinkFiles -----------------------------
(* LinkFiles for two binaries that link one library in common.             *)
EXTENDS LinkFiles, TLC

CONSTANTS b1, b2, own1, own2, common, debug, release

SharedUses == (b1 :> {own1, common}) @@ (b2 :> {common, own2})
TwoTypes == <<debug, release>>
=============================================================================
