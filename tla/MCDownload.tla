----------------------------- MODULE MCDownload -----------------------------
(* Download of a file of two blocks from a server that has it, or not.     *)
EXTENDS Download

TwoBlocks == <<"b1", "b2">>
Contents == {TwoBlocks, <<"b1", "b3">>}
Spelled == {[len |-> 64, digits |-> TwoBlocks, upper |-> u] : u \in BOOLEAN}
=============================================================================
