---------------------------- MODULE MCFileWriter ----------------------------
(* FileWriter with the rules p/q, p_q and c; the first two share a folder. *)
EXTENDS FileWriter

Rules3 == {<<"p", "/", "q">>, <<"p", "_", "q">>, <<"c">>}
TwoFiles == <<"toolchain.make", "build.make">>

\* toolchain.make is the same for every rule, build.make is the rule's own.
Contents ==
  [e \in Edition |->
     [r \in Rule |-> << <<"cc", IF e = 1 THEN "gcc" ELSE "clang", Blank>>,
                        <<"sources", r>> >>]]
=============================================================================
