-------------------------------- MODULE MCReader -------------------------------
(***************************************************************************)
(* The calls of parse_verilog: the comments of a text are deleted, and the *)
(* statements of what is left are read.  The two are joined in the order   *)
(* of the calls and not in their data: characters are forgotten when they  *)
(* have been looked at, and the files after the first have none.           *)
(***************************************************************************)
EXTENDS Reader, Comments

ShortTexts == UNION {[1..n -> {"/", "*", "\n", "x"}] : n \in 0..6}

Statement(kind, words) == [kind |-> kind, words |-> words]
Header(title, words) == [kind |-> "module", title |-> title, words |-> words]

SomeStatements ==
    {Header("top", <<"f", "a">>), Header("top", <<"f", "a", "f">>), Header("part", <<"a">>),
     Statement("input", <<"a">>), Statement("input", <<"f">>), Statement("input", <<"a", "a">>),
     Statement("output", <<"f">>), Statement("output", <<"a", "f">>),
     Statement("wire", <<"w">>), Statement("wire", <<"a", "w">>),
     Statement("gate", <<"f", "a">>), Statement("gate", <<"f", "w", "w">>),
     Statement("gate", <<"w", "a", "f">>),
     Statement("endmodule", <<>>), Statement("broken", <<"a">>), Statement("broken", <<>>)}

-------------------------------------------------------------------------------
Deletes == DeleteNext /\ UNCHANGED vars

ReadsOn ==
    /\ i > Len(str)
    /\ Next
    /\ str' = <<>> /\ i' = 1 /\ out' = TRUE /\ eol' = FALSE /\ result' = <<>>

FilesInit == DeleteInit /\ Init

Spec == FilesInit /\ [][Deletes \/ ReadsOn]_<<vars, commentVars>>

===============================================================================
