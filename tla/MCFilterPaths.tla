--------------------------- MODULE MCFilterPaths ---------------------------
(* The three ways to an engine, for TLC: rules of a list and of the        *)
(* operator, those that fit the table and those that do not.               *)
EXTENDS Filter

C == <<"c">>
BC == <<"b", "c">>
Rl(b, f, p, src) ==
  [block |-> b, form |-> f, pat |-> p, important |-> FALSE, badfilter |-> FALSE, rewrite |-> FALSE,
   types |-> None, clients |-> None, denyallow |-> {}, source |-> src]
MCPool == {
  Rl(TRUE, "suffix", C, "list"), Rl(FALSE, "suffix", BC, "list"),
  Rl(TRUE, "regex", {BC}, "list"), Rl(TRUE, "suffix", C, "denylist")}
MCQuery == [name : {C, BC}, type : {"A"}, client : {"x"}]
=============================================================================
