----------------------------- MODULE MCConsole -----------------------------
(* Directives for model checking Console with 8-bit integers: the least    *)
(* number, small and large ones, both fillings on both sides.              *)
EXTENDS Console

MCFields ==
  {Directive("d", FALSE, FALSE, 0, v, <<>>) : v \in {-128, -7, 0, 10, 127}}
    \cup {Directive("x", FALSE, TRUE, 3, v, <<>>) : v \in {-1, 0, 16}}
    \cup {Directive("d", TRUE, FALSE, 3, 5, <<>>), Directive("o", FALSE, FALSE, 0, -1, <<>>),
          Directive("s", TRUE, TRUE, 2, 0, <<"a">>), Directive("q", FALSE, FALSE, 0, 0, <<>>)}

MCFixedFields == {Directive("d", TRUE, FALSE, 2, 5, <<>>)}
=============================================================================
