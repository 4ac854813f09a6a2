------------------------------- MODULE MCView -------------------------------
(* Text with line breaks of every kind; shorter where more is kept beside it. *)
EXTENDS View

MCStrings == [u \in Uses |->
    CASE u = "marker"     -> {<<"a">>, <<CR>>, <<LF>>, CRLF, <<"a", CR>>}
      [] u = "indicators" -> {<<"a">>, <<"a", "a">>}
      [] u = "folds"      -> {<<"a">>, <<LF>>}]

MCMaxLen == [u \in Uses |-> IF u = "folds" THEN 3 ELSE 4]
MCMaxSteps == [u \in Uses |-> CASE u = "marker" -> 8 [] u = "indicators" -> 6 [] u = "folds" -> 5]

=============================================================================
