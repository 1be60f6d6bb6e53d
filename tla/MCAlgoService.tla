--------------------------- MODULE MCAlgoService ---------------------------
(* Four backtests in three requests for two workers, a live algo and an
   order of a category without a trader. *)
EXTENDS AlgoService

MCBackTest == {1, 2, 3, 4}
MCTraders == MCBackTest \cup {5, 6}
MCRequests == {<<1, 2>>, <<3>>, <<4>>, <<5, 6>>}

\* All backtests of one category.
OneCategory ==
    {[t \in MCTraders |-> IF t = 6 THEN "T0" ELSE IF t = 5 THEN "ALGO" ELSE c] :
        c \in {"ALGO", "SHOT"}}

\* Algos and a shot together.
MixedCategories ==
    {[t \in MCTraders |-> IF t = 6 THEN "T0" ELSE IF t = 2 THEN "SHOT" ELSE "ALGO"]}
=============================================================================
