------------------------------ MODULE MCConsole ------------------------------
(* A suite of two seeds and its clone, two submissions and four runs, so        *)
(* that runs are shared out between two rows of a table or are one submission's *)
(* twice (a re-evaluation); a reader or a registration beside a registration.   *)
EXTENDS Console

CONSTANTS c1, c2

MCSeedLists == {<<"a", "b">>}
MCServes == c1 :> {"register", "queue", "listing"} @@ c2 :> {"register"}
Success(score) ==
    [status |-> "succeeded", score |-> score, error |-> FALSE, started |-> TRUE, logs |-> FALSE]
MCPosted == {Success(0), Success(3)}
=============================================================================
