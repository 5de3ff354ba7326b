----------------------------- MODULE MCDataGrid -----------------------------
(* A small instance of DataGrid: two queries, one of them with two pages.   *)
EXTENDS DataGrid

A == [id |-> "a", val |-> 0]
B == [id |-> "b", val |-> 0]
C == [id |-> "c", val |-> 0]
MCData == [all |-> << <<A, B>>, <<C>> >>, few |-> << <<B>> >>]
MCNewRows == {[id |-> "n", val |-> 0]}
\* The grids of the pages, which leave checkOnSelect and selectOnCheck as they
\* are by default, and one that has them apart.
MCOpts == {[single |-> FALSE, checkOnSelect |-> TRUE,  selectOnCheck |-> TRUE],
           [single |-> TRUE,  checkOnSelect |-> TRUE,  selectOnCheck |-> TRUE],
           [single |-> FALSE, checkOnSelect |-> FALSE, selectOnCheck |-> TRUE]}
MCMaxAsked == [u \in {"list", "query", "edit"} |-> IF u = "edit" THEN 2 ELSE 3]

=============================================================================
