------------------------------ MODULE MCCharts ------------------------------
(* Constants for the runs of ChartImport. *)
EXTENDS ChartImport

ThreeIds  == 1..3
TwoTitles == {"t1", "t2"}
Degrees   == {0, 90}
Months    == <<1, 2>>

\* Two editions, whose pages may be swapped; a download that failed, a
\* document that was withdrawn, or all of them.
Doc(page, failed) == [page |-> page, failed |-> failed]
Both(p, q, failed) == [t1 |-> Doc(p, FALSE), t2 |-> Doc(q, failed)]
AllManifests ==
  {[edition |-> 1, docs |-> d] :
     d \in {Both("p1", "p2", FALSE), Both("p2", "p1", FALSE)}}
  \cup {[edition |-> 2, docs |-> d] :
     d \in {Both("p1", "p2", FALSE), Both("p1", "p2", TRUE), [t2 |-> Doc("p1", FALSE)],
            <<>>}}
=============================================================================
