------------------------------ MODULE MCScrape ------------------------------
(* Constants for the run of ScrapeFlow. *)
EXTENDS ScrapeFlow

CONSTANTS t1, t2, sight

TwoTasks == {t1, t2}
OneTitle == {sight}

\* Every edition lists the document.
Listing == [e \in 1..2 |-> OneTitle]
=============================================================================
