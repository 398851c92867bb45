------------------------------ MODULE MCJobsPage ------------------------------
(* JobsPage for TLC: a server with two plugins and one with another.       *)
EXTENDS JobsPage

MCOffers == {<<1, "postgres">>, <<1, "logs">>, <<2, "logs">>}
=============================================================================
