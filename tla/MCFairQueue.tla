----------------------------- MODULE MCFairQueue -----------------------------
(* Model checking instance of FairQueue: three of the four client classes. *)
EXTENDS FairQueue

MCClients == <<"temperature-monitor", "graphite", "interactive">>
=============================================================================
