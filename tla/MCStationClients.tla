---------------------------- MODULE MCStationClients ----------------------------
(* A small instance: two ramps, and two archiving processes of which the   *)
(* first has two batches; a command line for two hosts.                    *)
EXTENDS StationClients, TLC

CONSTANTS w1, w2, c1, c2, h1, h2

MCWriters == {w1, w2}
MCChannels == {c1, c2}
MCContents == {{c1}, {c1, c2}}
MCHosts == <<h1, h2>>
MCBound == w1 :> 2 @@ w2 :> 1

=============================================================================
