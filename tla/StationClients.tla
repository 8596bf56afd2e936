----------------------------- MODULE StationClients -----------------------------
(***************************************************************************)
(* The clients of a station: ramps of its HV, the programs that poll it,   *)
(* the sensor server, the archive of the samples and the command line.     *)
(*                                                                         *)
(* They meet only in the servers they ask and in the database, and each    *)
(* part has what those may do to it (answer, fail, be late, restart) as a  *)
(* choice of its own.  So the parts are explored one at a time; `focus`    *)
(* says which.                                                             *)
(***************************************************************************)
EXTENDS HvRamp, Archive, Collectors, SensorServer, Tunnels

VARIABLE focus

vars == <<focus, hvRampVars, archiveVars, collectVars, view, sensorVars, tunnelVars>>

Parts == {"ramp", "archive", "collect", "view", "sensor", "shell"}

TypeOK ==
  /\ focus \in Parts
  /\ RampTypeOK /\ ArchiveTypeOK /\ CollectTypeOK /\ ViewTypeOK /\ SensorTypeOK /\ TunnelTypeOK

Init ==
  /\ focus \in Parts
  /\ RampInit /\ ArchiveInit /\ CollectInit /\ ViewInit /\ SensorInit /\ TunnelInit
  /\ focus # "collect" => col.group = "hv" /\ v6 = 0
  /\ focus # "shell" => call = [service |-> "lvhv", interactive |-> FALSE]

Ramping ==
  /\ focus = "ramp" /\ RampNext
  /\ UNCHANGED <<focus, archiveVars, collectVars, view, sensorVars, tunnelVars>>
Archiving ==
  /\ focus = "archive" /\ ArchiveNext
  /\ UNCHANGED <<focus, hvRampVars, collectVars, view, sensorVars, tunnelVars>>
Collecting ==
  /\ focus = "collect" /\ CollectNext
  /\ UNCHANGED <<focus, hvRampVars, archiveVars, view, sensorVars, tunnelVars>>
Viewing ==
  /\ focus = "view" /\ ViewNext
  /\ UNCHANGED <<focus, hvRampVars, archiveVars, collectVars, sensorVars, tunnelVars>>
Sensing ==
  /\ focus = "sensor" /\ SensorNext
  /\ UNCHANGED <<focus, hvRampVars, archiveVars, collectVars, view, tunnelVars>>

Typing ==
  /\ focus = "shell" /\ TunnelNext
  /\ UNCHANGED <<focus, hvRampVars, archiveVars, collectVars, view, sensorVars>>

Next == Ramping \/ Archiving \/ Collecting \/ Viewing \/ Sensing \/ Typing

\* A ramp thread goes on, and lvhv-server executes what it is sent.
Spec ==
  /\ Init /\ [][Next]_vars
  /\ \A p \in Procs :
       WF_vars(focus = "ramp" /\ Going(p)
               /\ UNCHANGED <<focus, archiveVars, collectVars, view, sensorVars, tunnelVars>>)

-----------------------------------------------------------------------------
\* The archive holds one row per channel, each sample at most once and under
\* the row of its channel, whatever processes die, answers get lost and
\* transactions end after their client has gone; a thread that ends has dealt
\* with its queue.
ArchiveIsSound == RegisteredOnce /\ IdsAreCommitted /\ ArchivedOnce /\ DrainedAtEnd

=============================================================================
