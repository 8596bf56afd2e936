-------------------------------- MODULE Station --------------------------------
(***************************************************************************)
(* What the protection monitors of a station share: its LV power and the   *)
(* lvhv-server through which they read it and switch it off.               *)
(*                                                                         *)
(* Each monitor is a process of its own and sees the others only through   *)
(* the power, which Operator may switch at any moment.                     *)
(***************************************************************************)
CONSTANT DryRun  \* the monitors are started with --dry-run

ASSUME StationAssumption == DryRun \in BOOLEAN

VARIABLES
  power,  \* what readMonV6 measures: "on" when any output is at 2 V or more
  lvhv    \* calls to lvhv-server work; when FALSE each may fail or not

stationVars == <<power, lvhv>>

StationTypeOK == power \in {"on", "off"} /\ lvhv \in BOOLEAN

StationInit == power \in {"on", "off"} /\ lvhv \in BOOLEAN

\* voltages: the reading, unless the call fails.
ReadFails == ~lvhv

\* powerOff on channel 6, acknowledged; a dry run sends nothing.
PowerOffAcked == power' = IF DryRun THEN power ELSE "off"

\* powerOff that raises: refused, unreachable, or done with its reply lost.
PowerOffFails == ~DryRun /\ ~lvhv /\ power' \in {power, "off"}

\* Somebody else switches the power, or the server goes or comes back.
Operator ==
  \/ power' \in {"on", "off"} \ {power} /\ UNCHANGED lvhv
  \/ lvhv' = ~lvhv /\ UNCHANGED power

=============================================================================
