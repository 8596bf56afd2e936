-------------------------------- MODULE LvPower --------------------------------
(***************************************************************************)
(* LV power control in lvhv-server: the i2c worker's powerOn, powerOff and *)
(* station_reset commands, the MCP23S08 expander they drive through a      *)
(* cached output byte, and the start of the server that initialises both.  *)
(*                                                                         *)
(* Outputs are 0..NumOutputs-1 (six in the code).  The selector NumOutputs *)
(* is "all, staggered" (powerOn 6, powerOff 6) and NumOutputs+1 is "all,   *)
(* at once" (powerOn 7).  Every GPIO write, SPI transfer and wait may      *)
(* fail, and the process may die between any two of them: the hardware     *)
(* keeps its state, the process starts again.                              *)
(*                                                                         *)
(* MCP_pinWrite changes the cached byte first and then sends ALL of it, so *)
(* the bit of a failed write goes out with the next write of any pin.  A   *)
(* failed SPI transfer may or may not have reached the chip.               *)
(***************************************************************************)
EXTENDS Integers

CONSTANT NumOutputs

ASSUME NumOutputsAssumption == NumOutputs \in Nat \ {0}

VARIABLES
  server,    \* "down" or "up"
  cache,     \* _outputCache, a bit per output
  latch,     \* the output register of the expander
  driven,    \* the pins whose direction register says output
  global,    \* the shared LV enable (GPIO18)
  station,   \* the station reset line (GPIO25), 0 holds the stations in reset
  cmd,       \* the command the i2c worker is carrying out
  event,     \* a discovery event has just been sent (until the next command)
  lastOk,    \* the last output write was acknowledged
  asked,     \* asked[o]: the value of the last write attempted on output o
  acked,     \* acked[i]: what the server last acknowledged of output i
  whole      \* the last start came through every stage of initialize_i2c_lv

hardware == <<latch, driven, global, station>>
vars == <<server, cache, latch, driven, global, station, cmd, event, lastOk,
          asked, acked, whole>>

Outputs == 0..(NumOutputs - 1)
All == NumOutputs
AllAtOnce == NumOutputs + 1
Bit == {0, 1}
LOW == 0
HIGH == 1

Addressed(ch) == IF ch >= All THEN Outputs ELSE {ch}

\* pc is the next step; i the next output; failed as in i2c_lv_power_control.
NoCommand == [pc |-> "idle", value |-> LOW, ch |-> 0, i |-> 0, failed |-> FALSE,
              result |-> 0]
CommandType ==
  [pc : {"idle", "reset", "global", "output", "wait", "done"},
   value : Bit, ch : 0..AllAtOnce, i : Outputs, failed : BOOLEAN,
   result : {0, -1}]

TypeOK ==
  /\ server \in {"down", "up"}
  /\ cache \in [Outputs -> Bit]
  /\ latch \in [Outputs -> Bit]
  /\ driven \subseteq Outputs
  /\ global \in Bit
  /\ station \in Bit
  /\ cmd \in CommandType
  /\ event \in BOOLEAN
  /\ lastOk \in BOOLEAN
  /\ asked \in [Outputs -> Bit]
  /\ acked \in [Outputs -> Bit \cup {-1}]
  /\ whole \in BOOLEAN

\* The expander and the enable lines are in any state a previous process left.
Init ==
  /\ server = "down"
  /\ cache = [o \in Outputs |-> LOW]
  /\ latch \in [Outputs -> Bit]
  /\ driven \in {{}, Outputs}
  /\ global \in Bit
  /\ station \in Bit
  /\ cmd = NoCommand
  /\ event = FALSE
  /\ lastOk = FALSE
  /\ asked = [o \in Outputs |-> LOW]
  /\ acked = [o \in Outputs |-> -1]
  /\ whole = FALSE

-----------------------------------------------------------------------------
(* Starting the server: initialize_i2c adds the results of its two halves. *)

\* What initialize_i2c_lv leaves when it stops at a stage, and its result.
\* "reset" is the pulse on lv_mcp_reset, which clears the expander.
LvStages == {"mcp", "reset", "global", "pins", "bus", "ok"}
LvResult(stage) == CASE stage = "ok" -> 0 [] stage = "reset" -> 1 [] OTHER -> -1

initialize_i2c_lv(stage) ==
  CASE stage = "mcp" ->
         /\ driven' \in {driven, {}}
         /\ UNCHANGED <<cache, latch, global>>
    [] stage = "reset" ->
         /\ cache' = [o \in Outputs |-> LOW]
         /\ latch' \in {latch, [o \in Outputs |-> LOW]}
         /\ driven' = {}
         /\ UNCHANGED global
    [] stage = "global" ->
         /\ cache' = [o \in Outputs |-> LOW]
         /\ latch' = [o \in Outputs |-> LOW]
         /\ driven' = {}
         /\ UNCHANGED global
    [] stage = "pins" ->
         /\ cache' = [o \in Outputs |-> LOW]
         /\ latch' = [o \in Outputs |-> LOW]
         /\ \E n \in Outputs : driven' \in {0..n, 0..(n - 1)}
         /\ global' = LOW
    [] OTHER ->
         /\ cache' = [o \in Outputs |-> LOW]
         /\ latch' = [o \in Outputs |-> LOW]
         /\ driven' = Outputs
         /\ global' = LOW

\* rv = lv result + hv result; main serves when the sum is 0.
Start(stage, hv) ==
  /\ server = "down"
  /\ initialize_i2c_lv(stage)
  /\ server' = IF LvResult(stage) + hv = 0 THEN "up" ELSE "down"
  /\ cmd' = NoCommand
  /\ event' = FALSE
  /\ lastOk' = (stage = "ok")
  /\ asked' = [o \in Outputs |-> LOW]
  /\ acked' = [o \in Outputs |-> -1]
  /\ whole' = (stage = "ok")
  /\ UNCHANGED station

\* The process dies at any point and leaves the hardware as it is, the stations
\* held in reset if it dies in the middle of a pulse.
Crash ==
  /\ server = "up"
  /\ server' = "down"
  /\ cmd' = NoCommand
  /\ event' = FALSE
  /\ station' \in IF cmd.pc \in {"idle", "reset"} THEN {station, 0} ELSE {station}
  /\ acked' = [o \in Outputs |-> -1]
  /\ UNCHANGED <<cache, latch, driven, global, lastOk, asked, whole>>

-----------------------------------------------------------------------------
(* i2c_lv_power_control, one step for each operation that can fail. *)

\* Mutant of EndOutput: the loop over all outputs runs one too far.
EndOutput_OneTooFar(ch) == IF ch >= All THEN NumOutputs + 1 ELSE ch + 1

FirstOutput(ch) == IF ch >= All THEN 0 ELSE ch
EndOutput(ch)   == IF ch >= All THEN NumOutputs ELSE ch + 1
\* Mutant of Stagger: shutdown stops at its first failed write too.
Stagger_AlsoOff(c) == c.ch = All

Stagger(c) == c.ch = All /\ c.value = HIGH

\* Mutant of FirstStep: powerOff of one output lowers the shared enable too.
FirstStep_LowersGlobal(value, ch) ==
  IF ch >= All /\ value = HIGH THEN "reset" ELSE "global"

\* All outputs on: a pulse on the station reset first.  The shared enable goes
\* up with any powerOn and down with powerOff of all outputs only.
FirstStep(value, ch) ==
  CASE ch >= All /\ value = HIGH -> "reset"
    [] ch < All /\ value = LOW   -> "output"
    [] OTHER -> "global"

Begin(value, ch) ==
  /\ server = "up" /\ cmd.pc = "idle"
  /\ ch = AllAtOnce => value = HIGH
  /\ cmd' = [pc |-> FirstStep(value, ch),
             value |-> value, ch |-> ch, i |-> FirstOutput(ch),
             failed |-> FALSE, result |-> 0]
  /\ event' = FALSE
  /\ acked' = [o \in Outputs |-> IF o \in Addressed(ch) THEN -1 ELSE acked[o]]
  /\ UNCHANGED <<server, cache, hardware, lastOk, asked, whole>>

Return(result) == cmd' = [cmd EXCEPT !.pc = "done", !.result = result]

\* station_reset_pulse: the line low, 500 ms, and high again even if the wait
\* failed.  A failure leaves the line where the failing step found it.
station_reset_pulse(ok) ==
  IF ok THEN station' = 1 ELSE station' \in {0, 1, station}

ResetStep(ok) ==
  /\ cmd.pc = "reset"
  /\ station_reset_pulse(ok)
  /\ IF ok THEN cmd' = [cmd EXCEPT !.pc = "global"] ELSE Return(-1)
  /\ UNCHANGED <<server, cache, latch, driven, global, event, lastOk, asked, acked, whole>>

GlobalStep(ok) ==
  /\ cmd.pc = "global"
  /\ global' = IF ok THEN cmd.value ELSE global
  /\ IF ~ok /\ Stagger(cmd) THEN Return(-1)
     ELSE cmd' = [cmd EXCEPT !.pc = "output", !.failed = ~ok]
  /\ UNCHANGED <<server, cache, latch, driven, station, event, lastOk, asked, acked, whole>>

\* Mutant of MCP_pinWrite: the cached byte is only changed by a good write.
MCP_pinWrite_RollsBack(o, value, ok) ==
  LET byte == [cache EXCEPT ![o] = value]
  IN  /\ cache' = IF ok THEN byte ELSE cache
      /\ latch' \in IF ok THEN {byte} ELSE {latch, byte}
      /\ lastOk' = ok
      /\ asked' = [asked EXCEPT ![o] = value]

\* MCP_pinWrite and MCP_byteWrite.
MCP_pinWrite(o, value, ok) ==
  /\ cache' = [cache EXCEPT ![o] = value]
  /\ latch' \in IF ok THEN {cache'} ELSE {latch, cache'}
  /\ lastOk' = ok
  /\ asked' = [asked EXCEPT ![o] = value]

\* Mutant of NextOutput: the failures of earlier outputs are forgotten.
NextOutput_ForgetsFailure ==
  IF cmd.i + 1 < EndOutput(cmd.ch)
    THEN cmd' = [cmd EXCEPT !.i = @ + 1,
                            !.pc = IF Stagger(cmd) THEN "wait" ELSE "output"]
    ELSE Return(0)

\* After the write of output i: on to the next, to the wait, or back.
NextOutput ==
  IF cmd.i + 1 < EndOutput(cmd.ch)
    THEN cmd' = [cmd EXCEPT !.i = @ + 1,
                            !.pc = IF Stagger(cmd) THEN "wait" ELSE "output"]
    ELSE Return(IF cmd.failed THEN -1 ELSE 0)

OutputStep(ok) ==
  /\ cmd.pc = "output"
  /\ MCP_pinWrite(cmd.i, cmd.value, ok)
  /\ IF ok THEN NextOutput
     ELSE IF Stagger(cmd) THEN Return(-1)
     ELSE IF cmd.i + 1 < EndOutput(cmd.ch)
            THEN cmd' = [cmd EXCEPT !.i = @ + 1, !.failed = TRUE]
            ELSE Return(-1)
  /\ UNCHANGED <<server, driven, global, station, event, acked, whole>>

\* The pause between two outputs of a staggered start.
WaitStep(ok) ==
  /\ cmd.pc = "wait"
  /\ IF ok THEN cmd' = [cmd EXCEPT !.pc = "output"] ELSE Return(-1)
  /\ UNCHANGED <<server, cache, hardware, event, lastOk, asked, acked, whole>>

\* i2c_lv_power_on / _off return to the worker loop: the discovery event of a
\* successful start of all outputs (a datagram that may be lost), the reply.
Finish ==
  /\ cmd.pc = "done"
  /\ event' \in IF cmd.value = HIGH /\ cmd.ch >= All /\ cmd.result = 0
                THEN BOOLEAN ELSE {FALSE}
  /\ acked' = [o \in Outputs |->
                 IF o \in Addressed(cmd.ch) /\ cmd.result = 0
                 THEN cmd.value ELSE acked[o]]
  /\ cmd' = [cmd EXCEPT !.pc = "idle"]
  /\ UNCHANGED <<server, cache, hardware, lastOk, asked, whole>>

\* The station_reset command: a pulse and nothing else.
StationReset(ok) ==
  /\ server = "up" /\ cmd.pc = "idle"
  /\ station_reset_pulse(ok)
  /\ cmd' = NoCommand
  /\ event' = FALSE
  /\ UNCHANGED <<server, cache, latch, driven, global, lastOk, asked, acked, whole>>

Next ==
  \/ \E stage \in LvStages, hv \in {0, -1} : Start(stage, hv)
  \/ Crash
  \/ \E value \in Bit, ch \in 0..AllAtOnce : Begin(value, ch)
  \/ \E ok \in BOOLEAN :
       \/ ResetStep(ok) \/ GlobalStep(ok) \/ OutputStep(ok) \/ WaitStep(ok)
       \/ StationReset(ok)
  \/ Finish

Spec == Init /\ [][Next]_vars

-----------------------------------------------------------------------------
(* Properties. *)

\* What the server has acknowledged of an output is in the output register of
\* the expander, through any failed, interrupted or partial command on other
\* outputs, until a command addresses that output again; the pin is driven by
\* that register if the start came through initialize_i2c_lv (a server also
\* comes up from the start whose results cancel, with no pin an output); and
\* while an output is acknowledged on, the shared enable is on.
AckedOutputsHold ==
  \A o \in Outputs :
    acked[o] # -1 => /\ latch[o] = acked[o]
                     /\ whole => o \in driven
                     /\ acked[o] = HIGH => global = HIGH

\* An acknowledged command settles the failed writes before it: every output,
\* the ones it does not address too, is then as the last write attempted on
\* it asked, because each write sends the whole cached byte.
AckSettlesEarlierFailures ==
  (cmd.pc = "done" /\ cmd.result = 0) => latch = asked

\* Once powerOff 6 has returned, acknowledged or not, no output is on unless
\* its last write failed: LV control "attempts every requested shutdown
\* write", and each write that works repairs the failed ones before it.
ShutdownRepairs ==
  (cmd.pc = "done" /\ cmd.value = LOW /\ cmd.ch = All /\ lastOk) =>
     /\ \A o \in Outputs : latch[o] = LOW
     /\ cmd.result = 0 => global = LOW

\* A discovery event is sent only with every output and the shared enable on
\* and the stations out of reset; the outputs are driven pins unless the
\* server came up from the start whose results cancel.
EventMeansAllOn ==
  event => /\ \A o \in Outputs : latch[o] = HIGH
           /\ whole => driven = Outputs
           /\ global = HIGH
           /\ station = 1

\* "Starting the actual server initializes hardware and disables global LV."
StartDisablesGlobal ==
  [][(server = "down" /\ server' = "up") => global' = LOW]_vars

=============================================================================
