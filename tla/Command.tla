------------------------------- MODULE Command -------------------------------
(***************************************************************************)
(* The requests of the LVHV wire protocol as the server tells them apart:  *)
(* which ones it accepts (Command.c, command_is_valid) and which worker    *)
(* queue the client handler submits an accepted one to (handler.c).        *)
(*                                                                         *)
(* A request is a record [name, type, channel, numeric].  The 32-bit float *)
(* parameter is abstracted to what the server tests of it: "dac" is an     *)
(* integer in 0..LVHV_HV_DAC_MAX, "finite" any other finite number and     *)
(* "nonfinite" a NaN or an infinity.                                       *)
(***************************************************************************)
EXTENDS Naturals

Queues == {"i2c", "pico_a", "pico_b"}
Picos  == {0, 1}
HvChannels == 12

ReadMonCommands == {"readMonV48", "readMonI48", "readMonV6", "readMonI6"}

PicoCommands ==
  {"pcb_temp", "pico_current", "current_burst", "current_start",
   "current_stop", "update_ped", "current_buffer_run", "trip", "reset_trip",
   "disable_trip", "enable_trip", "trip_status", "trip_currents",
   "trip_enabled", "set_trip", "set_trip_count", "enable_ped", "disable_ped",
   "start_usb", "stop_usb", "get_slow_read", "get_vhv", "get_ihv",
   "get_vhvs", "get_ihvs"}

Names == {"set_hv_by_dac", "query_hv_dac_cache", "powerOn", "powerOff",
          "station_reset", "unknown"} \cup ReadMonCommands \cup PicoCommands

Types == {"lv", "hv", "pico", "other"}
Numerics == {"dac", "finite", "nonfinite"}

CommandSet == [name : Names, type : Types, channel : 0..255, numeric : Numerics]

\* Mutant of OnHvChannel: one channel too many.
OnHvChannel_OneMore(c) == c.channel <= HvChannels

OnHvChannel(c) == c.channel < HvChannels

command_is_valid(c) ==
  /\ c.numeric # "nonfinite"
  /\ \/ /\ c.name = "set_hv_by_dac"
        /\ c.type = "hv" /\ OnHvChannel(c) /\ c.numeric = "dac"
     \/ /\ c.name = "query_hv_dac_cache"
        /\ c.type = "hv" /\ OnHvChannel(c)
     \/ /\ c.name = "powerOn"
        /\ c.type = "lv" /\ c.channel <= 7
     \/ /\ c.name \in {"powerOff"} \cup ReadMonCommands
        /\ c.type = "lv" /\ c.channel <= 6
     \/ /\ c.name = "station_reset"
        /\ c.type = "lv"
     \/ /\ c.name \in PicoCommands
        /\ c.type = "pico" /\ OnHvChannel(c)

\* The Pico whose connection the handler checks before it queues the request.
CheckedPico(c) == IF c.channel < 6 THEN 0 ELSE 1

\* The Pico that the worker of a Pico queue drives.
PicoOf(q) == IF q = "pico_a" THEN 0 ELSE 1

\* The queue a Pico request goes to.  The two board-wide readings have a home
\* queue whatever their channel; "none" is the branch that only logs.
PicoQueue(c) ==
  CASE c.name = "pico_current" -> "pico_a"
    [] c.name = "pcb_temp"     -> "pico_b"
    [] OTHER -> IF c.channel < 6 THEN "pico_a"
                ELSE IF c.channel < 12 THEN "pico_b" ELSE "none"

\* What the handler does with a request when the Picos in "connected" are
\* there: a queue, or an immediate reply, or nothing at all.
Route(c, connected) ==
  CASE ~command_is_valid(c)    -> "reject"
    [] command_is_valid(c) /\ c.type \in {"lv", "hv"} -> "i2c"
    [] command_is_valid(c) /\ c.type = "pico" ->
         IF CheckedPico(c) \in connected THEN PicoQueue(c) ELSE "no_pico"
    [] OTHER -> "none"

=============================================================================
