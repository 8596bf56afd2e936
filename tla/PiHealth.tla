-------------------------------- MODULE PiHealth --------------------------------
(***************************************************************************)
(* pi-health-server.py: one thread takes the edges of three GPIO lines and *)
(* reads the level of the line when it comes to the edge; a loss of AC on  *)
(* GPIO6, or a repeated one on GPIO21, switches the LV off, and a pulse of *)
(* the X728 board halts or reboots the Pi.  HTTP handlers start threads    *)
(* that pulse the soft-shutdown pin.                                       *)
(*                                                                         *)
(* Edges that come while a call blocks wait in the kernel's queue.  Times  *)
(* are ticks since the event.                                              *)
(***************************************************************************)
EXTENDS Station, Naturals, Sequences

CONSTANTS
  LossWindow,   \* gpio21_repeat_window_seconds
  RebootMin,    \* x728_reboot_pulse_minimum_seconds
  ShutdownMin,  \* x728_shutdown_pulse_minimum_seconds
  MaxEdges,     \* bound: edges that wait
  Pulsers       \* bound: threads that pulse the pin at a time

ASSUME PiHealthAssumption ==
  /\ LossWindow \in Nat /\ RebootMin \in Nat /\ ShutdownMin \in Nat
  /\ RebootMin < ShutdownMin /\ MaxEdges \in Nat

VARIABLES
  health,  \* the process: pc, time of the last GPIO21 loss and of the pulse's
           \* start, the system action that was issued
  wires,   \* the lines: AC is there (gpio6, gpio21), the pulse is high (x728)
  edges,   \* the edges that wait
  soft,    \* the soft shutdown: status, threads, the pin and who has it
  past     \* history: the lines that changed for the worse since the start, and
           \* the AC on GPIO6: "lost" until it is back or answered, "unheard"
           \* if no process is left that got the edge

healthVars == <<health, wires, edges, past>>

AcLines == {"gpio6", "gpio21"}
Lines == AcLines \cup {"x728"}
NoLoss == LossWindow + 1
NoPulse == ShutdownMin + 2
Up == [pc |-> "loop", loss |-> NoLoss, pulse |-> NoPulse, action |-> "none"]
NoPast == [bad |-> {}, ac |-> "fine"]
SoftIdle == [status |-> "idle", at |-> [w \in Pulsers |-> "none"], high |-> FALSE,
             holder |-> {}]

HealthTypeOK ==
  /\ health \in [pc : {"loop", "powerOff6", "powerOff21", "ended"}, loss : 0..NoLoss,
                 pulse : 0..NoPulse, action : {"none", "poweroff", "reboot"}]
  /\ wires \in [Lines -> BOOLEAN]
  /\ edges \in Seq(Lines) /\ Len(edges) <= MaxEdges
  /\ past \in [bad : SUBSET Lines, ac : {"fine", "lost", "unheard"}]
  /\ soft \in [status : {"idle", "pulsing", "pulse_complete", "failed"},
               at : [Pulsers -> {"none", "open", "pulse", "restore"}],
               high : BOOLEAN, holder : SUBSET Pulsers]

HealthInit ==
  /\ health = [Up EXCEPT !.pc = "ended"] /\ edges = <<>> /\ past = NoPast
  /\ wires = [l \in Lines |-> l \in AcLines]
  /\ soft = SoftIdle

-----------------------------------------------------------------------------
(* The GPIO thread *)

\* main: the levels at the start are noted and do not switch anything off.
HealthStart ==
  /\ health.pc = "ended"
  /\ health' = [Up EXCEPT !.pulse = IF wires["x728"] THEN 0 ELSE NoPulse]
  /\ edges' = <<>>
  /\ past' = [past EXCEPT !.bad = IF wires["x728"] THEN {"x728"} ELSE {}]
  /\ UNCHANGED <<wires, stationVars>>

Next21 == IF health.loss <= LossWindow
          THEN [health EXCEPT !.pc = "powerOff21", !.loss = NoLoss]
          ELSE [health EXCEPT !.loss = 0]

maybe_trigger_poweroff(l) ==
  IF wires[l] THEN health
  ELSE IF l = "gpio6" THEN [health EXCEPT !.pc = "powerOff6"] ELSE Next21

\* An edge of an AC line is taken: what counts is the level by now.
TakeAcEdge ==
  /\ health.pc = "loop"
  /\ edges # <<>> /\ Head(edges) \in AcLines
  /\ health' = maybe_trigger_poweroff(Head(edges))
  /\ edges' = Tail(edges)
  /\ UNCHANGED <<wires, past, stationVars>>

\* issue_system_action: once, unless systemctl cannot be run.
Issued(h, action) == {h} \cup (IF h.action = "none" THEN {[h EXCEPT !.action = action]} ELSE {})

handle_x728_power_edge ==
  LET low == [health EXCEPT !.pulse = NoPulse]
  IN  IF wires["x728"]
      THEN {IF health.pulse = NoPulse THEN [health EXCEPT !.pulse = 0] ELSE health}
      ELSE CASE health.pulse = NoPulse -> {health}
             [] health.pulse > ShutdownMin /\ health.pulse # NoPulse -> Issued(low, "poweroff")
             [] health.pulse > RebootMin /\ health.pulse <= ShutdownMin -> Issued(low, "reboot")
             [] OTHER -> {low}

TakePowerEdge ==
  /\ health.pc = "loop"
  /\ edges # <<>> /\ Head(edges) = "x728"
  /\ health' \in handle_x728_power_edge
  /\ edges' = Tail(edges)
  /\ UNCHANGED <<wires, past, stationVars>>

\* The pulse is long enough while the line is still high.
LongPulse ==
  /\ health.pc = "loop" /\ health.action = "none"
  /\ health.pulse > ShutdownMin /\ health.pulse # NoPulse
  /\ health' \in Issued(health, "poweroff")
  /\ UNCHANGED <<wires, edges, past, stationVars>>

Answered ==
  past' = [past EXCEPT !.ac = IF health.pc = "powerOff6" /\ @ = "lost" THEN "fine" ELSE @]

\* powerOff blocks the thread; a failure is logged, and not tried again.
HealthPowerOff ==
  /\ health.pc \in {"powerOff6", "powerOff21"}
  /\ power' = "off"
  /\ health' = [health EXCEPT !.pc = "loop"]
  /\ Answered
  /\ UNCHANGED <<wires, edges, lvhv>>

HealthPowerOffFails ==
  /\ health.pc \in {"powerOff6", "powerOff21"}
  /\ ~lvhv /\ power' \in {power, "off"}
  /\ health' = [health EXCEPT !.pc = "loop"]
  /\ Answered
  /\ UNCHANGED <<wires, edges, lvhv>>

\* A signal, or an error of the GPIO chip, which nothing catches.
HealthEnds ==
  /\ health.pc # "ended"
  /\ health' = [Up EXCEPT !.pc = "ended"]
  /\ edges' = <<>>
  /\ past' = [past EXCEPT !.ac = IF @ = "lost" THEN "unheard" ELSE @]
  /\ UNCHANGED <<wires, stationVars>>

Edge ==
  /\ Len(edges) < MaxEdges
  /\ \E l \in Lines :
       /\ wires' = [wires EXCEPT ![l] = ~@]
       /\ edges' = IF health.pc = "ended" THEN edges ELSE Append(edges, l)
       /\ past' = [bad |-> IF wires[l] = (l \in AcLines) THEN past.bad \cup {l} ELSE past.bad,
                   ac  |-> CASE l # "gpio6" -> past.ac
                             [] l = "gpio6" /\ ~wires[l] -> "fine"
                             [] l = "gpio6" /\ wires[l] ->
                                  IF health.pc = "ended" THEN "unheard" ELSE "lost"]
  /\ UNCHANGED <<health, stationVars>>

HealthTick ==
  /\ health' = [health EXCEPT !.loss = IF @ = NoLoss THEN @ ELSE @ + 1,
                              !.pulse = IF @ > ShutdownMin THEN @ ELSE @ + 1]
  /\ health' # health
  /\ UNCHANGED <<wires, edges, past, stationVars>>

HealthStep == HealthStart \/ TakeAcEdge \/ TakePowerEdge \/ LongPulse \/ HealthPowerOff

HealthNext == HealthStep \/ HealthPowerOffFails \/ HealthEnds \/ Edge \/ HealthTick

-----------------------------------------------------------------------------
(* POST /soft-shutdown and run_x728_soft_shutdown *)

\* One pulse is accepted at a time; another POST is answered 409.
RequestSoftShutdown(w) ==
  /\ soft.at[w] = "none" /\ soft.status # "pulsing"
  /\ soft' = [soft EXCEPT !.status = "pulsing", !.at[w] = "open"]

\* The pin is requested, which only one holder can, and driven high.
OpenPin(w) ==
  /\ soft.at[w] = "open" /\ soft.holder = {}
  /\ soft' = [soft EXCEPT !.at[w] = "pulse", !.holder = {w}, !.high = TRUE]

OpenPinFails(w) ==
  /\ soft.at[w] = "open"
  /\ soft' = [soft EXCEPT !.at[w] = "none", !.status = "failed"]

PulseDone(w) ==
  /\ soft.at[w] = "pulse"
  /\ soft' = [soft EXCEPT !.at[w] = "restore", !.high = FALSE, !.status = "pulse_complete"]

PulseFails(w) ==
  /\ soft.at[w] = "pulse"
  /\ soft' = [soft EXCEPT !.at[w] = "restore", !.status = "failed"]

\* The finally clause: low once more, then released.  The status has been
\* set by then, so the next pulse may have been accepted.
Restore(w) ==
  /\ soft.at[w] = "restore"
  /\ soft' = [soft EXCEPT !.at[w] = "none", !.high = FALSE, !.holder = @ \ {w}]

SoftNext ==
  \E w \in Pulsers : RequestSoftShutdown(w) \/ OpenPin(w) \/ OpenPinFails(w) \/ PulseDone(w)
                     \/ PulseFails(w) \/ Restore(w)

=============================================================================
