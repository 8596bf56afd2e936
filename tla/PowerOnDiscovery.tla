---------------------------- MODULE PowerOnDiscovery ----------------------------
(***************************************************************************)
(* power_on_discovery.py: lvhv-server sends a datagram when all channels   *)
(* were powered on; the thread drains them, waits out the boot delay and   *)
(* starts a discovery, retrying within a window that the last event opened.*)
(*                                                                         *)
(* Times are the ticks that are left; `now` of a step is the moment it     *)
(* began, also for a retry that is scheduled after a long scan.  The power *)
(* is read over TCP between the check of the window and the discovery, and *)
(* time goes on meanwhile.  Datagrams with another payload only take up    *)
(* room in the socket.                                                     *)
(***************************************************************************)
EXTENDS Integers

CONSTANTS
  Delay,        \* delay
  RetrySeconds, \* retry_seconds
  BusyRetry,    \* the pause after a BusyError (0.25 s)
  ErrorRetry,   \* the pause after another failure (2 s)
  SocketRoom    \* datagrams the socket holds

ASSUME PowerOnDiscoveryAssumption ==
  /\ {Delay, RetrySeconds, BusyRetry, ErrorRetry} \subseteq Nat
  /\ BusyRetry <= ErrorRetry /\ SocketRoom \in Nat \ {0}

VARIABLES
  pod,     \* the thread: pc, due, expires, and the ticks spent since `now`
  sock,    \* the events in the socket
  volts,   \* what the power reader finds
  since,   \* history: ticks since the last event was received
  checked, \* history: `since` when the step last found the window open
  owed     \* history: an event that no finished scan, reading of the power as
           \* off or expiry has answered yet

podVars == <<pod, sock, volts, since, checked, owed>>

None == -2
Window == Delay + RetrySeconds
Late == Window + 1
Down(n, low) == IF n > low THEN n - 1 ELSE n

Unscheduled == [pc |-> "select", due |-> None, expires |-> None, spent |-> 0]

PodTypeOK ==
  /\ pod \in [pc : {"select", "step", "power", "scan"}, due : {None} \cup 0..(Delay + ErrorRetry),
              expires : {None} \cup -1..Window, spent : 0..ErrorRetry]
  /\ pod.due = None <=> pod.expires = None
  /\ sock \in 0..SocketRoom
  /\ volts \in {"on", "off", "unknown"}
  /\ since \in 0..Late /\ checked \in 0..Late
  /\ owed \in {"no", "yes", "scanning"}

PodInit ==
  /\ pod = Unscheduled /\ sock = 0 /\ volts \in {"on", "off", "unknown"}
  /\ since = Late /\ checked = 0 /\ owed = "no"

\* lvhv-server's notification; it is lost when the socket is full.
PowerOnSent ==
  /\ sock < SocketRoom
  /\ sock' = sock + 1
  /\ owed' = "yes"
  /\ UNCHANGED <<pod, volts, since, checked>>

\* Mutant of receive: a request that is pending keeps its time.
receive_KeepsDue ==
  IF pod.due # None THEN pod ELSE [pod EXCEPT !.due = Delay, !.expires = Window]

\* Another event restarts the boot delay and the window.
receive == [pod EXCEPT !.due = Delay, !.expires = Window]

\* One turn of run up to step: whatever is in the socket is received.
Select ==
  /\ pod.pc = "select"
  /\ sock' = 0
  /\ pod' = [(IF sock > 0 THEN receive ELSE pod) EXCEPT !.pc = "step"]
  /\ since' = IF sock > 0 THEN 0 ELSE since
  /\ UNCHANGED <<volts, checked, owed>>

StepIdle ==
  /\ pod.pc = "step"
  /\ pod.due # 0
  /\ pod' = [pod EXCEPT !.pc = "select"]
  /\ UNCHANGED <<sock, volts, since, checked, owed>>

\* Mutant of StepDrops: the end of the window is kept.
StepDrops_KeepsExpiry ==
  /\ pod.pc = "step"
  /\ pod.due = 0 /\ pod.expires = -1
  /\ pod' = [pod EXCEPT !.pc = "select", !.due = None]
  /\ owed' = IF sock = 0 THEN "no" ELSE owed
  /\ UNCHANGED <<sock, volts, since, checked>>

\* The window is over: the request is dropped.
StepDrops ==
  /\ pod.pc = "step"
  /\ pod.due = 0 /\ pod.expires = -1
  /\ pod' = Unscheduled
  /\ owed' = IF sock = 0 THEN "no" ELSE owed
  /\ UNCHANGED <<sock, volts, since, checked>>

\* The window is open, and the power reader is asked.
StepAsks ==
  /\ pod.pc = "step"
  /\ pod.due = 0 /\ pod.expires >= 0
  /\ pod' = [pod EXCEPT !.pc = "power", !.spent = 0]
  /\ checked' = since
  /\ UNCHANGED <<sock, volts, since, owed>>

\* The power is off: the request is dropped.
PowerOff ==
  /\ pod.pc = "power"
  /\ volts = "off"
  /\ pod' = Unscheduled
  /\ owed' = IF sock = 0 THEN "no" ELSE owed
  /\ UNCHANGED <<sock, volts, since, checked>>

\* Another try, a pause after `now`.
Again(pause) ==
  [pod EXCEPT !.pc = "select", !.spent = 0,
              !.due = IF pause > pod.spent THEN pause - pod.spent ELSE 0]

\* The power reader fails.
PowerUnknown ==
  /\ pod.pc = "power"
  /\ volts = "unknown"
  /\ pod' = Again(ErrorRetry)
  /\ UNCHANGED <<sock, volts, since, checked, owed>>

\* The power is on: the discovery is called.
StepDiscovers ==
  /\ pod.pc = "power"
  /\ volts = "on"
  /\ pod' = [pod EXCEPT !.pc = "scan"]
  /\ owed' = IF owed = "yes" /\ sock = 0 THEN "scanning" ELSE owed
  /\ UNCHANGED <<sock, volts, since, checked>>

ScanDone ==
  /\ pod.pc = "scan"
  /\ pod' = Unscheduled
  /\ owed' = IF owed = "scanning" THEN "no" ELSE owed
  /\ UNCHANGED <<sock, volts, since, checked>>

\* Mutant of ScanFails: the failed discovery is not tried again.
ScanFails_GivesUp ==
  /\ pod.pc = "scan"
  /\ pod' = Unscheduled
  /\ owed' = IF owed = "scanning" THEN "yes" ELSE owed
  /\ UNCHANGED <<sock, volts, since, checked>>

\* BusyError (a full queue is one), or any other failure of the discovery.
ScanFails ==
  /\ pod.pc = "scan"
  /\ \E pause \in {BusyRetry, ErrorRetry} : pod' = Again(pause)
  /\ owed' = IF owed = "scanning" THEN "yes" ELSE owed
  /\ UNCHANGED <<sock, volts, since, checked>>

Tick ==
  /\ pod' = [pod EXCEPT !.due = Down(@, 0), !.expires = Down(@, -1),
                        !.spent = IF pod.pc \in {"power", "scan"} /\ @ < ErrorRetry THEN @ + 1 ELSE @]
  /\ since' = IF since < Late THEN since + 1 ELSE since
  /\ UNCHANGED <<sock, volts, checked, owed>>

PowerChanges ==
  /\ volts' \in {"on", "off", "unknown"} \ {volts}
  /\ UNCHANGED <<pod, sock, since, checked, owed>>

PodStep ==
  \/ Select \/ StepIdle \/ StepDrops \/ StepAsks
  \/ PowerOff \/ PowerUnknown \/ StepDiscovers \/ ScanDone

PodNext == PodStep \/ ScanFails \/ Tick \/ PowerOnSent \/ PowerChanges

-----------------------------------------------------------------------------
\* A discovery begins no earlier than the boot delay after the last event that
\* was received, and its step found the window that this event opened still
\* open, whatever retries lie between: none of them makes the window longer.
\* The discovery itself may begin later than that, by as long as the reading
\* of the power takes.
BeginsInWindow == [][StepDiscovers => Delay <= since /\ checked <= Window]_podVars

\* An event the socket took is not forgotten: until a discovery that began
\* after it is done, or the power is found off, or its window is over, it is
\* in the socket or a discovery is scheduled.
EventNotForgotten == owed = "no" \/ sock > 0 \/ pod.due # None

=============================================================================
