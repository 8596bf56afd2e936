------------------------------ MODULE NetworkWatch ------------------------------
(***************************************************************************)
(* network-watch.py: every poll probes the endpoints one after the other;  *)
(* when some group has had no reachable endpoint for the grace period the  *)
(* local LV is switched off, again at every poll.  A powerOff that raises  *)
(* ends the process, and systemd starts it afresh.                         *)
(*                                                                         *)
(* The outage timer is kept as the ticks since it was started.             *)
(***************************************************************************)
EXTENDS Station, Naturals, Sequences

CONSTANTS
  Groups,     \* the probe groups, a sequence of sequences of endpoints
  Grace,      \* grace_period_seconds
  MaxPeriod   \* the longest time from one poll to the next

ASSUME NetworkWatchAssumption ==
  /\ Groups \in Seq({Groups[i] : i \in DOMAIN Groups})
  /\ Groups # <<>> /\ \A i \in DOMAIN Groups : Groups[i] # <<>>
  /\ Grace \in Nat \ {0} /\ MaxPeriod \in Nat \ {0}

VARIABLES
  watch,   \* the process: pc, the probe under way, its timer
  net,     \* the endpoints that can be reached
  sinceOk  \* history: ticks since every group answered a poll, or since the start

watchVars == <<watch, net, sinceOk>>

Endpoints == UNION {{Groups[i][j] : j \in DOMAIN Groups[i]} : i \in DOMAIN Groups}
NoOutage == Grace + 1
Limit(n) == IF n > Grace THEN Grace ELSE n

\* group and endpoint: the next probe; failed: a group had no endpoint.
NewPoll == [group |-> 1, endpoint |-> 1, failed |-> FALSE]
Started == [pc |-> "probe", poll |-> NewPoll, outage |-> NoOutage, latched |-> FALSE]

WatchTypeOK ==
  /\ watch.pc \in {"probe", "evaluate", "powerOff", "sleep", "ended"}
  /\ watch.poll.group \in 1..(Len(Groups) + 1)
  /\ watch.poll.endpoint \in Nat /\ watch.poll.failed \in BOOLEAN
  /\ watch.outage \in 0..NoOutage /\ watch.latched \in BOOLEAN
  /\ net \subseteq Endpoints
  /\ sinceOk \in 0..Grace

WatchInit ==
  /\ watch = Started
  /\ net \in SUBSET Endpoints
  /\ sinceOk = 0

\* The poll after one probe: the first endpoint that answers ends its group.
AfterProbe(ok) ==
  LET p == watch.poll
      last == p.endpoint = Len(Groups[p.group])
  IN  IF ok \/ last
      THEN [group |-> p.group + 1, endpoint |-> 1, failed |-> p.failed \/ ~ok]
      ELSE [p EXCEPT !.endpoint = @ + 1]

Probe ==
  /\ watch.pc = "probe"
  /\ LET p == AfterProbe(Groups[watch.poll.group][watch.poll.endpoint] \in net)
     IN  watch' = [watch EXCEPT !.poll = p,
                                !.pc = IF p.group > Len(Groups) THEN "evaluate" ELSE @]
  /\ UNCHANGED <<net, sinceOk, stationVars>>

\* Every group was reached: streak, latch and timer are reset.
Healthy == [watch EXCEPT !.pc = "sleep", !.latched = FALSE, !.outage = NoOutage]

\* The timer runs from the first failed poll.
Degraded ==
  LET elapsed == IF watch.outage = NoOutage THEN 0 ELSE watch.outage
  IN  [watch EXCEPT !.outage = elapsed,
                    !.pc = IF elapsed >= Grace THEN "powerOff" ELSE "sleep"]

Evaluate ==
  /\ watch.pc = "evaluate"
  /\ watch' = IF watch.poll.failed THEN Degraded ELSE Healthy
  /\ sinceOk' = IF watch.poll.failed THEN sinceOk ELSE 0
  /\ UNCHANGED <<net, stationVars>>

WatchPowerOff ==
  /\ watch.pc = "powerOff"
  /\ PowerOffAcked
  /\ watch' = [watch EXCEPT !.pc = "sleep", !.latched = TRUE]
  /\ UNCHANGED <<net, sinceOk, lvhv>>

\* The exception leaves main.
WatchPowerOffRaises ==
  /\ watch.pc = "powerOff"
  /\ PowerOffFails
  /\ watch' = [Started EXCEPT !.pc = "ended"]
  /\ UNCHANGED <<net, sinceOk, lvhv>>

\* poll_seconds, and what the probes themselves took.
Sleep ==
  /\ watch.pc = "sleep"
  /\ \E d \in 1..MaxPeriod :
       /\ watch' = [watch EXCEPT !.pc = "probe", !.poll = NewPoll,
                                 !.outage = IF @ = NoOutage THEN @ ELSE Limit(@ + d)]
       /\ sinceOk' = Limit(sinceOk + d)
  /\ UNCHANGED <<net, stationVars>>

\* The process is ended from outside at any point.
WatchKilled ==
  /\ watch.pc # "ended"
  /\ watch' = [Started EXCEPT !.pc = "ended"]
  /\ UNCHANGED <<net, sinceOk, stationVars>>

WatchStart ==
  /\ watch.pc = "ended"
  /\ watch' = Started
  /\ sinceOk' = 0
  /\ UNCHANGED <<net, stationVars>>

\* An endpoint becomes reachable or is lost.
NetChanges ==
  /\ \E e \in Endpoints : net' = IF e \in net THEN net \ {e} ELSE net \cup {e}
  /\ UNCHANGED <<watch, sinceOk, stationVars>>

WatchStep == Probe \/ Evaluate \/ WatchPowerOff \/ Sleep \/ WatchStart

WatchNext == WatchStep \/ WatchPowerOffRaises \/ WatchKilled \/ NetChanges

-----------------------------------------------------------------------------
\* Group i has no endpoint that can be reached.
Isolated(i) == \A j \in DOMAIN Groups[i] : Groups[i][j] \notin net

=============================================================================
