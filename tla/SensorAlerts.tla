------------------------------ MODULE SensorAlerts ------------------------------
(***************************************************************************)
(* i2c-sensor-alerts.py: every poll fetches the latest sample of the       *)
(* sensor server, counts the polls in a row that are unsafe or bring       *)
(* nothing new, and switches the fleet off, again at every poll, when a    *)
(* count reaches its trigger.                                              *)
(*                                                                         *)
(* A notification that fails raises an OSError, which main takes for a     *)
(* failed fetch: the conditions behind it are not looked at.  One raised   *)
(* while a failed fetch is handled ends the process.  An exception that is *)
(* none of those main expects ends the poll and is not counted.  The       *)
(* latches of shutdown_condition_active only choose log lines and are left *)
(* out.                                                                    *)
(***************************************************************************)
EXTENDS Station, Naturals, Sequences

CONSTANTS
  Conditions,      \* the order in which a sample's conditions are checked
  Trigger,         \* consecutive_unsafe_samples
  NoDataTrigger    \* missing_samples

ASSUME SensorAlertsAssumption ==
  /\ Conditions \in Seq({Conditions[i] : i \in DOMAIN Conditions})
  /\ Len(Conditions) > 0 /\ Trigger \in Nat \ {0} /\ NoDataTrigger \in Nat \ {0}

VARIABLES
  alerts,  \* the process: pc, the condition it checks, its counts
  codes,   \* the command codes on disk
  polled   \* history: what the polls brought

alertsVars == <<alerts, codes, polled>>

Conds == {Conditions[i] : i \in DOMAIN Conditions}
AlertKeys == Conds \cup {"no_data"}
NoStreak == [c \in Conds |-> 0]

\* next: the condition to check; unsafe: those the sample's values are beyond;
\* cooling: the keys of last_alert_ts that can_alert still holds back.
AlertsStarted == [pc |-> "fetch", next |-> 1, unsafe |-> {}, noData |-> 0,
                  streak |-> NoStreak, cooling |-> {}]
NothingPolled == [unsafe |-> NoStreak, missed |-> 0]
CodesStates == {"ok", "unreadable", "incomplete"}

AlertsTypeOK ==
  /\ alerts \in [pc : {"fetch", "check", "noData", "handler", "sleep", "ended"},
                 next : DOMAIN Conditions, unsafe : SUBSET Conds, noData : 0..NoDataTrigger,
                 streak : [Conds -> 0..Trigger], cooling : SUBSET AlertKeys]
  /\ codes \in CodesStates
  /\ polled \in [unsafe : [Conds -> 0..Trigger], missed : 0..NoDataTrigger]

AlertsInit ==
  /\ alerts = AlertsStarted
  /\ codes \in CodesStates
  /\ polled = NothingPolled

UpTo(n, top) == IF n < top THEN n + 1 ELSE top
NoDataCounted == UpTo(alerts.noData, NoDataTrigger)

-----------------------------------------------------------------------------
\* send_global_poweroff: a host that fails is only logged, and the command
\* codes are read each time.  Then the notification, unless it is cooling.
Alert(key, outcome) ==
  \/ /\ codes = "ok" \/ DryRun
     /\ PowerOffAcked \/ PowerOffFails
     /\ \/ outcome = "done"
        \/ outcome = "OSError" /\ key \notin alerts.cooling /\ ~DryRun
  \/ codes = "unreadable" /\ ~DryRun /\ outcome = "OSError" /\ UNCHANGED power
  \/ codes = "incomplete" /\ ~DryRun /\ outcome = "other" /\ UNCHANGED power

\* fetch_health fails with one of the exceptions that count.
FetchFails ==
  /\ alerts.pc = "fetch"
  /\ alerts' = [alerts EXCEPT !.pc = "handler"]
  /\ polled' = [polled EXCEPT !.missed = UpTo(@, NoDataTrigger)]
  /\ UNCHANGED <<codes, stationVars>>

\* Any other exception (a truncated answer, a bad status line, an answer of the
\* wrong shape): before the sample is looked at, or when its values are.
FetchUnexpected ==
  /\ alerts.pc = "fetch"
  /\ \/ /\ alerts' = [alerts EXCEPT !.pc = "sleep"]
        /\ polled' = [polled EXCEPT !.missed = UpTo(@, NoDataTrigger)]
     \/ /\ alerts' = [alerts EXCEPT !.pc = "sleep", !.noData = 0,
                                    !.cooling = @ \ {"no_data"}]
        /\ polled' = [polled EXCEPT !.missed = 0]
  /\ UNCHANGED <<codes, stationVars>>

\* Status not ok, no sample, or the sample of the last poll again.
FetchStale ==
  /\ alerts.pc = "fetch"
  /\ alerts' = [alerts EXCEPT !.noData = NoDataCounted,
                              !.pc = IF alerts.noData + 1 >= NoDataTrigger
                                     THEN "noData" ELSE "sleep"]
  /\ polled' = [polled EXCEPT !.missed = UpTo(@, NoDataTrigger)]
  /\ UNCHANGED <<codes, stationVars>>

\* A sample with a new timestamp; to a process that has just started, any.
FetchFresh ==
  /\ alerts.pc = "fetch"
  /\ \E u \in SUBSET Conds :
       alerts' = [alerts EXCEPT !.pc = "check", !.next = 1, !.unsafe = u,
                                !.noData = 0, !.cooling = @ \ {"no_data"}]
  /\ polled' = [polled EXCEPT !.missed = 0]
  /\ UNCHANGED <<codes, stationVars>>

\* A fresh sample's next condition has been dealt with.
Checked(streak, cooling) ==
  [alerts EXCEPT !.streak = streak, !.cooling = cooling,
                 !.pc = IF alerts.next = Len(Conditions) THEN "sleep" ELSE @,
                 !.unsafe = IF alerts.next = Len(Conditions) THEN {} ELSE @,
                 !.next = IF @ = Len(Conditions) THEN 1 ELSE @ + 1]

\* reset_condition: a safe value, or none.
CheckSafe ==
  LET c == Conditions[alerts.next]
  IN  /\ alerts.pc = "check"
      /\ c \notin alerts.unsafe
      /\ alerts' = Checked([alerts.streak EXCEPT ![c] = 0], alerts.cooling)
      /\ polled' = [polled EXCEPT !.unsafe[c] = 0]
      /\ UNCHANGED <<codes, stationVars>>

condition_ready(c) == alerts.streak[c] + 1 >= Trigger

CheckUnsafe ==
  LET c == Conditions[alerts.next]
      s == [alerts.streak EXCEPT ![c] = UpTo(@, Trigger)]
  IN  /\ alerts.pc = "check"
      /\ c \in alerts.unsafe
      /\ polled' = [polled EXCEPT !.unsafe[c] = UpTo(@, Trigger)]
      /\ \/ /\ ~condition_ready(c)
            /\ alerts' = Checked(s, alerts.cooling)
            /\ UNCHANGED power
         \/ /\ condition_ready(c)
            /\ Alert(c, "done")
            /\ alerts' = Checked(s, alerts.cooling \cup {c})
         \/ /\ condition_ready(c)
            /\ Alert(c, "OSError")
            /\ alerts' = [alerts EXCEPT !.streak = s, !.next = 1, !.unsafe = {},
                                        !.pc = "handler"]
         \/ /\ condition_ready(c)
            /\ Alert(c, "other")
            /\ alerts' = [alerts EXCEPT !.streak = s, !.next = 1, !.unsafe = {},
                                        !.pc = "sleep"]
      /\ UNCHANGED <<codes, lvhv>>

NoDataAlerted ==
  [alerts EXCEPT !.pc = "sleep", !.noData = NoDataTrigger, !.cooling = @ \cup {"no_data"}]

\* alert_no_data_if_needed in the body of the loop: its OSError is handled
\* as a failed fetch, anything else ends the poll.
AlertNoData ==
  /\ alerts.pc = "noData"
  /\ \/ Alert("no_data", "done") /\ alerts' = NoDataAlerted
     \/ Alert("no_data", "OSError") /\ alerts' = [alerts EXCEPT !.pc = "handler"]
     \/ Alert("no_data", "other") /\ alerts' = [alerts EXCEPT !.pc = "sleep"]
  /\ UNCHANGED <<codes, polled, lvhv>>

\* Mutant of Handler: a failed fetch is only logged.
Handler_OnlyLogs ==
  /\ alerts.pc = "handler"
  /\ alerts' = [alerts EXCEPT !.pc = "sleep", !.noData = NoDataCounted]
  /\ UNCHANGED <<codes, polled, stationVars>>

\* The except clause: what it raises itself ends the process.
Handler ==
  /\ alerts.pc = "handler"
  /\ \/ /\ alerts.noData + 1 < NoDataTrigger
        /\ alerts' = [alerts EXCEPT !.pc = "sleep", !.noData = NoDataCounted]
        /\ UNCHANGED power
     \/ /\ alerts.noData + 1 >= NoDataTrigger
        /\ Alert("no_data", "done")
        /\ alerts' = NoDataAlerted
     \/ /\ alerts.noData + 1 >= NoDataTrigger
        /\ Alert("no_data", "OSError") \/ Alert("no_data", "other")
        /\ alerts' = [AlertsStarted EXCEPT !.pc = "ended"]
  /\ UNCHANGED <<codes, polled, lvhv>>

\* can_alert: cooldowns run out while the loop sleeps.
AlertsSleep ==
  /\ alerts.pc = "sleep"
  /\ \E still \in SUBSET alerts.cooling :
       alerts' = [alerts EXCEPT !.pc = "fetch", !.cooling = still]
  /\ UNCHANGED <<codes, polled, stationVars>>

AlertsKilled ==
  /\ alerts.pc # "ended"
  /\ alerts' = [AlertsStarted EXCEPT !.pc = "ended"]
  /\ UNCHANGED <<codes, polled, stationVars>>

AlertsStart ==
  /\ alerts.pc = "ended"
  /\ alerts' = AlertsStarted
  /\ polled' = NothingPolled
  /\ UNCHANGED <<codes, stationVars>>

CodesChange ==
  /\ codes' \in CodesStates \ {codes}
  /\ UNCHANGED <<alerts, polled, stationVars>>

AlertsStep ==
  \/ FetchFails \/ FetchUnexpected \/ FetchStale \/ FetchFresh
  \/ CheckSafe \/ CheckUnsafe
  \/ AlertNoData \/ Handler \/ AlertsSleep \/ AlertsStart

AlertsNext == AlertsStep \/ AlertsKilled \/ CodesChange

=============================================================================
