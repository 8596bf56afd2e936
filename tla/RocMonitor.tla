------------------------------- MODULE RocMonitor -------------------------------
(***************************************************************************)
(* roc_temperature_monitor.py: a cycle reads the power, the list of panels *)
(* and the temperature of each, and when an alarm stands after a second    *)
(* look at the power, switches the station off and notifies.  The state is *)
(* saved at the end of a cycle and restored by a restart on the same boot. *)
(*                                                                         *)
(* Times are kept as ages, capped where they no longer matter.  A panel's  *)
(* last_good and temperature are only shown, and its powered_since is set  *)
(* whenever its alarms are looked at.                                      *)
(*                                                                         *)
(* The history of what the readings showed and who was told is the world's *)
(* and outlives the process.  What of it happened after the last save is   *)
(* kept apart: a process that dies takes it along, and the next one goes   *)
(* on from streaks that had ended, or tells people again.                  *)
(***************************************************************************)
EXTENDS Station, Naturals, FiniteSets

CONSTANTS
  Panels,         \* the panels a discovery may find
  Users,          \* the recipients of notifications
  Count,          \* consecutive_high_samples
  MinPanels,      \* minimum_temperature_panels
  Missing,        \* missing_seconds
  StreakAge,      \* a restored streak is dropped when the file is older (90 s)
  MaxCycle        \* the longest time from one cycle to the next

ASSUME RocMonitorAssumption ==
  /\ IsFiniteSet(Panels) /\ {"PSU", "none"} \cap Panels = {}
  /\ Count \in Nat \ {0} /\ MinPanels \in Nat \ {0}
  /\ Missing \in Nat \ {0} /\ StreakAge \in Nat /\ MaxCycle \in Nat \ {0}

VARIABLES
  mon,     \* the Monitor object
  step,    \* where the process is in its cycle
  file,    \* the saved state, NoFile if there is none
  seen,    \* history: hot readings in a row, the time without a quorum, and
           \* who was told, by incident
  unsaved, \* history: the alarms' causes that ended, and who was told, since
           \* the file was saved
  lost     \* history: what of that was forgotten in a restart

rocVars == <<mon, step, file, seen, unsaved, lost>>

Older(age, d) == IF age > Missing \/ age + d > Missing THEN Missing + 1 ELSE age + d
Never == Missing + 2
Age == 0..Never
Grown(age, d) == IF age = Never THEN Never ELSE Older(age, d)

Keys == Panels \cup {"PSU"}
NoRun == [p \in Panels |-> 0]
NothingSeen == [run |-> NoRun, blind |-> Never, told |-> {}]
Nothing == [ended |-> {}, told |-> {}]

\* high: high_count; powered, quorum: the ages of powered_since and
\* last_quorum; delivered: who has been told of which alarm.
NewMonitor == [panels |-> {}, high |-> NoRun, powered |-> Never, quorum |-> Never,
               delivered |-> {}]
NoFile == [NewMonitor EXCEPT !.panels = {"none"}]
MonitorType ==
  [panels : SUBSET Panels, high : [Panels -> 0..Count], powered : Age, quorum : Age,
   delivered : SUBSET (Keys \X Users)]

RocTypeOK ==
  /\ mon \in MonitorType
  /\ step \in {"cycle", "read", "recheck", "act", "notify", "save", "lastSave", "ended"}
  /\ file.data \in MonitorType \cup {NoFile} /\ file.age \in 0..(StreakAge + 1)
  /\ seen \in [run : [Panels -> 0..Count], blind : Age, told : SUBSET (Keys \X Users)]
  /\ {unsaved, lost} \subseteq [ended : SUBSET Keys, told : SUBSET (Keys \X Users)]

RocInit ==
  /\ mon = NewMonitor
  /\ step = "cycle"
  /\ file = [data |-> NoFile, age |-> 0]
  /\ seen = NothingSeen /\ unsaved = Nothing /\ lost = Nothing

-----------------------------------------------------------------------------
(* The Monitor object. *)

\* A panel that is no longer listed loses its state and its latches.
set_panels(m, S) ==
  [m EXCEPT !.panels = S,
            !.high = [p \in Panels |-> IF p \in S THEN @[p] ELSE 0],
            !.delivered = {x \in @ : x[1] \in S \cup {"PSU"}}]

\* Power that is seen off clears timers, streaks and latches.
apply_power(m, v) ==
  IF v = "on"
  THEN [m EXCEPT !.powered = IF @ = Never THEN 0 ELSE @]
  ELSE [m EXCEPT !.powered = Never, !.quorum = Never, !.high = NoRun,
                 !.delivered = {x \in @ : x[1] \notin m.panels \cup {"PSU"}}]

More(n) == IF n < Count THEN n + 1 ELSE n

\* Mutant of sample: a failed reading, too, re-arms the notification.
sample_FailedRearms(m, good, hot, bad) ==
  [m EXCEPT !.high = [p \in Panels |-> IF p \in hot THEN More(@[p])
                                       ELSE IF p \in good \cup bad THEN 0 ELSE @[p]],
            !.delivered = {x \in @ : x[1] \notin (good \cup bad) \ hot}]

\* Readings of the panels in good, those in hot above the threshold, and
\* failed ones of the panels in bad.
sample(m, good, hot, bad) ==
  [m EXCEPT !.high = [p \in Panels |-> IF p \in hot THEN More(@[p])
                                       ELSE IF p \in good \cup bad THEN 0 ELSE @[p]],
            !.delivered = {x \in @ : x[1] \notin good \ hot}]

finish_cycle(m, good) ==
  IF Cardinality(good) >= MinPanels
  THEN [m EXCEPT !.quorum = 0, !.delivered = {x \in @ : x[1] # "PSU"}]
  ELSE m

\* The alarms that stand: hot panels, and too few readings for too long.
alarms(m) ==
  LET since == IF m.quorum # Never THEN m.quorum ELSE m.powered
  IN  {p \in m.panels : m.powered # Never /\ m.high[p] >= Count}
      \cup {k \in {"PSU"} : since # Never /\ since > Missing}

-----------------------------------------------------------------------------
(* The cycle. *)

Aged(m, d) == [m EXCEPT !.powered = Grown(@, d), !.quorum = Grown(@, d)]

\* d ticks go by; the file is that much older.
Elapse(d) ==
  LET a == file.age + d
  IN  file' = [data |-> IF file.data = NoFile THEN NoFile ELSE Aged(file.data, d),
               age  |-> IF a > StreakAge THEN StreakAge + 1 ELSE a]

\* What counts towards an alarm in m.
Counting(m) == {p \in Panels : m.high[p] > 0} \cup {k \in {"PSU"} : m.powered # Never}

\* History: s is seen now, and the causes of the alarms in over have ended,
\* though the file still counts some of them.
Observed(s, over) ==
  /\ seen' = s
  /\ unsaved' = [ended |-> unsaved.ended \cup (over \cap Counting(file.data)),
                 told  |-> unsaved.told \cap s.told]
  /\ lost' = [ended |-> lost.ended \ over, told |-> lost.told \cap s.told]

\* The power cannot be verified: no streak survives and nothing is decided.
PowerUnknown ==
  /\ step = "cycle"
  /\ ReadFails
  /\ \E d \in 1..MaxCycle :
       /\ Elapse(d)
       /\ mon' = [Aged(mon, d) EXCEPT !.high = NoRun]
       /\ Observed([seen EXCEPT !.run = NoRun, !.blind = Grown(@, d)], Panels)
  /\ step' = "save"
  /\ UNCHANGED stationVars

\* History: an incident ends when the power is seen off or its panel goes.
SeenPower(blind, listed) ==
  IF power = "off" THEN Observed(NothingSeen, Keys)
  ELSE Observed([run   |-> [p \in Panels |-> IF p \in listed THEN seen.run[p] ELSE 0],
                 blind |-> IF blind = Never THEN 0 ELSE blind,
                 told  |-> {x \in seen.told : x[1] \in listed \cup {"PSU"}}],
                Panels \ listed)

\* The power is read, the panels of the last discovery are listed (if that
\* fails, the old list stays), and the power is applied.
BeginCycle ==
  /\ step = "cycle"
  /\ \E d \in 1..MaxCycle, listed \in SUBSET Panels :
       /\ Elapse(d)
       /\ mon' = apply_power(set_panels(Aged(mon, d), listed), power)
       /\ SeenPower(Grown(seen.blind, d), listed)
  /\ step' = IF power = "on" THEN "read" ELSE "save"
  /\ UNCHANGED stationVars

\* History: a cool reading ends a panel's incident, a quorum that of the PSU;
\* a failed reading ends only a run of hot ones.
SeenReadings(good, hot, bad) ==
  LET quorum == good \cup bad = mon.panels /\ Cardinality(good) >= MinPanels
      counted == IF quorum THEN {"PSU"} ELSE {}
  IN  Observed([run   |-> [p \in Panels |->
                             IF p \in hot THEN More(seen.run[p])
                             ELSE IF p \in good \cup bad THEN 0 ELSE seen.run[p]],
                blind |-> IF quorum THEN 0 ELSE seen.blind,
                told  |-> {x \in seen.told : x[1] \notin (good \ hot) \cup counted}],
               ((good \cup bad) \ hot) \cup counted)

\* The panels are read in turn; those the budget leaves out count as failed.
\* A stop that comes earlier leaves the panels in neither set unread.
ReadPanels(good, hot, bad, stopped) ==
  LET m == sample(mon, good, hot, bad)
      n == IF good \cup bad = mon.panels THEN finish_cycle(m, good) ELSE m
  IN  /\ mon' = n
      /\ SeenReadings(good, hot, bad)
      /\ step' = IF stopped THEN "lastSave"
                 ELSE IF alarms(n) = {} THEN "save" ELSE "recheck"
      /\ UNCHANGED <<file, stationVars>>

ReadAll ==
  /\ step = "read"
  /\ \E good \in SUBSET mon.panels : \E hot \in SUBSET good :
       ReadPanels(good, hot, mon.panels \ good, FALSE)

StopWhileReading ==
  /\ step = "read"
  /\ \E good \in SUBSET mon.panels : \E hot \in SUBSET good :
       \E bad \in SUBSET (mon.panels \ good) : ReadPanels(good, hot, bad, TRUE)

\* The power is read again before anything is done about an alarm.
Recheck ==
  /\ step = "recheck"
  /\ LET m == apply_power(mon, power)
     IN  /\ mon' = m
         /\ step' = IF alarms(m) = {} THEN "save" ELSE "act"
  /\ SeenPower(seen.blind, mon.panels)
  /\ UNCHANGED <<file, stationVars>>

RecheckFails ==
  /\ step = "recheck"
  /\ ReadFails
  /\ step' = "save"
  /\ UNCHANGED <<mon, file, seen, unsaved, lost, stationVars>>

\* power_off and the reading that verifies it; a failure is only reported.
Act ==
  /\ step = "act"
  /\ PowerOffAcked \/ PowerOffFails
  /\ step' = "notify"
  /\ UNCHANGED <<mon, file, seen, unsaved, lost, lvhv>>

\* What is to be sent: the alarms each recipient has not been told of.
Pending == (alarms(mon) \X Users) \ mon.delivered

\* notify: any of the messages may fail.
Notify ==
  /\ step = "notify"
  /\ \E sent \in SUBSET Pending :
       /\ mon' = [mon EXCEPT !.delivered = @ \cup sent]
       /\ seen' = [seen EXCEPT !.told = @ \cup sent]
       /\ unsaved' = [unsaved EXCEPT !.told = @ \cup sent]
       /\ lost' = [lost EXCEPT !.told = @ \ sent]
  /\ step' = "save"
  /\ UNCHANGED <<file, stationVars>>

\* save: the whole file is replaced at once.
Save ==
  /\ step \in {"save", "lastSave"}
  /\ file' = [data |-> mon, age |-> 0]
  /\ unsaved' = Nothing
  /\ step' = IF step = "save" THEN "cycle" ELSE "ended"
  /\ mon' = IF step = "save" THEN mon ELSE NewMonitor
  /\ UNCHANGED <<seen, lost, stationVars>>

\* The process dies anywhere (save itself may raise), and its Monitor with it.
RocEnds ==
  /\ step # "ended"
  /\ step' = "ended" /\ mon' = NewMonitor
  /\ UNCHANGED <<file, seen, unsaved, lost, stationVars>>

\* Mutant of restore: an old streak is taken over.
restore_OldStreak(f) == IF f.data = NoFile THEN NewMonitor ELSE f.data

\* restore: observations and latches; the streaks unless the file is too old.
restore(f) ==
  IF f.data = NoFile THEN NewMonitor
  ELSE IF f.age > StreakAge THEN [f.data EXCEPT !.high = NoRun]
  ELSE f.data

\* History: what happened since the save is forgotten; a streak that is too
\* old is dropped with the run it stood for.
Forget(d) ==
  /\ seen' = [seen EXCEPT !.run = IF file'.age > StreakAge THEN NoRun ELSE @,
                          !.blind = Grown(@, d)]
  /\ lost' = [ended |-> (lost.ended \cup unsaved.ended) \cap Counting(mon'),
              told  |-> (lost.told \cup unsaved.told) \ mon'.delivered]

\* A start on the same boot, or on another one, whose file does not count and
\* with which every incident begins anew.
RocStart ==
  /\ step = "ended"
  /\ \E d \in 1..MaxCycle :
       \/ /\ Elapse(d)
          /\ mon' = restore(file')
          /\ Forget(d)
       \/ /\ file' = [data |-> NoFile, age |-> 0]
          /\ mon' = NewMonitor
          /\ seen' = NothingSeen /\ lost' = Nothing
  /\ step' = "cycle"
  /\ unsaved' = Nothing
  /\ UNCHANGED stationVars

RocStep ==
  \/ PowerUnknown \/ BeginCycle \/ ReadAll \/ Recheck \/ RecheckFails \/ Act
  \/ Notify \/ Save \/ RocStart

RocNext == RocStep \/ StopWhileReading \/ RocEnds

=============================================================================
