--------------------------- MODULE ProtectionProofs ---------------------------
(***************************************************************************)
(* Protection: no monitor switches a station off without cause, and nobody *)
(* is told twice of one incident, for any grace period, counts, panels,    *)
(* conditions and lines.                                                   *)
(*                                                                         *)
(* The monitors share only the power, which no invariant mentions: what a  *)
(* monitor knows is related to the history of what it was shown, and the   *)
(* operator may do as he likes.  So the proofs go monitor by monitor.      *)
(***************************************************************************)
EXTENDS Protection, TLAPS

\* network-watch: the outage timer never runs ahead of the time since every
\* group was reached.
WatchInv ==
  /\ WatchTypeOK
  /\ watch \in [pc : {"probe", "evaluate", "powerOff", "sleep", "ended"},
                poll : [group : 1..(Len(Groups) + 1), endpoint : Nat, failed : BOOLEAN],
                outage : 0..NoOutage, latched : BOOLEAN]
  /\ watch.pc = "probe" => watch.poll.group <= Len(Groups)
  /\ watch.outage # NoOutage => watch.outage <= sinceOk
  /\ watch.pc = "powerOff" => watch.outage = Grace

\* What the process m of a temperature monitor counts, or its file does, is no
\* more than what was seen, s, but for the alarms whose cause has ended
\* unnoticed, x.
Streaks(m, s, x) ==
  \A p \in Panels : /\ m.high[p] <= s.run[p] \/ p \in x.ended
                    /\ p \notin m.panels => m.high[p] = 0

Since(m) == IF m.quorum # Never THEN m.quorum ELSE m.powered

Clocks(m, s, x) ==
  /\ m.powered = Never => m.quorum = Never
  /\ \/ "PSU" \in x.ended \/ Since(m) = Never
     \/ s.blind # Never /\ Since(m) <= s.blind

\* It remembers everybody who was told, but for those in x.
Remembers(m, s, x) == s.told \ x.told \subseteq m.delivered

ProcessInv(m, s, x) ==
  m \in MonitorType /\ Streaks(m, s, x) /\ Clocks(m, s, x) /\ Remembers(m, s, x)

FileType == [data : MonitorType \cup {NoFile}, age : 0..(StreakAge + 1)]

\* The streaks in the file are sound as long as they would be restored.
FileInv(f, s, x) ==
  /\ f \in FileType /\ Clocks(f.data, s, x) /\ Remembers(f.data, s, x)
  /\ f.age <= StreakAge => Streaks(f.data, s, x)

Both(u, l) == [ended |-> u.ended \cup l.ended, told |-> u.told \cup l.told]

\* roc-temperature-monitor: the process that runs knows all but what was lost,
\* and the file all but that and what is not saved.
RocInv ==
  /\ RocTypeOK
  /\ step # "ended" => ProcessInv(mon, seen, lost)
  /\ FileInv(file, seen, Both(unsaved, lost))
  /\ step = "read" => mon.powered # Never
  /\ step = "act" => alarms(mon) # {}

\* i2c-sensor-alerts: the counts of the process never run ahead of what the
\* polls brought, but for the poll whose notification failed.
AlertsInv ==
  /\ AlertsTypeOK
  /\ \A c \in Conds : alerts.streak[c] <= polled.unsafe[c]
  /\ alerts.noData <= polled.missed + 1
  /\ alerts.pc = "check" => alerts.noData = 0
  /\ alerts.pc = "noData" => polled.missed + 1 >= NoDataTrigger
  /\ alerts.pc = "handler" => \/ alerts.noData <= polled.missed
                              \/ polled.missed + 1 >= NoDataTrigger

\* pi-health: an edge that waits, on a line that is now in its worse state, is
\* of a line that has got worse; so is the pulse that is measured.
HealthInv ==
  /\ HealthTypeOK
  /\ \A i \in DOMAIN edges :
       wires[edges[i]] # (edges[i] \in AcLines) => edges[i] \in past.bad
  /\ health.pc = "ended" => edges = <<>>
  /\ health.pc = "powerOff6" => "gpio6" \in past.bad
  /\ health.pc = "powerOff21" => "gpio21" \in past.bad
  /\ health.pulse # NoPulse \/ health.action # "none" => "x728" \in past.bad
  /\ \A w \in Pulsers :
       /\ soft.at[w] \in {"pulse", "restore"} => soft.holder = {w}
       /\ soft.at[w] = "pulse" => soft.high

ProtectionInv ==
  focus \in Parts /\ StationTypeOK /\ WatchInv /\ RocInv /\ AlertsInv /\ HealthInv

-----------------------------------------------------------------------------
(* network-watch *)

PollType == [group : 1..(Len(Groups) + 1), endpoint : Nat, failed : BOOLEAN]
WatchType == [pc : {"probe", "evaluate", "powerOff", "sleep", "ended"},
              poll : PollType, outage : 0..NoOutage, latched : BOOLEAN]

LEMMA WatchFacts ==
  /\ Len(Groups) \in Nat /\ Len(Groups) > 0
  /\ Grace \in Nat /\ Grace > 0 /\ NoOutage = Grace + 1
  /\ NewPoll \in PollType /\ NewPoll.group = 1
  /\ Started \in WatchType /\ Started.pc = "probe" /\ Started.outage = NoOutage
  /\ Started.poll = NewPoll
  <1>1. Len(Groups) \in Nat /\ Len(Groups) > 0
    BY NetworkWatchAssumption
  <1>2. Grace \in Nat /\ Grace > 0 /\ NoOutage = Grace + 1
    BY NetworkWatchAssumption DEF NoOutage
  <1>3. 1 \in 1..(Len(Groups) + 1) /\ NoOutage \in 0..NoOutage
    BY <1>1, <1>2
  <1>4. NewPoll \in PollType /\ NewPoll.group = 1
    BY <1>3 DEF NewPoll, PollType
  <1>5. /\ Started \in WatchType /\ Started.pc = "probe" /\ Started.outage = NoOutage
        /\ Started.poll = NewPoll
    BY <1>3, <1>4 DEF Started, WatchType
  <1> QED
    BY <1>1, <1>2, <1>4, <1>5

\* The invariant of the next state from its parts.
LEMMA WatchKept ==
  ASSUME watch' \in WatchType, net' \subseteq Endpoints, sinceOk' \in 0..Grace,
         watch'.pc = "probe" => watch'.poll.group <= Len(Groups),
         watch'.outage # NoOutage => watch'.outage <= sinceOk',
         watch'.pc = "powerOff" => watch'.outage = Grace
  PROVE  WatchInv'
  BY DEF WatchInv, WatchTypeOK, WatchType, PollType

LEMMA WatchFields ==
  ASSUME WatchInv
  PROVE  /\ watch \in WatchType /\ watch.poll \in PollType
         /\ watch.outage \in Nat /\ watch.outage <= NoOutage
         /\ net \subseteq Endpoints /\ sinceOk \in Nat /\ sinceOk <= Grace
  BY WatchFacts DEF WatchInv, WatchTypeOK, WatchType, PollType

LEMMA ProbeWatch ==
  ASSUME WatchInv, Probe
  PROVE  WatchInv'
  <1> DEFINE g == watch.poll.group
             ok == Groups[g][watch.poll.endpoint] \in net
             p == AfterProbe(ok)
             pc == IF p.group > Len(Groups) THEN "evaluate" ELSE watch.pc
  <1>1. /\ watch.pc = "probe" /\ watch' = [watch EXCEPT !.poll = p, !.pc = pc]
        /\ net' = net /\ sinceOk' = sinceOk
    BY DEF Probe
  <1>2. g \in Nat /\ 1 <= g /\ g <= Len(Groups)
    BY <1>1, WatchFields, WatchFacts DEF WatchInv, PollType
  <1>3. p \in PollType
    <2>1. g + 1 \in 1..(Len(Groups) + 1)
      BY <1>2, WatchFacts
    <2>2. CASE ok \/ watch.poll.endpoint = Len(Groups[g])
      <3>1. p = [group |-> g + 1, endpoint |-> 1, failed |-> watch.poll.failed \/ ~ok]
        BY <2>2 DEF AfterProbe
      <3>2. (watch.poll.failed \/ ~ok) \in BOOLEAN
        OBVIOUS
      <3> HIDE DEF ok, p, g
      <3> QED
        BY <2>1, <3>1, <3>2 DEF PollType
    <2>3. CASE ~(ok \/ watch.poll.endpoint = Len(Groups[g]))
      <3>1. p = [watch.poll EXCEPT !.endpoint = @ + 1]
        BY <2>3 DEF AfterProbe
      <3> HIDE DEF p
      <3> QED
        BY <3>1, WatchFields DEF PollType
    <2> QED
      BY <2>2, <2>3
  <1> HIDE DEF p, ok, g
  <1>4. p.group \in Nat
    BY <1>3, WatchFacts DEF PollType
  <1>5. pc \in {"probe", "evaluate"} /\ (pc = "probe" => p.group <= Len(Groups))
    BY <1>1, <1>4, WatchFacts
  <1> HIDE DEF pc
  <1>6. watch' \in WatchType /\ watch'.pc = pc /\ watch'.poll = p /\ watch'.outage = watch.outage
    BY <1>1, <1>3, <1>5, WatchFields DEF WatchType
  <1>7. net' \subseteq Endpoints /\ sinceOk' \in 0..Grace
    BY <1>1 DEF WatchInv, WatchTypeOK
  <1>8. watch'.outage # NoOutage => watch'.outage <= sinceOk'
    BY <1>1, <1>6 DEF WatchInv
  <1> QED
    BY <1>5, <1>6, <1>7, <1>8, WatchKept

LEMMA EvaluateWatch ==
  ASSUME WatchInv, Evaluate
  PROVE  WatchInv'
  <1>1. watch.pc = "evaluate" /\ net' = net
    BY DEF Evaluate
  <1>2. CASE watch.poll.failed
    <2> DEFINE elapsed == IF watch.outage = NoOutage THEN 0 ELSE watch.outage
               pc == IF elapsed >= Grace THEN "powerOff" ELSE "sleep"
    <2>1. watch' = [watch EXCEPT !.outage = elapsed, !.pc = pc] /\ sinceOk' = sinceOk
      BY <1>2 DEF Evaluate, Degraded
    <2>2. elapsed \in 0..NoOutage /\ elapsed <= sinceOk /\ (elapsed >= Grace => elapsed = Grace)
      BY WatchFields, WatchFacts DEF WatchInv
    <2>3. pc \in {"powerOff", "sleep"} /\ (pc = "powerOff" => elapsed = Grace)
      BY <2>2
    <2> HIDE DEF elapsed, pc
    <2>4. watch' \in WatchType /\ watch'.pc = pc /\ watch'.outage = elapsed
      BY <2>1, <2>2, <2>3, WatchFields DEF WatchType
    <2>5. sinceOk' \in 0..Grace /\ net' \subseteq Endpoints
      BY <1>1, <2>1 DEF WatchInv, WatchTypeOK
    <2> QED
      BY <2>1, <2>2, <2>3, <2>4, <2>5, WatchKept
  <1>3. CASE ~watch.poll.failed
    <2>1. watch' = [watch EXCEPT !.pc = "sleep", !.latched = FALSE, !.outage = NoOutage]
          /\ sinceOk' = 0
      BY <1>3 DEF Evaluate, Healthy
    <2>2. NoOutage \in 0..NoOutage /\ 0 \in 0..Grace
      BY WatchFacts
    <2>3. watch' \in WatchType /\ watch'.pc = "sleep" /\ watch'.outage = NoOutage
      BY <2>1, <2>2, WatchFields DEF WatchType
    <2>4. net' \subseteq Endpoints
      BY <1>1 DEF WatchInv, WatchTypeOK
    <2> QED
      BY <2>1, <2>2, <2>3, <2>4, WatchKept
  <1> QED
    BY <1>2, <1>3

LEMMA SleepWatch ==
  ASSUME WatchInv, Sleep
  PROVE  WatchInv'
  <1>1. PICK d \in 1..MaxPeriod :
          /\ watch' = [watch EXCEPT !.pc = "probe", !.poll = NewPoll,
                         !.outage = IF @ = NoOutage THEN @ ELSE Limit(@ + d)]
          /\ sinceOk' = Limit(sinceOk + d)
    BY DEF Sleep
  <1> DEFINE o == IF watch.outage = NoOutage THEN watch.outage ELSE Limit(watch.outage + d)
  <1>2. d \in Nat
    BY NetworkWatchAssumption
  <1>3. o \in 0..NoOutage /\ (o # NoOutage => o <= Limit(sinceOk + d))
    <2>1. watch.outage # NoOutage => watch.outage <= sinceOk
      BY DEF WatchInv
    <2> QED
      BY <1>2, <2>1, WatchFields, WatchFacts DEF Limit
  <1>4. sinceOk' \in 0..Grace
    BY <1>1, <1>2, WatchFields, WatchFacts DEF Limit
  <1> HIDE DEF o
  <1>5. watch' = [watch EXCEPT !.pc = "probe", !.poll = NewPoll, !.outage = o]
    BY <1>1 DEF o
  <1>6. watch' \in WatchType /\ watch'.pc = "probe" /\ watch'.outage = o /\ watch'.poll = NewPoll
    BY <1>3, <1>5, WatchFields, WatchFacts DEF WatchType
  <1>7. net' \subseteq Endpoints
    BY DEF Sleep, WatchInv, WatchTypeOK
  <1>8. watch'.poll.group <= Len(Groups)
    BY <1>6, WatchFacts
  <1> QED
    BY <1>1, <1>3, <1>4, <1>6, <1>7, <1>8, WatchKept

LEMMA OtherWatch ==
  ASSUME WatchInv,
         WatchPowerOff \/ WatchPowerOffRaises \/ WatchKilled \/ WatchStart \/ NetChanges
           \/ UNCHANGED watchVars
  PROVE  WatchInv'
  <1>1. CASE WatchPowerOff
    <2>1. watch' = [watch EXCEPT !.pc = "sleep", !.latched = TRUE] /\ net' = net
          /\ sinceOk' = sinceOk
      BY <1>1 DEF WatchPowerOff
    <2>2. watch' \in WatchType /\ watch'.pc = "sleep" /\ watch'.outage = watch.outage
      BY <2>1, WatchFields DEF WatchType
    <2>3. net' \subseteq Endpoints /\ sinceOk' \in 0..Grace
          /\ (watch.outage # NoOutage => watch.outage <= sinceOk)
      BY <2>1 DEF WatchInv, WatchTypeOK
    <2> QED
      BY <2>1, <2>2, <2>3, WatchKept
  <1>2. CASE WatchPowerOffRaises \/ WatchKilled
    <2>1. watch' = [Started EXCEPT !.pc = "ended"] /\ net' = net /\ sinceOk' = sinceOk
      BY <1>2 DEF WatchPowerOffRaises, WatchKilled
    <2>2. watch' \in WatchType /\ watch'.pc = "ended" /\ watch'.outage = NoOutage
      BY <2>1, WatchFacts DEF WatchType
    <2>3. net' \subseteq Endpoints /\ sinceOk' \in 0..Grace
      BY <2>1 DEF WatchInv, WatchTypeOK
    <2> QED
      BY <2>2, <2>3, WatchKept
  <1>3. CASE WatchStart
    <2>1. watch' = Started /\ net' = net /\ sinceOk' = 0
      BY <1>3 DEF WatchStart
    <2>2. net' \subseteq Endpoints /\ sinceOk' \in 0..Grace
      BY <2>1, WatchFacts DEF WatchInv, WatchTypeOK
    <2>3. Started.poll.group <= Len(Groups)
      BY WatchFacts
    <2> QED
      BY <2>1, <2>2, <2>3, WatchFacts, WatchKept
  <1>4. CASE NetChanges
    <2>1. watch' = watch /\ sinceOk' = sinceOk /\ net' \subseteq Endpoints
      BY <1>4, WatchFields DEF NetChanges
    <2> QED
      BY <2>1 DEF WatchInv, WatchTypeOK
  <1>5. CASE UNCHANGED watchVars
    BY <1>5 DEF watchVars, WatchInv, WatchTypeOK
  <1> QED
    BY <1>1, <1>2, <1>3, <1>4, <1>5

LEMMA WatchKeeps ==
  ASSUME WatchInv, WatchNext \/ UNCHANGED watchVars
  PROVE  WatchInv'
  BY ProbeWatch, EvaluateWatch, SleepWatch, OtherWatch DEF WatchNext, WatchStep

LEMMA WatchInitHolds == ASSUME WatchInit PROVE WatchInv
  <1>1. watch = Started /\ net \subseteq Endpoints /\ sinceOk = 0
    BY DEF WatchInit
  <1>2. watch \in WatchType /\ watch.pc = "probe" /\ watch.outage = NoOutage
        /\ watch.poll.group <= Len(Groups) /\ sinceOk \in 0..Grace
    BY <1>1, WatchFacts
  <1> QED
    BY <1>1, <1>2 DEF WatchInv, WatchTypeOK, WatchType, PollType

-----------------------------------------------------------------------------
(* roc-temperature-monitor: the Monitor object *)

HistoryType == [run : [Panels -> 0..Count], blind : Age, told : SUBSET (Keys \X Users)]
MarksType == [ended : SUBSET Keys, told : SUBSET (Keys \X Users)]

LEMMA RocFacts ==
  /\ Count \in Nat /\ Count > 0 /\ Missing \in Nat /\ Missing > 0
  /\ StreakAge \in Nat /\ Never = Missing + 2 /\ Age = 0..Never
  /\ 0 \in Age /\ Never \in Age /\ 0 # Never
  /\ NoRun \in [Panels -> 0..Count] /\ \A p \in Panels : NoRun[p] = 0
  /\ NothingSeen \in HistoryType /\ NothingSeen.told = {} /\ NothingSeen.run = NoRun
  /\ Nothing \in MarksType /\ Nothing.ended = {} /\ Nothing.told = {}
  /\ "PSU" \notin Panels /\ Keys = Panels \cup {"PSU"}
  <1>1. /\ Count \in Nat /\ Count > 0 /\ Missing \in Nat /\ Missing > 0 /\ StreakAge \in Nat
        /\ Never = Missing + 2 /\ Age = 0..Never
    BY RocMonitorAssumption DEF Never, Age
  <1>2. 0 \in Age /\ Never \in Age /\ 0 # Never /\ 0 \in 0..Count
    BY <1>1
  <1>3. NoRun \in [Panels -> 0..Count] /\ \A p \in Panels : NoRun[p] = 0
    BY <1>2 DEF NoRun
  <1>4. NothingSeen \in HistoryType /\ NothingSeen.told = {} /\ NothingSeen.run = NoRun
    BY <1>2, <1>3 DEF NothingSeen, HistoryType
  <1>5. Nothing \in MarksType /\ Nothing.ended = {} /\ Nothing.told = {}
    BY DEF Nothing, MarksType
  <1>6. "PSU" \notin Panels /\ Keys = Panels \cup {"PSU"}
    BY RocMonitorAssumption DEF Keys
  <1> QED
    BY <1>1, <1>2, <1>3, <1>4, <1>5, <1>6

LEMMA MonitorFields ==
  ASSUME NEW m \in MonitorType
  PROVE  /\ m.panels \in SUBSET Panels /\ m.high \in [Panels -> 0..Count]
         /\ m.powered \in Age /\ m.quorum \in Age /\ m.delivered \in SUBSET (Keys \X Users)
         /\ m # NoFile
  <1>1. /\ m.panels \in SUBSET Panels /\ m.high \in [Panels -> 0..Count]
        /\ m.powered \in Age /\ m.quorum \in Age /\ m.delivered \in SUBSET (Keys \X Users)
    BY DEF MonitorType
  <1>2. NoFile.panels = {"none"}
    BY DEF NoFile, NewMonitor
  <1>3. "none" \notin Panels
    BY RocMonitorAssumption
  <1> QED
    BY <1>1, <1>2, <1>3

LEMMA NewMonitorFacts ==
  /\ NewMonitor \in MonitorType /\ NewMonitor.high = NoRun /\ NewMonitor.quorum = Never
  /\ NewMonitor.powered = Never /\ NewMonitor.delivered = {}
  BY RocFacts DEF NewMonitor, MonitorType

LEMMA NoFileFacts ==
  /\ NoFile.high = NoRun /\ NoFile.quorum = Never /\ NoFile.powered = Never
  /\ NoFile.delivered = {}
  BY DEF NoFile, NewMonitor

\* Ages grow together: an age that was not the larger of two stays so.
LEMMA GrownFacts ==
  ASSUME NEW a \in Age, NEW d \in Nat
  PROVE  /\ Grown(a, d) \in Age /\ (Grown(a, d) = Never <=> a = Never)
         /\ \A b \in Age : a # Never /\ b # Never /\ a <= b => Grown(a, d) <= Grown(b, d)
  <1>1. a \in Nat /\ a <= Missing + 2
    BY RocFacts
  <1>2. Grown(a, d) \in Age /\ (Grown(a, d) = Never <=> a = Never)
    BY <1>1, RocFacts DEF Grown, Older
  <1>3. ASSUME NEW b \in Age, a # Never, b # Never, a <= b
        PROVE  Grown(a, d) <= Grown(b, d)
    <2>1. b \in Nat /\ b <= Missing + 2
      BY RocFacts
    <2> QED
      BY <1>1, <1>3, <2>1, RocFacts DEF Grown, Older
  <1> QED
    BY <1>2, <1>3

LEMMA AgedFacts ==
  ASSUME NEW m \in MonitorType, NEW d \in Nat
  PROVE  /\ Aged(m, d) \in MonitorType
         /\ Aged(m, d).panels = m.panels /\ Aged(m, d).high = m.high
         /\ Aged(m, d).delivered = m.delivered
         /\ Aged(m, d).powered = Grown(m.powered, d) /\ Aged(m, d).quorum = Grown(m.quorum, d)
         /\ Since(m) \in Age /\ Since(Aged(m, d)) = Grown(Since(m), d)
  <1> DEFINE a == Aged(m, d)
  <1>1. Grown(m.powered, d) \in Age /\ Grown(m.quorum, d) \in Age
    BY MonitorFields, GrownFacts
  <1>2. /\ a \in MonitorType /\ a.panels = m.panels /\ a.high = m.high
        /\ a.delivered = m.delivered
        /\ a.powered = Grown(m.powered, d) /\ a.quorum = Grown(m.quorum, d)
    BY <1>1 DEF Aged, MonitorType
  <1> HIDE DEF a
  <1>3. m.quorum \in Age /\ m.powered \in Age
    BY MonitorFields
  <1>4. Grown(m.quorum, d) = Never <=> m.quorum = Never
    BY <1>3, GrownFacts
  <1>5. Since(m) \in Age /\ Since(a) = Grown(Since(m), d)
    BY <1>2, <1>3, <1>4 DEF Since
  <1> QED
    BY <1>2, <1>5 DEF a

LEMMA SetPanelsFacts ==
  ASSUME NEW m \in MonitorType, NEW S \in SUBSET Panels
  PROVE  /\ set_panels(m, S) \in MonitorType
         /\ set_panels(m, S).panels = S
         /\ set_panels(m, S).high = [p \in Panels |-> IF p \in S THEN m.high[p] ELSE 0]
         /\ set_panels(m, S).delivered = {x \in m.delivered : x[1] \in S \cup {"PSU"}}
         /\ set_panels(m, S).powered = m.powered /\ set_panels(m, S).quorum = m.quorum
  <1> DEFINE high == [p \in Panels |-> IF p \in S THEN m.high[p] ELSE 0]
             delivered == {x \in m.delivered : x[1] \in S \cup {"PSU"}}
  <1>1. high \in [Panels -> 0..Count]
    BY MonitorFields, RocFacts
  <1>2. delivered \in SUBSET (Keys \X Users)
    BY MonitorFields
  <1>3. set_panels(m, S) = [m EXCEPT !.panels = S, !.high = high, !.delivered = delivered]
    BY DEF set_panels
  <1> HIDE DEF high, delivered
  <1>4. /\ set_panels(m, S) \in MonitorType /\ set_panels(m, S).panels = S
        /\ set_panels(m, S).high = high /\ set_panels(m, S).delivered = delivered
        /\ set_panels(m, S).powered = m.powered /\ set_panels(m, S).quorum = m.quorum
    BY <1>1, <1>2, <1>3 DEF MonitorType
  <1> QED
    BY <1>4 DEF high, delivered

LEMMA ApplyPowerFacts ==
  ASSUME NEW m \in MonitorType, NEW v \in {"on", "off"}
  PROVE  /\ apply_power(m, v) \in MonitorType
         /\ apply_power(m, v).panels = m.panels
         /\ v = "on" => /\ apply_power(m, v).high = m.high
                        /\ apply_power(m, v).delivered = m.delivered
                        /\ apply_power(m, v).quorum = m.quorum
                        /\ apply_power(m, v).powered = IF m.powered = Never THEN 0 ELSE m.powered
                        /\ apply_power(m, v).powered # Never
         /\ v = "off" => /\ apply_power(m, v).high = NoRun /\ apply_power(m, v).quorum = Never
                         /\ apply_power(m, v).powered = Never
  <1>1. CASE v = "on"
    <2> DEFINE powered == IF m.powered = Never THEN 0 ELSE m.powered
    <2>1. apply_power(m, v) = [m EXCEPT !.powered = powered]
      BY <1>1 DEF apply_power
    <2>2. powered \in Age /\ powered # Never
      BY MonitorFields, RocFacts
    <2> HIDE DEF powered
    <2>3. /\ apply_power(m, v) \in MonitorType /\ apply_power(m, v).powered = powered
          /\ apply_power(m, v).panels = m.panels /\ apply_power(m, v).high = m.high
          /\ apply_power(m, v).delivered = m.delivered /\ apply_power(m, v).quorum = m.quorum
      BY <2>1, <2>2 DEF MonitorType
    <2> QED
      BY <1>1, <2>2, <2>3 DEF powered
  <1>2. CASE v = "off"
    <2> DEFINE delivered == {x \in m.delivered : x[1] \notin m.panels \cup {"PSU"}}
    <2>1. apply_power(m, v) = [m EXCEPT !.powered = Never, !.quorum = Never, !.high = NoRun,
                                        !.delivered = delivered]
      BY <1>2 DEF apply_power
    <2>2. delivered \in SUBSET (Keys \X Users)
      BY MonitorFields
    <2> HIDE DEF delivered
    <2>3. /\ apply_power(m, v) \in MonitorType /\ apply_power(m, v).panels = m.panels
          /\ apply_power(m, v).high = NoRun /\ apply_power(m, v).quorum = Never
          /\ apply_power(m, v).powered = Never
      BY <2>1, <2>2, RocFacts DEF MonitorType
    <2> QED
      BY <1>2, <2>3
  <1> QED
    BY <1>1, <1>2

Sampled(r, good, hot, bad) ==
  [p \in Panels |-> IF p \in hot THEN More(r[p]) ELSE IF p \in good \cup bad THEN 0 ELSE r[p]]

\* Counting a reading keeps the streak and the history in step.
LEMMA SampledFacts ==
  ASSUME NEW r \in [Panels -> 0..Count], NEW good, NEW hot, NEW bad
  PROVE  /\ Sampled(r, good, hot, bad) \in [Panels -> 0..Count]
         /\ \A p \in Panels : p \notin hot /\ r[p] = 0 => Sampled(r, good, hot, bad)[p] = 0
         /\ \A s \in [Panels -> 0..Count] : \A p \in Panels :
              r[p] <= s[p] => Sampled(r, good, hot, bad)[p] <= Sampled(s, good, hot, bad)[p]
  <1>1. \A n \in 0..Count : More(n) \in 0..Count
    BY RocFacts DEF More
  <1>2. \A n, k \in 0..Count : n <= k => More(n) <= More(k)
    BY RocFacts DEF More
  <1>3. 0 \in 0..Count /\ 0 <= 0
    BY RocFacts
  <1>4. Sampled(r, good, hot, bad) \in [Panels -> 0..Count]
    BY <1>1, <1>3 DEF Sampled
  <1>5. \A p \in Panels : p \notin hot /\ r[p] = 0 => Sampled(r, good, hot, bad)[p] = 0
    BY DEF Sampled
  <1>6. ASSUME NEW s \in [Panels -> 0..Count], NEW p \in Panels, r[p] <= s[p]
        PROVE  Sampled(r, good, hot, bad)[p] <= Sampled(s, good, hot, bad)[p]
    <2>1. r[p] \in 0..Count /\ s[p] \in 0..Count
      OBVIOUS
    <2>2. CASE p \in hot
      BY <1>2, <1>6, <2>1, <2>2 DEF Sampled
    <2>3. CASE p \notin hot
      BY <1>3, <1>6, <2>3 DEF Sampled
    <2> QED
      BY <2>2, <2>3
  <1> QED
    BY <1>4, <1>5, <1>6

LEMMA SampleFacts ==
  ASSUME NEW m \in MonitorType, NEW good, NEW hot, NEW bad
  PROVE  /\ sample(m, good, hot, bad) \in MonitorType
         /\ sample(m, good, hot, bad).panels = m.panels
         /\ sample(m, good, hot, bad).high = Sampled(m.high, good, hot, bad)
         /\ sample(m, good, hot, bad).delivered = {x \in m.delivered : x[1] \notin good \ hot}
         /\ sample(m, good, hot, bad).powered = m.powered
         /\ sample(m, good, hot, bad).quorum = m.quorum
  <1> DEFINE high == Sampled(m.high, good, hot, bad)
             delivered == {x \in m.delivered : x[1] \notin good \ hot}
             s == sample(m, good, hot, bad)
  <1>1. high \in [Panels -> 0..Count]
    BY MonitorFields, SampledFacts
  <1>2. delivered \in SUBSET (Keys \X Users)
    BY MonitorFields
  <1>3. s = [m EXCEPT !.high = high, !.delivered = delivered]
    BY DEF sample, Sampled
  <1> HIDE DEF high, delivered, s
  <1>4. /\ s \in MonitorType /\ s.panels = m.panels /\ s.high = high /\ s.delivered = delivered
        /\ s.powered = m.powered /\ s.quorum = m.quorum
    BY <1>1, <1>2, <1>3 DEF MonitorType
  <1> QED
    BY <1>4 DEF high, delivered, s

LEMMA FinishFacts ==
  ASSUME NEW m \in MonitorType, NEW good
  PROVE  /\ finish_cycle(m, good) \in MonitorType
         /\ finish_cycle(m, good).panels = m.panels /\ finish_cycle(m, good).high = m.high
         /\ finish_cycle(m, good).powered = m.powered
         /\ finish_cycle(m, good).quorum =
              IF Cardinality(good) >= MinPanels THEN 0 ELSE m.quorum
         /\ finish_cycle(m, good).delivered =
              IF Cardinality(good) >= MinPanels THEN {x \in m.delivered : x[1] # "PSU"}
                                                ELSE m.delivered
  <1> DEFINE delivered == {x \in m.delivered : x[1] # "PSU"}
  <1>1. delivered \in SUBSET (Keys \X Users)
    BY MonitorFields
  <1>2. CASE Cardinality(good) >= MinPanels
    <2>1. finish_cycle(m, good) = [m EXCEPT !.quorum = 0, !.delivered = delivered]
      BY <1>2 DEF finish_cycle
    <2> HIDE DEF delivered
    <2>2. /\ finish_cycle(m, good) \in MonitorType
          /\ finish_cycle(m, good).panels = m.panels /\ finish_cycle(m, good).high = m.high
          /\ finish_cycle(m, good).powered = m.powered /\ finish_cycle(m, good).quorum = 0
          /\ finish_cycle(m, good).delivered = delivered
      BY <1>1, <2>1, RocFacts DEF MonitorType
    <2> QED
      BY <1>2, <2>2 DEF delivered
  <1>3. CASE ~(Cardinality(good) >= MinPanels)
    BY <1>3 DEF finish_cycle
  <1> QED
    BY <1>2, <1>3

-----------------------------------------------------------------------------
(* roc-temperature-monitor: the cycle *)

RocSteps == {"cycle", "read", "recheck", "act", "notify", "save", "lastSave", "ended"}

LEMMA RocParts ==
  ASSUME RocInv
  PROVE  /\ step # "ended" => ProcessInv(mon, seen, lost)
         /\ FileInv(file, seen, Both(unsaved, lost)) /\ step \in RocSteps
         /\ step = "read" => mon.powered # Never
         /\ step = "act" => alarms(mon) # {}
         /\ mon \in MonitorType /\ seen \in HistoryType
         /\ unsaved \in MarksType /\ lost \in MarksType
  BY DEF RocInv, RocTypeOK, RocSteps, HistoryType, MarksType

\* The invariant of the next state from its parts.
LEMMA RocKept ==
  ASSUME mon' \in MonitorType, step' # "ended" => ProcessInv(mon', seen', lost'),
         FileInv(file', seen', Both(unsaved', lost')), step' \in RocSteps,
         seen' \in HistoryType, unsaved' \in MarksType, lost' \in MarksType,
         step' = "read" => mon'.powered # Never,
         step' = "act" => alarms(mon') # {}
  PROVE  RocInv'
  <1>1. file'.data \in MonitorType \cup {NoFile} /\ file'.age \in 0..(StreakAge + 1)
    BY DEF FileInv, FileType
  <1>2. RocTypeOK'
    BY <1>1 DEF RocTypeOK, RocSteps, HistoryType, MarksType
  <1> QED
    BY <1>2 DEF RocInv

LEMMA HistoryFields ==
  ASSUME NEW s \in HistoryType
  PROVE  /\ s.run \in [Panels -> 0..Count] /\ s.blind \in Age
         /\ s.told \in SUBSET (Keys \X Users)
         /\ \A p \in Panels : s.run[p] \in Nat /\ 0 <= s.run[p]
  <1>1. /\ s.run \in [Panels -> 0..Count] /\ s.blind \in Age
        /\ s.told \in SUBSET (Keys \X Users)
    BY DEF HistoryType
  <1> QED
    BY <1>1, RocFacts

\* The history and the file as they are d ticks later.
Waited(s, d) == [s EXCEPT !.blind = Grown(@, d)]

Later(f, d) ==
  [data |-> IF f.data = NoFile THEN NoFile ELSE Aged(f.data, d),
   age  |-> IF f.age + d > StreakAge THEN StreakAge + 1 ELSE f.age + d]

LEMMA ElapseIsLater == ASSUME NEW d, Elapse(d) PROVE file' = Later(file, d)
  BY DEF Elapse, Later

LEMMA TicksAreNat == \A d \in 1..MaxCycle : d \in Nat
  BY RocMonitorAssumption

LEMMA WaitedFacts ==
  ASSUME NEW s \in HistoryType, NEW d \in Nat
  PROVE  /\ Waited(s, d) \in HistoryType /\ Waited(s, d).run = s.run
         /\ Waited(s, d).told = s.told /\ Waited(s, d).blind = Grown(s.blind, d)
  <1>1. Grown(s.blind, d) \in Age
    BY HistoryFields, GrownFacts
  <1> QED
    BY <1>1 DEF Waited, HistoryType

\* Time goes by for both.
LEMMA ClocksAge ==
  ASSUME NEW m \in MonitorType, NEW s \in HistoryType, NEW x, NEW d \in Nat, Clocks(m, s, x)
  PROVE  Clocks(Aged(m, d), Waited(s, d), x)
  <1> DEFINE a == Aged(m, d)
             w == Waited(s, d)
  <1>1. /\ a.powered = Grown(m.powered, d) /\ a.quorum = Grown(m.quorum, d)
        /\ Since(m) \in Age /\ Since(a) = Grown(Since(m), d)
    BY AgedFacts
  <1>2. w.blind = Grown(s.blind, d) /\ s.blind \in Age
    BY WaitedFacts, HistoryFields
  <1> HIDE DEF a, w
  <1>3. m.powered \in Age /\ m.quorum \in Age
    BY MonitorFields
  <1>4. a.powered = Never => a.quorum = Never
    BY <1>1, <1>3, GrownFacts DEF Clocks
  <1>5. Since(m) = Never => Since(a) = Never
    BY <1>1, GrownFacts
  <1>6. s.blind # Never /\ Since(m) # Never /\ Since(m) <= s.blind
          => w.blind # Never /\ Since(a) <= w.blind
    BY <1>1, <1>2, GrownFacts
  <1>7. Clocks(a, w, x)
    BY <1>4, <1>5, <1>6 DEF Clocks
  <1> QED
    BY <1>7 DEF a, w

LEMMA AgedKeeps ==
  ASSUME NEW m, NEW s \in HistoryType, NEW x, NEW d \in Nat, ProcessInv(m, s, x)
  PROVE  ProcessInv(Aged(m, d), Waited(s, d), x)
  <1> DEFINE a == Aged(m, d)
             w == Waited(s, d)
  <1>1. m \in MonitorType
    BY DEF ProcessInv
  <1>2. Clocks(a, w, x)
    BY <1>1, ClocksAge DEF ProcessInv
  <1>3. /\ a \in MonitorType /\ a.panels = m.panels /\ a.high = m.high
        /\ a.delivered = m.delivered /\ w.run = s.run /\ w.told = s.told
    BY <1>1, AgedFacts, WaitedFacts
  <1> HIDE DEF a, w
  <1>4. Streaks(a, w, x) /\ Remembers(a, w, x)
    BY <1>3 DEF ProcessInv, Streaks, Remembers
  <1>5. ProcessInv(a, w, x)
    BY <1>2, <1>3, <1>4 DEF ProcessInv
  <1> QED
    BY <1>5 DEF a, w

LEMMA LaterKeeps ==
  ASSUME NEW f, NEW s \in HistoryType, NEW x, NEW d \in Nat, FileInv(f, s, x)
  PROVE  /\ FileInv(Later(f, d), Waited(s, d), x)
         /\ Counting(Later(f, d).data) = Counting(f.data)
  <1> DEFINE g == Later(f, d)
             w == Waited(s, d)
             age == IF f.age + d > StreakAge THEN StreakAge + 1 ELSE f.age + d
             data == IF f.data = NoFile THEN NoFile ELSE Aged(f.data, d)
  <1>1. f \in FileType /\ f.age \in Nat /\ f.data \in MonitorType \cup {NoFile}
    BY RocFacts DEF FileInv, FileType
  <1>2. age \in 0..(StreakAge + 1) /\ (age <= StreakAge => f.age <= StreakAge)
    BY <1>1, RocFacts
  <1>3. w.run = s.run /\ w.told = s.told
    BY WaitedFacts
  <1>4. g = [data |-> data, age |-> age]
    BY DEF Later
  <1>5. /\ data \in MonitorType \cup {NoFile} /\ Clocks(data, w, x)
        /\ data.panels = f.data.panels /\ data.high = f.data.high
        /\ data.delivered = f.data.delivered
        /\ data.powered = Never <=> f.data.powered = Never
    <2>1. CASE f.data = NoFile
      <3>1. data = NoFile /\ data = f.data
        BY <2>1
      <3>2. data.powered = Never /\ data.quorum = Never
        BY <3>1, NoFileFacts
      <3> HIDE DEF data
      <3>3. Clocks(data, w, x)
        BY <3>2 DEF Clocks, Since
      <3> QED
        BY <3>1, <3>3
    <2>2. CASE f.data # NoFile
      <3>1. f.data \in MonitorType /\ data = Aged(f.data, d) /\ Clocks(f.data, s, x)
        BY <1>1, <2>2 DEF FileInv
      <3>2. Clocks(data, w, x)
        BY <3>1, ClocksAge
      <3>3. /\ data \in MonitorType /\ data.panels = f.data.panels /\ data.high = f.data.high
            /\ data.delivered = f.data.delivered /\ data.powered = Grown(f.data.powered, d)
            /\ f.data.powered \in Age
        BY <3>1, AgedFacts, MonitorFields
      <3> HIDE DEF data, w
      <3> QED
        BY <3>2, <3>3, GrownFacts
    <2> QED
      BY <2>1, <2>2
  <1> HIDE DEF g, w, age, data
  <1>6. g \in FileType /\ g.data = data /\ g.age = age
    BY <1>2, <1>4, <1>5 DEF FileType
  <1>7. Remembers(data, w, x)
    BY <1>3, <1>5 DEF FileInv, Remembers
  <1>8. age <= StreakAge => Streaks(data, w, x)
    BY <1>2, <1>3, <1>5 DEF FileInv, Streaks
  <1>9. FileInv(g, w, x)
    BY <1>5, <1>6, <1>7, <1>8 DEF FileInv
  <1>10. Counting(data) = Counting(f.data)
    BY <1>5 DEF Counting
  <1> QED
    BY <1>6, <1>9, <1>10 DEF g, w

-----------------------------------------------------------------------------
(* roc-temperature-monitor: what is seen *)

LEMMA ObservedMarks ==
  ASSUME NEW s, NEW over, Observed(s, over), unsaved \in MarksType, lost \in MarksType
  PROVE  /\ seen' = s /\ unsaved' \in MarksType /\ lost' \in MarksType
         /\ lost'.ended = lost.ended \ over /\ lost'.told = lost.told \cap s.told
         /\ unsaved'.ended = unsaved.ended \cup (over \cap Counting(file.data))
         /\ unsaved'.told = unsaved.told \cap s.told
  <1> DEFINE C == over \cap Counting(file.data)
  <1>1. C \subseteq Keys
    BY RocFacts DEF Counting
  <1>2. /\ unsaved' = [ended |-> unsaved.ended \cup C, told |-> unsaved.told \cap s.told]
        /\ lost' = [ended |-> lost.ended \ over, told |-> lost.told \cap s.told]
        /\ seen' = s
    BY DEF Observed
  <1> HIDE DEF C
  <1>3. /\ unsaved.ended \cup C \subseteq Keys /\ unsaved.told \cap s.told \subseteq Keys \X Users
        /\ lost.ended \ over \subseteq Keys /\ lost.told \cap s.told \subseteq Keys \X Users
    BY <1>1 DEF MarksType
  <1>4. unsaved' \in MarksType /\ lost' \in MarksType
    BY <1>2, <1>3 DEF MarksType
  <1> QED
    BY <1>2, <1>4 DEF C

\* What the file f knows is sound of s as well, if only the causes in over
\* have ended: those that f counts are put down as not saved.
LEMMA FileObserves ==
  ASSUME NEW f, NEW s0 \in HistoryType, NEW s \in HistoryType, NEW over, NEW x, NEW y,
         FileInv(f, s0, x),
         (x.ended \ over) \cup (over \cap Counting(f.data)) \subseteq y.ended,
         x.told \cap s.told \subseteq y.told,
         \A p \in Panels \ over : s0.run[p] <= s.run[p],
         "PSU" \notin over /\ s0.blind # Never => s.blind # Never /\ s0.blind <= s.blind,
         s.told \subseteq s0.told
  PROVE  FileInv(f, s, y)
  <1>1. f \in FileType /\ f.data \in MonitorType \cup {NoFile}
    BY DEF FileInv, FileType
  <1>2. /\ f.data.high \in [Panels -> 0..Count]
        /\ f.data.powered \in Age /\ f.data.quorum \in Age
    BY <1>1, MonitorFields, NoFileFacts, RocFacts
  <1>3. Remembers(f.data, s, y)
    BY DEF FileInv, Remembers
  <1>4. ASSUME Streaks(f.data, s0, x)
        PROVE  Streaks(f.data, s, y)
    <2>1. ASSUME NEW p \in Panels
          PROVE  f.data.high[p] <= s.run[p] \/ p \in y.ended
      <3>1. f.data.high[p] \in Nat /\ s0.run[p] \in Nat /\ s.run[p] \in Nat
        BY <1>2, HistoryFields, RocFacts
      <3>2. f.data.high[p] <= s0.run[p] \/ p \in x.ended
        BY <1>4 DEF Streaks
      <3>3. CASE p \in over
        <4>1. p \in y.ended \/ ~(f.data.high[p] > 0)
          BY <3>3 DEF Counting
        <4> QED
          BY <3>1, <4>1
      <3>4. CASE p \notin over
        <4>1. s0.run[p] <= s.run[p]
          BY <3>4
        <4>2. p \in x.ended => p \in y.ended
          BY <3>4
        <4> QED
          BY <3>1, <3>2, <4>1, <4>2
      <3> QED
        BY <3>3, <3>4
    <2> QED
      BY <1>4, <2>1 DEF Streaks
  <1>5. Clocks(f.data, s, y)
    <2>1. /\ f.data.powered = Never => f.data.quorum = Never
          /\ \/ "PSU" \in x.ended \/ Since(f.data) = Never
             \/ s0.blind # Never /\ Since(f.data) <= s0.blind
      BY DEF FileInv, Clocks
    <2>2. CASE f.data.powered = Never
      BY <2>1, <2>2 DEF Clocks, Since
    <2>3. CASE f.data.powered # Never /\ "PSU" \in over
      <3>1. "PSU" \in y.ended
        BY <2>3 DEF Counting
      <3> QED
        BY <2>1, <3>1 DEF Clocks
    <2>4. CASE "PSU" \notin over
      <3>1. "PSU" \in x.ended => "PSU" \in y.ended
        BY <2>4
      <3>2. Since(f.data) \in Nat /\ s0.blind \in Nat /\ s.blind \in Nat
        BY <1>2, HistoryFields, RocFacts DEF Since
      <3>3. s0.blind # Never /\ Since(f.data) <= s0.blind
              => s.blind # Never /\ Since(f.data) <= s.blind
        BY <2>4, <3>2
      <3> QED
        BY <2>1, <3>1, <3>3 DEF Clocks
    <2> QED
      BY <2>2, <2>3, <2>4
  <1> QED
    BY <1>1, <1>3, <1>4, <1>5 DEF FileInv

\* A step that observes s and leaves a file f with what file counts.
LEMMA ObservedFile ==
  ASSUME RocInv, NEW f, NEW s0 \in HistoryType, NEW s \in HistoryType, NEW over,
         Observed(s, over), FileInv(f, s0, Both(unsaved, lost)),
         Counting(f.data) = Counting(file.data),
         \A p \in Panels \ over : s0.run[p] <= s.run[p],
         "PSU" \notin over /\ s0.blind # Never => s.blind # Never /\ s0.blind <= s.blind,
         s.told \subseteq s0.told
  PROVE  FileInv(f, s, Both(unsaved', lost'))
  <1> DEFINE x == Both(unsaved, lost)
             y == Both(unsaved', lost')
  <1>1. unsaved \in MarksType /\ lost \in MarksType
    BY RocParts
  <1>2. /\ lost'.ended = lost.ended \ over /\ lost'.told = lost.told \cap s.told
        /\ unsaved'.ended = unsaved.ended \cup (over \cap Counting(file.data))
        /\ unsaved'.told = unsaved.told \cap s.told
    BY <1>1, ObservedMarks
  <1>3. /\ x.ended = unsaved.ended \cup lost.ended /\ x.told = unsaved.told \cup lost.told
        /\ y.ended = unsaved'.ended \cup lost'.ended /\ y.told = unsaved'.told \cup lost'.told
    BY DEF Both
  <1> HIDE DEF x, y
  <1>4. (x.ended \ over) \cup (over \cap Counting(f.data)) \subseteq y.ended
    BY <1>2, <1>3
  <1>5. x.told \cap s.told \subseteq y.told
    BY <1>2, <1>3
  <1>6. FileInv(f, s0, x)
    BY DEF x
  <1>7. FileInv(f, s, y)
    BY <1>4, <1>5, <1>6, FileObserves
  <1> QED
    BY <1>7 DEF y

\* The power is seen off: nothing is left to count or to remember.
LEMMA SeenOff ==
  ASSUME NEW m \in MonitorType, NEW x
  PROVE  ProcessInv(apply_power(m, "off"), NothingSeen, x)
  <1> DEFINE a == apply_power(m, "off")
  <1>1. a \in MonitorType /\ a.high = NoRun /\ a.quorum = Never /\ a.powered = Never
    BY ApplyPowerFacts
  <1> HIDE DEF a
  <1>2. Streaks(a, NothingSeen, x)
    <2>1. \A p \in Panels : a.high[p] = 0 /\ NothingSeen.run[p] = 0
      BY <1>1, RocFacts
    <2> QED
      BY <2>1 DEF Streaks
  <1>3. Remembers(a, NothingSeen, x) /\ Clocks(a, NothingSeen, x)
    BY <1>1, RocFacts DEF Remembers, Clocks, Since
  <1> QED
    BY <1>1, <1>2, <1>3 DEF ProcessInv, a

\* The power is seen on, with the panels in S listed.
Narrowed(s, blind, S) ==
  [run   |-> [p \in Panels |-> IF p \in S THEN s.run[p] ELSE 0],
   blind |-> IF blind = Never THEN 0 ELSE blind,
   told  |-> {x \in s.told : x[1] \in S \cup {"PSU"}}]

LEMMA NarrowedFacts ==
  ASSUME NEW s \in HistoryType, NEW blind \in Age, NEW S
  PROVE  /\ Narrowed(s, blind, S) \in HistoryType
         /\ Narrowed(s, blind, S).told = {x \in s.told : x[1] \in S \cup {"PSU"}}
         /\ Narrowed(s, blind, S).blind = IF blind = Never THEN 0 ELSE blind
         /\ \A p \in Panels : Narrowed(s, blind, S).run[p] = IF p \in S THEN s.run[p] ELSE 0
  <1> DEFINE run == [p \in Panels |-> IF p \in S THEN s.run[p] ELSE 0]
             told == {x \in s.told : x[1] \in S \cup {"PSU"}}
             b == IF blind = Never THEN 0 ELSE blind
  <1>1. s.run \in [Panels -> 0..Count] /\ s.told \in SUBSET (Keys \X Users)
    BY HistoryFields
  <1>2. 0 \in 0..Count /\ b \in Age
    BY RocFacts
  <1>3. run \in [Panels -> 0..Count] /\ told \in SUBSET (Keys \X Users)
    BY <1>1, <1>2
  <1>4. \A p \in Panels : run[p] = IF p \in S THEN s.run[p] ELSE 0
    OBVIOUS
  <1>5. Narrowed(s, blind, S) = [run |-> run, blind |-> b, told |-> told]
    BY DEF Narrowed
  <1> HIDE DEF run, told, b
  <1>6. [run |-> run, blind |-> b, told |-> told] \in HistoryType
    BY <1>2, <1>3 DEF HistoryType
  <1> QED
    BY <1>4, <1>5, <1>6 DEF told, b

\* The monitor a is m with the panels in S and the power on.
LEMMA SeenOn ==
  ASSUME NEW m, NEW s \in HistoryType, NEW x, NEW y, NEW S \in SUBSET Panels, NEW a \in MonitorType,
         ProcessInv(m, s, x),
         a.panels = S, \A p \in Panels : a.high[p] = IF p \in S THEN m.high[p] ELSE 0,
         {z \in m.delivered : z[1] \in S \cup {"PSU"}} \subseteq a.delivered,
         a.quorum = m.quorum, a.powered = IF m.powered = Never THEN 0 ELSE m.powered,
         y.ended = x.ended \ (Panels \ S),
         y.told = x.told \cap Narrowed(s, s.blind, S).told
  PROVE  ProcessInv(a, Narrowed(s, s.blind, S), y)
  <1> DEFINE n == Narrowed(s, s.blind, S)
  <1>1. m \in MonitorType /\ s.blind \in Age
    BY HistoryFields DEF ProcessInv
  <1>2. /\ n \in HistoryType /\ n.blind = IF s.blind = Never THEN 0 ELSE s.blind
        /\ n.told = {z \in s.told : z[1] \in S \cup {"PSU"}}
        /\ \A p \in Panels : n.run[p] = IF p \in S THEN s.run[p] ELSE 0
    BY <1>1, NarrowedFacts
  <1> HIDE DEF n
  <1>3. Streaks(a, n, y)
    <2>1. \A p \in Panels : m.high[p] <= s.run[p] \/ p \in x.ended
      BY DEF ProcessInv, Streaks
    <2>2. \A p \in Panels : a.high[p] <= n.run[p] \/ p \in y.ended
      BY <1>2, <2>1
    <2> QED
      BY <2>2 DEF Streaks
  <1>4. Remembers(a, n, y)
    BY <1>2 DEF ProcessInv, Remembers, n
  <1>5. Clocks(a, n, y)
    <2>1. /\ m.powered = Never => m.quorum = Never
          /\ \/ "PSU" \in x.ended \/ Since(m) = Never
             \/ s.blind # Never /\ Since(m) <= s.blind
      BY DEF ProcessInv, Clocks
    <2>2. a.powered = Never => a.quorum = Never
      BY <2>1, RocFacts
    <2>3. "PSU" \in x.ended => "PSU" \in y.ended
      BY RocFacts
    <2>4. n.blind # Never /\ n.blind \in Nat
      BY <1>1, <1>2, RocFacts
    <2>5. CASE m.powered = Never
      <3>1. Since(a) = 0
        BY <2>1, <2>5 DEF Since
      <3> QED
        BY <2>2, <2>4, <3>1 DEF Clocks
    <2>6. CASE m.powered # Never
      <3>1. Since(a) = Since(m)
        BY <2>6 DEF Since
      <3>2. s.blind # Never /\ Since(m) <= s.blind => n.blind # Never /\ Since(a) <= n.blind
        BY <1>2, <3>1
      <3> QED
        BY <2>1, <2>2, <2>3, <3>1, <3>2 DEF Clocks
    <2> QED
      BY <2>5, <2>6
  <1> QED
    BY <1>3, <1>4, <1>5 DEF ProcessInv, n

\* A streak that is given up is no longer than any history.
LEMMA NoStreaks ==
  ASSUME NEW m \in MonitorType, NEW s \in HistoryType, NEW x, NEW y,
         Clocks(m, s, x), Remembers(m, s, x),
         "PSU" \in x.ended => "PSU" \in y.ended, x.told \cap s.told \subseteq y.told
  PROVE  ProcessInv([m EXCEPT !.high = NoRun], [s EXCEPT !.run = NoRun], y)
  <1> DEFINE a == [m EXCEPT !.high = NoRun]
             n == [s EXCEPT !.run = NoRun]
  <1>1. /\ a \in MonitorType /\ a.high = NoRun /\ a.delivered = m.delivered
        /\ a.quorum = m.quorum /\ a.powered = m.powered
    BY RocFacts DEF MonitorType
  <1>2. n.run = NoRun /\ n.told = s.told /\ n.blind = s.blind
    BY RocFacts DEF HistoryType
  <1> HIDE DEF a, n
  <1>3. Streaks(a, n, y)
    <2>1. \A p \in Panels : a.high[p] = 0 /\ n.run[p] = 0
      BY <1>1, <1>2, RocFacts
    <2> QED
      BY <2>1 DEF Streaks
  <1>4. Remembers(a, n, y)
    BY <1>1, <1>2 DEF Remembers
  <1>5. Clocks(a, n, y)
    BY <1>1, <1>2 DEF Clocks, Since
  <1> QED
    BY <1>1, <1>3, <1>4, <1>5 DEF ProcessInv, a, n

-----------------------------------------------------------------------------
(* roc-temperature-monitor: the cycle *)

LEMMA PowerUnknownRoc ==
  ASSUME RocInv, PowerUnknown
  PROVE  RocInv'
  <1>1. PICK d \in 1..MaxCycle :
          /\ Elapse(d) /\ mon' = [Aged(mon, d) EXCEPT !.high = NoRun]
          /\ Observed([seen EXCEPT !.run = NoRun, !.blind = Grown(@, d)], Panels)
    BY DEF PowerUnknown
  <1> DEFINE a == Aged(mon, d)
             w == Waited(seen, d)
             s == [w EXCEPT !.run = NoRun]
  <1>2. d \in Nat /\ step = "cycle" /\ step' = "save"
    BY <1>1, TicksAreNat DEF PowerUnknown
  <1>3. /\ ProcessInv(mon, seen, lost) /\ FileInv(file, seen, Both(unsaved, lost))
        /\ seen \in HistoryType /\ unsaved \in MarksType /\ lost \in MarksType
    BY <1>2, RocParts
  <1>4. ProcessInv(a, w, lost) /\ a \in MonitorType
    BY <1>2, <1>3, AgedKeeps DEF ProcessInv
  <1>5. w \in HistoryType /\ w.run = seen.run /\ w.told = seen.told
    BY <1>2, <1>3, WaitedFacts
  <1>6. s = [seen EXCEPT !.run = NoRun, !.blind = Grown(@, d)]
    BY <1>3 DEF Waited, HistoryType
  <1>7. Observed(s, Panels) /\ mon' = [a EXCEPT !.high = NoRun]
    BY <1>1, <1>6
  <1>8. FileInv(file', w, Both(unsaved, lost)) /\ Counting(file'.data) = Counting(file.data)
    BY <1>1, <1>2, <1>3, ElapseIsLater, LaterKeeps
  <1> HIDE DEF a, w
  <1>9. s \in HistoryType /\ s.told = w.told /\ s.blind = w.blind
    BY <1>5, RocFacts DEF HistoryType
  <1>10. /\ seen' = s /\ unsaved' \in MarksType /\ lost' \in MarksType
         /\ lost'.ended = lost.ended \ Panels /\ lost'.told = lost.told \cap s.told
    BY <1>3, <1>7, ObservedMarks
  <1>11. "PSU" \in lost.ended => "PSU" \in lost'.ended
    BY <1>10, RocFacts
  <1>12. ProcessInv(mon', seen', lost')
    <2>1. lost.told \cap w.told \subseteq lost'.told
      BY <1>9, <1>10
    <2>2. Clocks(a, w, lost) /\ Remembers(a, w, lost)
      BY <1>4 DEF ProcessInv
    <2>3. ProcessInv([a EXCEPT !.high = NoRun], [w EXCEPT !.run = NoRun], lost')
      BY <1>4, <1>5, <1>11, <2>1, <2>2, NoStreaks
    <2> QED
      BY <1>7, <1>10, <2>3
  <1> HIDE DEF s
  <1>13. FileInv(file', s, Both(unsaved', lost'))
    <2>1. w.blind # Never => s.blind # Never /\ w.blind <= s.blind
      BY <1>5, <1>9, HistoryFields, RocFacts
    <2>2. \A p \in Panels \ Panels : w.run[p] <= s.run[p]
      OBVIOUS
    <2>3. s.told \subseteq w.told
      BY <1>9
    <2> QED
      BY <1>5, <1>7, <1>8, <1>9, <2>1, <2>2, <2>3, ObservedFile
  <1>14. mon' \in MonitorType
    BY <1>12 DEF ProcessInv
  <1> QED
    BY <1>2, <1>9, <1>10, <1>12, <1>13, <1>14, RocKept DEF RocSteps

\* The power is seen: m0 and s0 are the monitor and the history at that time,
\* f the file.
LEMMA PowerIsSeen ==
  ASSUME RocInv, StationTypeOK, NEW m0, NEW s0 \in HistoryType, NEW f, NEW S \in SUBSET Panels,
         ProcessInv(m0, s0, lost), FileInv(f, s0, Both(unsaved, lost)),
         Counting(f.data) = Counting(file.data),
         NEW a \in MonitorType,
         power = "off" => ProcessInv(a, NothingSeen, lost'),
         power = "on" =>
           /\ a.panels = S /\ \A p \in Panels : a.high[p] = IF p \in S THEN m0.high[p] ELSE 0
           /\ {z \in m0.delivered : z[1] \in S \cup {"PSU"}} \subseteq a.delivered
           /\ a.quorum = m0.quorum /\ a.powered = IF m0.powered = Never THEN 0 ELSE m0.powered,
         s0.run = seen.run, s0.told = seen.told, SeenPower(s0.blind, S)
  PROVE  /\ ProcessInv(a, seen', lost') /\ FileInv(f, seen', Both(unsaved', lost'))
         /\ seen' \in HistoryType /\ unsaved' \in MarksType /\ lost' \in MarksType
  <1>1. unsaved \in MarksType /\ lost \in MarksType /\ seen \in HistoryType
    BY RocParts
  <1>2. CASE power = "off"
    <2>1. Observed(NothingSeen, Keys)
      BY <1>2 DEF SeenPower
    <2>2. seen' = NothingSeen /\ unsaved' \in MarksType /\ lost' \in MarksType
      BY <1>1, <2>1, ObservedMarks
    <2>3. /\ NothingSeen \in HistoryType /\ NothingSeen.told \subseteq s0.told
          /\ "PSU" \in Keys /\ Panels \ Keys = {}
      BY RocFacts
    <2>4. FileInv(f, NothingSeen, Both(unsaved', lost'))
      BY <2>1, <2>3, ObservedFile
    <2> QED
      BY <1>2, <2>2, <2>3, <2>4
  <1>3. CASE power = "on"
    <2> DEFINE n == Narrowed(s0, s0.blind, S)
    <2>1. Observed(n, Panels \ S)
      BY <1>3 DEF SeenPower, Narrowed
    <2>2. s0.blind \in Age
      BY HistoryFields
    <2>3. /\ n \in HistoryType /\ n.blind = IF s0.blind = Never THEN 0 ELSE s0.blind
          /\ n.told = {z \in s0.told : z[1] \in S \cup {"PSU"}}
          /\ \A p \in Panels : n.run[p] = IF p \in S THEN s0.run[p] ELSE 0
      BY <2>2, NarrowedFacts
    <2>4. /\ seen' = n /\ unsaved' \in MarksType /\ lost' \in MarksType
          /\ lost'.ended = lost.ended \ (Panels \ S) /\ lost'.told = lost.told \cap n.told
      BY <1>1, <2>1, ObservedMarks
    <2>5. ProcessInv(a, n, lost')
      BY <1>3, <2>4, SeenOn
    <2> HIDE DEF n
    <2>6. \A p \in Panels \ (Panels \ S) : s0.run[p] <= n.run[p]
      <3>1. \A p \in Panels : s0.run[p] \in Nat
        BY HistoryFields
      <3> QED
        BY <2>3, <3>1
    <2>7. s0.blind # Never => n.blind # Never /\ s0.blind <= n.blind
      BY <2>2, <2>3, RocFacts
    <2>8. n.told \subseteq s0.told
      BY <2>3
    <2>9. FileInv(f, n, Both(unsaved', lost'))
      BY <2>1, <2>3, <2>6, <2>7, <2>8, ObservedFile
    <2> QED
      BY <2>3, <2>4, <2>5, <2>9
  <1> QED
    BY <1>2, <1>3 DEF StationTypeOK

LEMMA BeginCycleRoc ==
  ASSUME RocInv, StationTypeOK, BeginCycle
  PROVE  RocInv'
  <1>1. PICK d \in 1..MaxCycle, S \in SUBSET Panels :
          /\ Elapse(d)
          /\ mon' = apply_power(set_panels(Aged(mon, d), S), power)
          /\ SeenPower(Grown(seen.blind, d), S)
    BY DEF BeginCycle
  <1> DEFINE m0 == Aged(mon, d)
             s0 == Waited(seen, d)
             m == set_panels(m0, S)
             a == apply_power(m, power)
  <1>2. /\ d \in Nat /\ step = "cycle"
        /\ step' = IF power = "on" THEN "read" ELSE "save"
    BY <1>1, TicksAreNat DEF BeginCycle
  <1>3. /\ ProcessInv(mon, seen, lost) /\ FileInv(file, seen, Both(unsaved, lost))
        /\ seen \in HistoryType /\ power \in {"on", "off"}
    BY <1>2, RocParts DEF StationTypeOK
  <1>4. ProcessInv(m0, s0, lost) /\ m0 \in MonitorType
    BY <1>2, <1>3, AgedKeeps DEF ProcessInv
  <1>5. /\ s0 \in HistoryType /\ s0.run = seen.run /\ s0.told = seen.told
        /\ s0.blind = Grown(seen.blind, d)
    BY <1>2, <1>3, WaitedFacts
  <1>6. FileInv(file', s0, Both(unsaved, lost)) /\ Counting(file'.data) = Counting(file.data)
    BY <1>1, <1>2, <1>3, ElapseIsLater, LaterKeeps
  <1> HIDE DEF m0, s0
  <1>7. /\ m \in MonitorType /\ m.panels = S
        /\ m.high = [p \in Panels |-> IF p \in S THEN m0.high[p] ELSE 0]
        /\ m.delivered = {x \in m0.delivered : x[1] \in S \cup {"PSU"}}
        /\ m.powered = m0.powered /\ m.quorum = m0.quorum
    BY <1>1, <1>4, SetPanelsFacts
  <1> HIDE DEF m
  <1>8. /\ a \in MonitorType /\ mon' = a
        /\ power = "off" => ProcessInv(a, NothingSeen, lost')
        /\ power = "on" =>
             /\ a.panels = S /\ a.high = m.high /\ a.delivered = m.delivered
             /\ a.quorum = m.quorum /\ a.powered = IF m.powered = Never THEN 0 ELSE m.powered
             /\ a.powered # Never
    BY <1>1, <1>3, <1>7, ApplyPowerFacts, SeenOff DEF m, m0
  <1> HIDE DEF a
  <1>9. power = "on" =>
           /\ a.panels = S /\ \A p \in Panels : a.high[p] = IF p \in S THEN m0.high[p] ELSE 0
           /\ {z \in m0.delivered : z[1] \in S \cup {"PSU"}} \subseteq a.delivered
           /\ a.quorum = m0.quorum /\ a.powered = IF m0.powered = Never THEN 0 ELSE m0.powered
    BY <1>7, <1>8
  <1>10. SeenPower(s0.blind, S)
    BY <1>1, <1>5
  <1>11. /\ ProcessInv(a, seen', lost') /\ FileInv(file', seen', Both(unsaved', lost'))
         /\ seen' \in HistoryType /\ unsaved' \in MarksType /\ lost' \in MarksType
    BY <1>1, <1>4, <1>5, <1>6, <1>8, <1>9, <1>10, PowerIsSeen
  <1>12. step' \in RocSteps /\ (step' = "read" => mon'.powered # Never) /\ step' # "act"
    BY <1>2, <1>8 DEF RocSteps
  <1> QED
    BY <1>8, <1>11, <1>12, RocKept

LEMMA RecheckRoc ==
  ASSUME RocInv, StationTypeOK, Recheck
  PROVE  RocInv'
  <1> DEFINE a == apply_power(mon, power)
  <1>1. /\ mon' = a /\ SeenPower(seen.blind, mon.panels) /\ file' = file /\ step = "recheck"
        /\ step' = IF alarms(a) = {} THEN "save" ELSE "act"
    BY DEF Recheck
  <1>2. /\ ProcessInv(mon, seen, lost) /\ FileInv(file, seen, Both(unsaved, lost))
        /\ mon \in MonitorType /\ seen \in HistoryType /\ power \in {"on", "off"}
        /\ mon.panels \in SUBSET Panels
    BY <1>1, RocParts, MonitorFields DEF StationTypeOK
  <1>3. /\ a \in MonitorType
        /\ power = "off" => ProcessInv(a, NothingSeen, lost')
        /\ power = "on" =>
             /\ a.panels = mon.panels /\ a.high = mon.high /\ a.delivered = mon.delivered
             /\ a.quorum = mon.quorum /\ a.powered = IF mon.powered = Never THEN 0 ELSE mon.powered
    BY <1>2, ApplyPowerFacts, SeenOff
  <1> HIDE DEF a
  <1>4. \A p \in Panels : mon.high[p] = IF p \in mon.panels THEN mon.high[p] ELSE 0
    BY <1>2 DEF ProcessInv, Streaks
  <1>5. power = "on" =>
           /\ a.panels = mon.panels
           /\ \A p \in Panels : a.high[p] = IF p \in mon.panels THEN mon.high[p] ELSE 0
           /\ {z \in mon.delivered : z[1] \in mon.panels \cup {"PSU"}} \subseteq a.delivered
           /\ a.quorum = mon.quorum /\ a.powered = IF mon.powered = Never THEN 0 ELSE mon.powered
    BY <1>3, <1>4
  <1>6. /\ ProcessInv(a, seen', lost') /\ FileInv(file, seen', Both(unsaved', lost'))
        /\ seen' \in HistoryType /\ unsaved' \in MarksType /\ lost' \in MarksType
    BY <1>1, <1>2, <1>3, <1>5, PowerIsSeen
  <1>7. /\ step' \in RocSteps /\ step' # "read" /\ (step' = "act" => alarms(mon') # {})
    BY <1>1 DEF RocSteps
  <1> QED
    BY <1>1, <1>3, <1>6, <1>7, RocKept

LEMMA ReadPanelsRoc ==
  ASSUME RocInv, step = "read", NEW good \in SUBSET mon.panels, NEW hot \in SUBSET good,
         NEW bad \in SUBSET mon.panels, NEW stopped \in BOOLEAN, ReadPanels(good, hot, bad, stopped)
  PROVE  RocInv'
  <1> DEFINE m == sample(mon, good, hot, bad)
             n == IF good \cup bad = mon.panels THEN finish_cycle(m, good) ELSE m
             quorum == good \cup bad = mon.panels /\ Cardinality(good) >= MinPanels
             counted == IF quorum THEN {"PSU"} ELSE {}
             run == [p \in Panels |-> IF p \in hot THEN More(seen.run[p])
                                      ELSE IF p \in good \cup bad THEN 0 ELSE seen.run[p]]
             blind == IF quorum THEN 0 ELSE seen.blind
             told == {x \in seen.told : x[1] \notin (good \ hot) \cup counted}
             over == ((good \cup bad) \ hot) \cup counted
             s == [run |-> run, blind |-> blind, told |-> told]
  <1>1. /\ mon' = n /\ file' = file
        /\ step' = IF stopped THEN "lastSave" ELSE IF alarms(n) = {} THEN "save" ELSE "recheck"
    BY DEF ReadPanels
  <1>2. Observed(s, over)
    BY DEF ReadPanels, SeenReadings
  <1>3. /\ ProcessInv(mon, seen, lost) /\ FileInv(file, seen, Both(unsaved, lost))
        /\ mon \in MonitorType /\ seen \in HistoryType /\ mon.powered # Never
        /\ unsaved \in MarksType /\ lost \in MarksType
    BY RocParts
  <1>4. /\ m \in MonitorType /\ m.panels = mon.panels
        /\ m.high = Sampled(mon.high, good, hot, bad)
        /\ m.delivered = {x \in mon.delivered : x[1] \notin good \ hot}
        /\ m.powered = mon.powered /\ m.quorum = mon.quorum
    BY <1>3, SampleFacts
  <1> HIDE DEF m
  <1>5. /\ n \in MonitorType /\ n.panels = m.panels /\ n.high = m.high
        /\ n.powered = m.powered /\ n.quorum = IF quorum THEN 0 ELSE m.quorum
        /\ n.delivered = IF quorum THEN {x \in m.delivered : x[1] # "PSU"} ELSE m.delivered
    BY <1>4, FinishFacts
  <1> HIDE DEF n, quorum
  <1>6. /\ seen.run \in [Panels -> 0..Count] /\ seen.told \in SUBSET (Keys \X Users)
        /\ seen.blind \in Age /\ mon.high \in [Panels -> 0..Count]
        /\ mon.powered \in Age /\ mon.quorum \in Age
    BY <1>3, HistoryFields, MonitorFields
  <1>7. run = Sampled(seen.run, good, hot, bad)
    BY DEF Sampled
  <1>8. run \in [Panels -> 0..Count] /\ blind \in Age /\ told \in SUBSET (Keys \X Users)
    BY <1>6, <1>7, SampledFacts, RocFacts
  <1>9. told \subseteq seen.told /\ (quorum => blind = 0) /\ (~quorum => blind = seen.blind)
    OBVIOUS
  <1>10. (quorum => "PSU" \in over) /\ (~quorum => "PSU" \notin over)
    BY <1>3, MonitorFields, RocFacts
  <1>11. \A p \in Panels : p \in over <=> p \in (good \cup bad) \ hot
    BY RocFacts
  <1> HIDE DEF run, blind, told
  <1>12. s \in HistoryType /\ s.run = run /\ s.blind = blind /\ s.told = told
    BY <1>8 DEF HistoryType
  <1>13. told \ (lost.told \cap told) \subseteq n.delivered
    <2>1. seen.told \ lost.told \subseteq mon.delivered
      BY <1>3 DEF ProcessInv, Remembers
    <2> QED
      BY <1>4, <1>5, <2>1 DEF told
  <1> HIDE DEF s, over, counted
  <1>14. /\ seen' = s /\ unsaved' \in MarksType /\ lost' \in MarksType
         /\ lost'.ended = lost.ended \ over /\ lost'.told = lost.told \cap s.told
    BY <1>2, <1>3, ObservedMarks
  <1>15. Streaks(n, s, lost')
    <2>1. \A p \in Panels : /\ mon.high[p] <= seen.run[p] \/ p \in lost.ended
                            /\ p \notin mon.panels => mon.high[p] = 0
      BY <1>3 DEF ProcessInv, Streaks
    <2>2. ASSUME NEW p \in Panels
          PROVE  n.high[p] <= s.run[p] \/ p \in lost'.ended
      <3>1. n.high[p] = Sampled(mon.high, good, hot, bad)[p]
            /\ s.run[p] = Sampled(seen.run, good, hot, bad)[p]
        BY <1>4, <1>5, <1>7, <1>12
      <3>2. CASE mon.high[p] <= seen.run[p]
        BY <1>6, <3>1, <3>2, SampledFacts
      <3>3. CASE p \in lost.ended /\ p \notin over
        BY <1>14, <3>3
      <3>4. CASE p \in over
        <4>1. n.high[p] = 0 /\ s.run[p] = 0
          BY <1>11, <3>1, <3>4 DEF Sampled
        <4> QED
          BY <4>1
      <3> QED
        BY <2>1, <3>2, <3>3, <3>4
    <2>3. \A p \in Panels : p \notin n.panels => n.high[p] = 0
      BY <1>4, <1>5, <1>6, <2>1, SampledFacts
    <2> QED
      BY <2>2, <2>3 DEF Streaks
  <1>16. Clocks(n, s, lost')
    <2>1. \/ "PSU" \in lost.ended \/ Since(mon) = Never
          \/ seen.blind # Never /\ Since(mon) <= seen.blind
      BY <1>3 DEF ProcessInv, Clocks
    <2>2. n.powered # Never
      BY <1>3, <1>4, <1>5
    <2>3. CASE quorum
      <3>1. Since(n) = 0 /\ s.blind = 0
        BY <1>5, <1>9, <1>12, <2>3, RocFacts DEF Since
      <3> QED
        BY <2>2, <3>1, RocFacts DEF Clocks
    <2>4. CASE ~quorum
      <3>1. Since(n) = Since(mon) /\ s.blind = seen.blind
        BY <1>4, <1>5, <1>9, <1>12, <2>4 DEF Since
      <3>2. "PSU" \in lost.ended => "PSU" \in lost'.ended
        BY <1>10, <1>14, <2>4
      <3> QED
        BY <2>1, <2>2, <3>1, <3>2 DEF Clocks
    <2> QED
      BY <2>3, <2>4
  <1>17. Remembers(n, s, lost')
    BY <1>12, <1>13, <1>14 DEF Remembers
  <1>18. ProcessInv(n, s, lost')
    BY <1>5, <1>15, <1>16, <1>17 DEF ProcessInv
  <1>19. FileInv(file, s, Both(unsaved', lost'))
    <2>1. ASSUME NEW p \in Panels \ over
          PROVE  seen.run[p] <= s.run[p]
      <3>1. p \in Panels /\ (p \in hot \/ p \notin good \cup bad)
        BY <1>11
      <3>2. seen.run[p] \in 0..Count
        BY <1>6, <3>1
      <3>3. s.run[p] = IF p \in hot THEN More(seen.run[p]) ELSE seen.run[p]
        BY <1>7, <1>12, <3>1 DEF Sampled
      <3> QED
        BY <3>2, <3>3, RocFacts DEF More
    <2>2. "PSU" \notin over /\ seen.blind # Never => s.blind # Never /\ seen.blind <= s.blind
      BY <1>6, <1>9, <1>10, <1>12, RocFacts
    <2>3. s.told \subseteq seen.told
      BY <1>9, <1>12
    <2> QED
      BY <1>2, <1>3, <1>12, <2>1, <2>2, <2>3, ObservedFile
  <1>20. step' \in {"lastSave", "save", "recheck"}
    BY <1>1
  <1> QED
    BY <1>1, <1>5, <1>12, <1>14, <1>18, <1>19, <1>20, RocKept DEF RocSteps

LEMMA NotifyRoc ==
  ASSUME RocInv, Notify
  PROVE  RocInv'
  <1>1. PICK sent \in SUBSET Pending :
          /\ mon' = [mon EXCEPT !.delivered = @ \cup sent]
          /\ seen' = [seen EXCEPT !.told = @ \cup sent]
          /\ unsaved' = [unsaved EXCEPT !.told = @ \cup sent]
          /\ lost' = [lost EXCEPT !.told = @ \ sent]
    BY DEF Notify
  <1>2. step = "notify" /\ step' = "save" /\ file' = file
    BY DEF Notify
  <1>3. /\ ProcessInv(mon, seen, lost) /\ FileInv(file, seen, Both(unsaved, lost))
        /\ mon \in MonitorType /\ seen \in HistoryType
        /\ unsaved \in MarksType /\ lost \in MarksType
    BY <1>2, RocParts
  <1>4. sent \in SUBSET (Keys \X Users)
    <2>1. alarms(mon) \subseteq Keys
      BY <1>3, MonitorFields DEF alarms, Keys
    <2> QED
      BY <1>1, <2>1 DEF Pending
  <1>5. mon.delivered \cup sent \in SUBSET (Keys \X Users)
        /\ seen.told \cup sent \in SUBSET (Keys \X Users)
    BY <1>3, <1>4, MonitorFields, HistoryFields
  <1>6. unsaved.told \cup sent \in SUBSET (Keys \X Users)
        /\ lost.told \ sent \in SUBSET (Keys \X Users)
    BY <1>3, <1>4 DEF MarksType
  <1>7. /\ mon' \in MonitorType /\ mon'.panels = mon.panels /\ mon'.high = mon.high
        /\ mon'.powered = mon.powered /\ mon'.quorum = mon.quorum
        /\ mon'.delivered = mon.delivered \cup sent
    BY <1>1, <1>3, <1>5 DEF MonitorType
  <1>8. /\ seen' \in HistoryType /\ seen'.run = seen.run /\ seen'.blind = seen.blind
        /\ seen'.told = seen.told \cup sent
    BY <1>1, <1>3, <1>5 DEF HistoryType
  <1>9. /\ unsaved' \in MarksType /\ unsaved'.ended = unsaved.ended
        /\ unsaved'.told = unsaved.told \cup sent
        /\ lost' \in MarksType /\ lost'.ended = lost.ended /\ lost'.told = lost.told \ sent
    BY <1>1, <1>3, <1>6 DEF MarksType
  <1>10. ProcessInv(mon', seen', lost')
    <2>1. Streaks(mon', seen', lost')
      BY <1>3, <1>7, <1>8, <1>9 DEF ProcessInv, Streaks
    <2>2. Clocks(mon', seen', lost')
      BY <1>3, <1>7, <1>8, <1>9 DEF ProcessInv, Clocks, Since
    <2>3. Remembers(mon', seen', lost')
      BY <1>3, <1>7, <1>8, <1>9 DEF ProcessInv, Remembers
    <2> QED
      BY <1>7, <2>1, <2>2, <2>3 DEF ProcessInv
  <1>11. FileInv(file', seen', Both(unsaved', lost'))
    <2> DEFINE x == Both(unsaved, lost)
               y == Both(unsaved', lost')
    <2>1. /\ x.ended = y.ended /\ x.told = unsaved.told \cup lost.told
          /\ y.told = unsaved'.told \cup lost'.told
      BY <1>9 DEF Both
    <2>2. FileInv(file, seen, x)
      BY <1>3
    <2> HIDE DEF x, y
    <2>3. Clocks(file.data, seen', y)
      BY <1>8, <2>1, <2>2 DEF FileInv, Clocks
    <2>4. Remembers(file.data, seen', y)
      BY <1>8, <1>9, <2>1, <2>2 DEF FileInv, Remembers
    <2>5. Streaks(file.data, seen, x) => Streaks(file.data, seen', y)
      BY <1>8, <2>1 DEF Streaks
    <2>6. FileInv(file, seen', y)
      BY <2>2, <2>3, <2>4, <2>5 DEF FileInv
    <2> QED
      BY <1>2, <2>6 DEF y
  <1> QED
    BY <1>2, <1>7, <1>8, <1>9, <1>10, <1>11, RocKept DEF RocSteps

LEMMA SaveRoc ==
  ASSUME RocInv, Save
  PROVE  RocInv'
  <1>1. /\ file' = [data |-> mon, age |-> 0] /\ unsaved' = Nothing /\ lost' = lost
        /\ seen' = seen /\ step \in {"save", "lastSave"}
        /\ step' = IF step = "save" THEN "cycle" ELSE "ended"
        /\ mon' = IF step = "save" THEN mon ELSE NewMonitor
    BY DEF Save
  <1>2. /\ ProcessInv(mon, seen, lost) /\ mon \in MonitorType /\ seen \in HistoryType
        /\ lost \in MarksType
    BY <1>1, RocParts
  <1>3. 0 \in 0..(StreakAge + 1)
    BY RocFacts
  <1>4. file' \in FileType /\ file'.data = mon
    BY <1>1, <1>2, <1>3 DEF FileType
  <1>5. FileInv(file', seen', Both(unsaved', lost'))
    <2> DEFINE y == Both(unsaved', lost')
    <2>1. y.ended = lost.ended /\ y.told = lost.told
      BY <1>1, RocFacts DEF Both
    <2> HIDE DEF y
    <2>2. Clocks(mon, seen, y) /\ Remembers(mon, seen, y) /\ Streaks(mon, seen, y)
      BY <1>2, <2>1 DEF ProcessInv, Clocks, Remembers, Streaks
    <2>3. FileInv(file', seen', y)
      BY <1>1, <1>4, <2>2 DEF FileInv
    <2> QED
      BY <2>3 DEF y
  <1>6. mon' \in MonitorType /\ step' \in {"cycle", "ended"}
        /\ (step' # "ended" => ProcessInv(mon', seen', lost'))
    BY <1>1, <1>2, NewMonitorFacts
  <1> QED
    BY <1>1, <1>2, <1>5, <1>6, RocFacts, RocKept DEF RocSteps

LEMMA NewMonitorInv ==
  ASSUME NEW s \in HistoryType, NEW x, s.told \subseteq x.told
  PROVE  ProcessInv(NewMonitor, s, x)
  <1>1. Streaks(NewMonitor, s, x)
    <2>1. \A p \in Panels : NewMonitor.high[p] = 0
      BY NewMonitorFacts, RocFacts
    <2>2. \A p \in Panels : 0 <= s.run[p]
      BY HistoryFields
    <2> QED
      BY <2>1, <2>2 DEF Streaks
  <1>2. Clocks(NewMonitor, s, x) /\ Remembers(NewMonitor, s, x)
    BY NewMonitorFacts DEF Remembers, Clocks, Since
  <1> QED
    BY <1>1, <1>2, NewMonitorFacts DEF ProcessInv

LEMMA NoFileInv ==
  ASSUME NEW f, NEW s \in HistoryType, NEW x, f = [data |-> NoFile, age |-> 0],
         s.told \subseteq x.told
  PROVE  FileInv(f, s, x)
  <1>1. f \in FileType /\ f.data = NoFile
    <2>1. 0 \in 0..(StreakAge + 1)
      BY RocFacts
    <2> QED
      BY <2>1 DEF FileType
  <1>2. Streaks(NoFile, s, x)
    <2>1. \A p \in Panels : NoFile.high[p] = 0
      BY NoFileFacts, RocFacts
    <2>2. \A p \in Panels : 0 <= s.run[p]
      BY HistoryFields
    <2> QED
      BY <2>1, <2>2 DEF Streaks
  <1>3. Clocks(NoFile, s, x) /\ Remembers(NoFile, s, x)
    BY NoFileFacts DEF Remembers, Clocks, Since
  <1> QED
    BY <1>1, <1>2, <1>3 DEF FileInv

\* A process takes over what the file f knows, and what the file does not
\* know is lost.
LEMMA RestoredRoc ==
  ASSUME RocInv, NEW d \in 1..MaxCycle, Elapse(d), mon' = restore(file'), Forget(d),
         unsaved' = Nothing, step' = "cycle"
  PROVE  RocInv'
  <1> DEFINE x == Both(unsaved, lost)
             w == Waited(seen, d)
             old == file'.age > StreakAge
             y == Both(unsaved', lost')
  <1>1. /\ FileInv(file, seen, x) /\ seen \in HistoryType
        /\ unsaved \in MarksType /\ lost \in MarksType /\ d \in Nat
    BY RocParts, TicksAreNat
  <1>2. FileInv(file', w, x)
    BY <1>1, ElapseIsLater, LaterKeeps
  <1>3. w \in HistoryType
    BY <1>1, WaitedFacts
  <1>4. seen' = IF old THEN [w EXCEPT !.run = NoRun] ELSE w
    <2>1. seen' = [seen EXCEPT !.run = IF old THEN NoRun ELSE @, !.blind = Grown(@, d)]
      BY DEF Forget
    <2> QED
      BY <1>1, <2>1 DEF Waited, HistoryType
  <1>5. x.ended = lost.ended \cup unsaved.ended /\ x.told = lost.told \cup unsaved.told
    BY DEF Both
  <1>6. lost' = [ended |-> x.ended \cap Counting(mon'), told |-> x.told \ mon'.delivered]
    BY <1>5 DEF Forget
  <1> HIDE DEF x, w
  <1>7. x.ended \cap Counting(mon') \subseteq Keys /\ x.told \ mon'.delivered \subseteq Keys \X Users
    BY <1>1, <1>5 DEF MarksType
  <1>8. /\ lost' \in MarksType /\ lost'.ended = x.ended \cap Counting(mon')
        /\ lost'.told = x.told \ mon'.delivered
    BY <1>6, <1>7 DEF MarksType
  <1>9. y.ended = lost'.ended /\ y.told = lost'.told
    BY RocFacts DEF Both
  <1> HIDE DEF y, old
  <1>10. /\ seen' \in HistoryType /\ seen'.told = w.told /\ seen'.blind = w.blind
         /\ old => seen'.run = NoRun
         /\ ~old => seen'.run = w.run
    BY <1>3, <1>4, RocFacts DEF HistoryType
  <1>11. /\ file' \in FileType /\ file'.data \in MonitorType \cup {NoFile}
         /\ Clocks(file'.data, w, x) /\ Remembers(file'.data, w, x)
         /\ ~old => Streaks(file'.data, w, x)
    <2>1. file' \in FileType /\ file'.data \in MonitorType \cup {NoFile} /\ file'.age \in Nat
      BY <1>2, RocFacts DEF FileInv, FileType
    <2>2. ~old => file'.age <= StreakAge
      BY <2>1, RocFacts DEF old
    <2> QED
      BY <1>2, <2>1, <2>2 DEF FileInv
  <1>12. /\ mon' \in MonitorType /\ mon'.delivered = file'.data.delivered
         /\ mon'.powered = file'.data.powered /\ mon'.quorum = file'.data.quorum
         /\ old => mon'.high = NoRun
         /\ ~old => mon'.high = file'.data.high
         /\ file'.data # NoFile /\ ~old => mon' = file'.data
    <2>1. CASE file'.data = NoFile
      BY <2>1, NewMonitorFacts, NoFileFacts DEF restore
    <2>2. CASE file'.data # NoFile /\ old
      <3>1. file'.data \in MonitorType /\ mon' = [file'.data EXCEPT !.high = NoRun]
        BY <1>11, <2>2 DEF restore, old
      <3> QED
        BY <2>2, <3>1, RocFacts DEF MonitorType
    <2>3. CASE file'.data # NoFile /\ ~old
      BY <1>11, <2>3 DEF restore, old
    <2> QED
      BY <2>1, <2>2, <2>3
  <1>13. /\ mon'.high \in [Panels -> 0..Count] /\ w.run \in [Panels -> 0..Count]
         /\ \A p \in Panels : mon'.high[p] \in Nat /\ 0 <= seen'.run[p]
    BY <1>3, <1>10, <1>12, MonitorFields, HistoryFields, RocFacts
  <1>14. ASSUME NEW m, m.powered = mon'.powered, m.quorum = mon'.quorum,
                m.delivered = mon'.delivered
         PROVE  Clocks(m, seen', lost') /\ Remembers(m, seen', lost')
    <2>1. /\ mon'.powered = Never => mon'.quorum = Never
          /\ \/ "PSU" \in x.ended \/ Since(mon') = Never
             \/ w.blind # Never /\ Since(mon') <= w.blind
      BY <1>11, <1>12 DEF Clocks, Since
    <2>2. "PSU" \in x.ended /\ Since(mon') # Never => "PSU" \in lost'.ended
      BY <1>8, <2>1 DEF Counting, Since
    <2>3. Since(m) = Since(mon')
      BY <1>14 DEF Since
    <2>4. Clocks(m, seen', lost')
      BY <1>10, <1>14, <2>1, <2>2, <2>3 DEF Clocks
    <2>5. Remembers(m, seen', lost')
      BY <1>8, <1>10, <1>11, <1>12, <1>14 DEF Remembers
    <2> QED
      BY <2>4, <2>5
  <1>15. ~old => \A p \in Panels : mon'.high[p] <= seen'.run[p] \/ p \in lost'.ended
    <2>1. SUFFICES ASSUME ~old, NEW p \in Panels
                   PROVE  mon'.high[p] <= seen'.run[p] \/ p \in lost'.ended
      OBVIOUS
    <2>2. mon'.high[p] <= seen'.run[p] \/ p \in x.ended
      BY <1>10, <1>11, <1>12, <2>1 DEF Streaks
    <2>3. p \in x.ended => p \in lost'.ended \/ ~(mon'.high[p] > 0)
      BY <1>8 DEF Counting
    <2>4. ~(mon'.high[p] > 0) => mon'.high[p] <= seen'.run[p]
      <3>1. mon'.high[p] \in Nat /\ seen'.run[p] \in Nat
        BY <1>10, <1>13, HistoryFields
      <3> QED
        BY <3>1
    <2> QED
      BY <2>2, <2>3, <2>4
  <1>16. Streaks(mon', seen', lost')
    <2>1. CASE old
      <3>1. \A p \in Panels : mon'.high[p] = 0
        BY <1>12, <2>1, RocFacts
      <3> QED
        BY <1>13, <3>1 DEF Streaks
    <2>2. CASE ~old /\ file'.data = NoFile
      <3>1. \A p \in Panels : mon'.high[p] = 0
        BY <1>12, <2>2, NoFileFacts, RocFacts
      <3> QED
        BY <1>13, <3>1 DEF Streaks
    <2>3. CASE ~old /\ file'.data # NoFile
      <3>1. \A p \in Panels : p \notin mon'.panels => mon'.high[p] = 0
        BY <1>11, <1>12, <2>3 DEF Streaks
      <3> QED
        BY <1>15, <2>3, <3>1 DEF Streaks
    <2> QED
      BY <2>1, <2>2, <2>3
  <1>17. ProcessInv(mon', seen', lost')
    BY <1>12, <1>14, <1>16 DEF ProcessInv
  <1>18. FileInv(file', seen', y)
    <2>1. Clocks(file'.data, seen', y) /\ Remembers(file'.data, seen', y)
      BY <1>9, <1>12, <1>14 DEF Clocks, Remembers
    <2>2. CASE old
      <3>1. ~(file'.age <= StreakAge)
        <4>1. file'.age \in Nat
          BY <1>11, RocFacts DEF FileType
        <4> QED
          BY <2>2, <4>1, RocFacts DEF old
      <3> QED
        BY <1>11, <2>1, <3>1 DEF FileInv
    <2>3. CASE ~old
      <3>1. Streaks(file'.data, seen', y)
        BY <1>9, <1>11, <1>12, <1>15, <2>3 DEF Streaks
      <3> QED
        BY <1>11, <2>1, <3>1 DEF FileInv
    <2> QED
      BY <2>2, <2>3
  <1> QED
    BY <1>8, <1>10, <1>12, <1>17, <1>18, RocFacts, RocKept DEF RocSteps, y

LEMMA RocStartRoc ==
  ASSUME RocInv, RocStart
  PROVE  RocInv'
  <1>1. PICK d \in 1..MaxCycle :
          \/ Elapse(d) /\ mon' = restore(file') /\ Forget(d)
          \/ /\ file' = [data |-> NoFile, age |-> 0] /\ mon' = NewMonitor
             /\ seen' = NothingSeen /\ lost' = Nothing
    BY DEF RocStart
  <1>2. step' = "cycle" /\ unsaved' = Nothing
    BY DEF RocStart
  <1>3. CASE Elapse(d) /\ mon' = restore(file') /\ Forget(d)
    BY <1>2, <1>3, RestoredRoc
  <1>4. CASE /\ file' = [data |-> NoFile, age |-> 0] /\ mon' = NewMonitor
             /\ seen' = NothingSeen /\ lost' = Nothing
    <2>1. /\ ProcessInv(mon', seen', lost') /\ mon' \in MonitorType
          /\ FileInv(file', seen', Both(unsaved', lost'))
      BY <1>4, RocFacts, NewMonitorFacts, NewMonitorInv, NoFileInv
    <2> QED
      BY <1>2, <1>4, <2>1, RocFacts, RocKept DEF RocSteps
  <1> QED
    BY <1>1, <1>3, <1>4

LEMMA OtherRoc ==
  ASSUME RocInv, RecheckFails \/ Act \/ RocEnds \/ UNCHANGED rocVars
  PROVE  RocInv'
  <1>1. /\ seen' = seen /\ file' = file /\ unsaved' = unsaved /\ lost' = lost
        /\ \/ mon' = mon /\ step' = step
           \/ mon' = mon /\ step # "ended" /\ step' \in {"save", "notify"}
           \/ mon' = NewMonitor /\ step' = "ended"
    BY DEF RecheckFails, Act, RocEnds, rocVars
  <1>2. /\ step # "ended" => ProcessInv(mon, seen, lost)
        /\ FileInv(file, seen, Both(unsaved, lost)) /\ step \in RocSteps
        /\ step = "read" => mon.powered # Never
        /\ step = "act" => alarms(mon) # {}
        /\ mon \in MonitorType /\ seen \in HistoryType
        /\ unsaved \in MarksType /\ lost \in MarksType
    BY RocParts
  <1>3. FileInv(file', seen', Both(unsaved', lost'))
    BY <1>1, <1>2
  <1>4. /\ mon' \in MonitorType /\ step' \in RocSteps
        /\ step' # "ended" => ProcessInv(mon', seen', lost')
        /\ step' = "read" => mon'.powered # Never
        /\ step' = "act" => alarms(mon') # {}
    BY <1>1, <1>2, NewMonitorFacts DEF RocSteps
  <1> QED
    BY <1>1, <1>2, <1>3, <1>4, RocKept

LEMMA RocKeeps ==
  ASSUME RocInv, StationTypeOK, RocNext \/ UNCHANGED rocVars
  PROVE  RocInv'
  <1>1. CASE ReadAll
    <2>1. step = "read"
      BY <1>1 DEF ReadAll
    <2>2. PICK good \in SUBSET mon.panels : \E hot \in SUBSET good :
            ReadPanels(good, hot, mon.panels \ good, FALSE)
      BY <1>1 DEF ReadAll
    <2> QED
      BY <2>1, <2>2, ReadPanelsRoc
  <1>2. CASE StopWhileReading
    <2>1. step = "read"
      BY <1>2 DEF StopWhileReading
    <2>2. PICK good \in SUBSET mon.panels, hot \in SUBSET mon.panels, bad \in SUBSET mon.panels :
            hot \in SUBSET good /\ ReadPanels(good, hot, bad, TRUE)
      BY <1>2 DEF StopWhileReading
    <2> QED
      BY <2>1, <2>2, ReadPanelsRoc
  <1> QED
    BY <1>1, <1>2, PowerUnknownRoc, BeginCycleRoc, RecheckRoc, NotifyRoc, SaveRoc, RocStartRoc,
       OtherRoc DEF RocNext, RocStep

LEMMA RocInitHolds == ASSUME RocInit PROVE RocInv
  <1>1. /\ mon = NewMonitor /\ step = "cycle" /\ file = [data |-> NoFile, age |-> 0]
        /\ seen = NothingSeen /\ unsaved = Nothing /\ lost = Nothing
    BY DEF RocInit
  <1>2. /\ ProcessInv(mon, seen, lost) /\ FileInv(file, seen, Both(unsaved, lost))
    BY <1>1, RocFacts, NewMonitorInv, NoFileInv
  <1>3. file.data \in MonitorType \cup {NoFile} /\ file.age \in 0..(StreakAge + 1)
    BY <1>2 DEF FileInv, FileType
  <1>4. RocTypeOK
    BY <1>1, <1>3, NewMonitorFacts, RocFacts DEF RocTypeOK, HistoryType, MarksType
  <1> QED
    BY <1>1, <1>2, <1>4 DEF RocInv

-----------------------------------------------------------------------------
(* i2c-sensor-alerts *)

AlertsType == [pc : {"fetch", "check", "noData", "handler", "sleep", "ended"},
               next : DOMAIN Conditions, unsafe : SUBSET Conds, noData : 0..NoDataTrigger,
               streak : [Conds -> 0..Trigger], cooling : SUBSET AlertKeys]
PolledType == [unsafe : [Conds -> 0..Trigger], missed : 0..NoDataTrigger]

LEMMA AlertsFacts ==
  /\ Trigger \in Nat /\ Trigger > 0 /\ NoDataTrigger \in Nat /\ NoDataTrigger > 0
  /\ Len(Conditions) \in Nat /\ DOMAIN Conditions = 1..Len(Conditions) /\ 1 \in DOMAIN Conditions
  /\ NoStreak \in [Conds -> 0..Trigger] /\ \A c \in Conds : NoStreak[c] = 0
  /\ AlertsStarted \in AlertsType /\ AlertsStarted.noData = 0 /\ AlertsStarted.streak = NoStreak
  /\ AlertsStarted.pc = "fetch"
  /\ NothingPolled \in PolledType /\ NothingPolled.missed = 0 /\ NothingPolled.unsafe = NoStreak
  <1>1. /\ Trigger \in Nat /\ Trigger > 0 /\ NoDataTrigger \in Nat /\ NoDataTrigger > 0
        /\ Conditions \in Seq({Conditions[i] : i \in DOMAIN Conditions}) /\ Len(Conditions) > 0
    BY SensorAlertsAssumption
  <1>2. /\ Len(Conditions) \in Nat /\ DOMAIN Conditions = 1..Len(Conditions)
        /\ 1 \in DOMAIN Conditions
    BY <1>1
  <1>3. 0 \in 0..Trigger /\ 0 \in 0..NoDataTrigger
    BY <1>1
  <1>4. NoStreak \in [Conds -> 0..Trigger] /\ \A c \in Conds : NoStreak[c] = 0
    BY <1>3 DEF NoStreak
  <1>5. /\ AlertsStarted \in AlertsType /\ AlertsStarted.noData = 0
        /\ AlertsStarted.streak = NoStreak /\ AlertsStarted.pc = "fetch"
    BY <1>2, <1>3, <1>4 DEF AlertsStarted, AlertsType
  <1>6. /\ NothingPolled \in PolledType /\ NothingPolled.missed = 0
        /\ NothingPolled.unsafe = NoStreak
    BY <1>3, <1>4 DEF NothingPolled, PolledType
  <1> QED
    BY <1>1, <1>2, <1>4, <1>5, <1>6

\* What relates the process a to the history p of what it was shown.
AlertsBacked(a, p) ==
  /\ a \in AlertsType /\ p \in PolledType
  /\ \A c \in Conds : a.streak[c] <= p.unsafe[c]
  /\ a.noData <= p.missed + 1
  /\ a.pc = "check" => a.noData = 0
  /\ a.pc = "noData" => p.missed + 1 >= NoDataTrigger
  /\ a.pc = "handler" => a.noData <= p.missed \/ p.missed + 1 >= NoDataTrigger

LEMMA AlertsParts == AlertsInv <=> AlertsBacked(alerts, polled) /\ codes \in CodesStates
  BY DEF AlertsInv, AlertsTypeOK, AlertsBacked, AlertsType, PolledType

LEMMA AlertsKept ==
  ASSUME AlertsBacked(alerts', polled'), codes' \in CodesStates
  PROVE  AlertsInv'
  BY DEF AlertsInv, AlertsTypeOK, AlertsBacked, AlertsType, PolledType

LEMMA AlertsFields ==
  ASSUME NEW a \in AlertsType
  PROVE  /\ a.pc \in {"fetch", "check", "noData", "handler", "sleep", "ended"}
         /\ a.next \in DOMAIN Conditions /\ a.unsafe \in SUBSET Conds
         /\ a.noData \in 0..NoDataTrigger /\ a.noData \in Nat /\ a.noData <= NoDataTrigger
         /\ a.streak \in [Conds -> 0..Trigger] /\ a.cooling \in SUBSET AlertKeys
  <1>1. /\ a.pc \in {"fetch", "check", "noData", "handler", "sleep", "ended"}
        /\ a.next \in DOMAIN Conditions /\ a.unsafe \in SUBSET Conds
        /\ a.noData \in 0..NoDataTrigger
        /\ a.streak \in [Conds -> 0..Trigger] /\ a.cooling \in SUBSET AlertKeys
    BY DEF AlertsType
  <1> QED
    BY <1>1, AlertsFacts

LEMMA PolledFields ==
  ASSUME NEW p \in PolledType
  PROVE  /\ p.unsafe \in [Conds -> 0..Trigger] /\ p.missed \in Nat /\ p.missed <= NoDataTrigger
  <1>1. p.unsafe \in [Conds -> 0..Trigger] /\ p.missed \in 0..NoDataTrigger
    BY DEF PolledType
  <1> QED
    BY <1>1, AlertsFacts

LEMMA UpToFacts ==
  ASSUME NEW top \in Nat, NEW n \in 0..top
  PROVE  /\ UpTo(n, top) \in 0..top /\ n <= UpTo(n, top) /\ UpTo(n, top) <= n + 1
         /\ UpTo(n, top) = n + 1 \/ (n = top /\ UpTo(n, top) = top)
         /\ \A k \in 0..top : n <= k => UpTo(n, top) <= UpTo(k, top)
  BY DEF UpTo

\* One more poll without news.
Missed(p) == [p EXCEPT !.missed = UpTo(@, NoDataTrigger)]

LEMMA MissedFacts ==
  ASSUME NEW p \in PolledType
  PROVE  /\ Missed(p) \in PolledType /\ Missed(p).unsafe = p.unsafe
         /\ Missed(p).missed = UpTo(p.missed, NoDataTrigger)
  <1>1. UpTo(p.missed, NoDataTrigger) \in 0..NoDataTrigger
    BY PolledFields, AlertsFacts DEF UpTo
  <1> QED
    BY <1>1 DEF Missed, PolledType

LEMMA FetchFailsAlerts ==
  ASSUME AlertsInv, FetchFails
  PROVE  AlertsInv'
  <1>1. /\ alerts' = [alerts EXCEPT !.pc = "handler"] /\ polled' = Missed(polled)
        /\ codes' = codes
    BY DEF FetchFails, Missed
  <1>2. AlertsBacked(alerts, polled) /\ codes \in CodesStates
    BY AlertsParts
  <1>3. alerts \in AlertsType /\ polled \in PolledType
    BY <1>2 DEF AlertsBacked
  <1>4. /\ alerts' \in AlertsType /\ alerts'.pc = "handler" /\ alerts'.streak = alerts.streak
        /\ alerts'.noData = alerts.noData
    BY <1>1, <1>3 DEF AlertsType
  <1>5. /\ polled' \in PolledType /\ polled'.unsafe = polled.unsafe
        /\ polled'.missed = UpTo(polled.missed, NoDataTrigger)
    BY <1>1, <1>3, MissedFacts
  <1>6. alerts.noData \in Nat /\ polled.missed \in Nat /\ polled.missed <= NoDataTrigger
        /\ alerts.noData <= NoDataTrigger
    BY <1>3, AlertsFields, PolledFields
  <1>7. alerts.noData <= polled.missed + 1
    BY <1>2 DEF AlertsBacked
  <1>8. /\ alerts'.noData <= polled'.missed + 1
        /\ alerts'.noData <= polled'.missed \/ polled'.missed + 1 >= NoDataTrigger
    BY <1>4, <1>5, <1>6, <1>7, AlertsFacts DEF UpTo
  <1>9. \A c \in Conds : alerts'.streak[c] <= polled'.unsafe[c]
    BY <1>2, <1>4, <1>5 DEF AlertsBacked
  <1>10. AlertsBacked(alerts', polled')
    BY <1>4, <1>5, <1>8, <1>9 DEF AlertsBacked
  <1> QED
    BY <1>1, <1>2, <1>10, AlertsKept

LEMMA FetchUnexpectedAlerts ==
  ASSUME AlertsInv, FetchUnexpected
  PROVE  AlertsInv'
  <1>1. AlertsBacked(alerts, polled) /\ codes \in CodesStates /\ codes' = codes
    BY AlertsParts DEF FetchUnexpected
  <1>2. alerts \in AlertsType /\ polled \in PolledType
    BY <1>1 DEF AlertsBacked
  <1>3. CASE alerts' = [alerts EXCEPT !.pc = "sleep"] /\ polled' = Missed(polled)
    <2>1. /\ alerts' \in AlertsType /\ alerts'.pc = "sleep" /\ alerts'.streak = alerts.streak
          /\ alerts'.noData = alerts.noData
      BY <1>2, <1>3 DEF AlertsType
    <2>2. /\ polled' \in PolledType /\ polled'.unsafe = polled.unsafe
          /\ polled'.missed = UpTo(polled.missed, NoDataTrigger)
      BY <1>2, <1>3, MissedFacts
    <2>3. alerts.noData \in Nat /\ polled.missed \in Nat /\ polled.missed <= NoDataTrigger
      BY <1>2, AlertsFields, PolledFields
    <2>4. alerts.noData <= polled.missed + 1
      BY <1>1 DEF AlertsBacked
    <2>5. alerts'.noData <= polled'.missed + 1
      BY <2>1, <2>2, <2>3, <2>4, AlertsFacts DEF UpTo
    <2>6. \A c \in Conds : alerts'.streak[c] <= polled'.unsafe[c]
      BY <1>1, <2>1, <2>2 DEF AlertsBacked
    <2>7. AlertsBacked(alerts', polled')
      BY <2>1, <2>2, <2>5, <2>6 DEF AlertsBacked
    <2> QED
      BY <1>1, <2>7, AlertsKept
  <1>4. CASE /\ alerts' = [alerts EXCEPT !.pc = "sleep", !.noData = 0, !.cooling = @ \ {"no_data"}]
             /\ polled' = [polled EXCEPT !.missed = 0]
    <2>1. 0 \in 0..NoDataTrigger /\ alerts.cooling \ {"no_data"} \in SUBSET AlertKeys
      BY <1>2, AlertsFields, AlertsFacts
    <2>2. /\ alerts' \in AlertsType /\ alerts'.pc = "sleep" /\ alerts'.streak = alerts.streak
          /\ alerts'.noData = 0
      BY <1>2, <1>4, <2>1 DEF AlertsType
    <2>3. polled' \in PolledType /\ polled'.unsafe = polled.unsafe /\ polled'.missed = 0
      BY <1>2, <1>4, <2>1 DEF PolledType
    <2>4. \A c \in Conds : alerts'.streak[c] <= polled'.unsafe[c]
      BY <1>1, <2>2, <2>3 DEF AlertsBacked
    <2>5. AlertsBacked(alerts', polled')
      BY <2>2, <2>3, <2>4 DEF AlertsBacked
    <2> QED
      BY <1>1, <2>5, AlertsKept
  <1> QED
    BY <1>3, <1>4 DEF FetchUnexpected, Missed

LEMMA FetchStaleAlerts ==
  ASSUME AlertsInv, FetchStale
  PROVE  AlertsInv'
  <1> DEFINE pc == IF alerts.noData + 1 >= NoDataTrigger THEN "noData" ELSE "sleep"
  <1>1. /\ alerts' = [alerts EXCEPT !.noData = NoDataCounted, !.pc = pc]
        /\ polled' = Missed(polled) /\ codes' = codes
    BY DEF FetchStale, Missed
  <1>2. AlertsBacked(alerts, polled) /\ codes \in CodesStates
    BY AlertsParts
  <1>3. alerts \in AlertsType /\ polled \in PolledType
    BY <1>2 DEF AlertsBacked
  <1>4. alerts.noData \in Nat /\ polled.missed \in Nat /\ polled.missed <= NoDataTrigger
        /\ alerts.noData <= NoDataTrigger
    BY <1>3, AlertsFields, PolledFields
  <1>5. alerts.noData <= polled.missed + 1
    BY <1>2 DEF AlertsBacked
  <1>6. pc \in {"noData", "sleep"} /\ (pc = "noData" => alerts.noData + 1 >= NoDataTrigger)
    OBVIOUS
  <1>7. NoDataCounted \in 0..NoDataTrigger
    BY <1>4, AlertsFacts DEF NoDataCounted, UpTo
  <1> HIDE DEF pc
  <1>8. /\ alerts' \in AlertsType /\ alerts'.pc = pc /\ alerts'.streak = alerts.streak
        /\ alerts'.noData = NoDataCounted
    BY <1>1, <1>3, <1>6, <1>7 DEF AlertsType
  <1>9. /\ polled' \in PolledType /\ polled'.unsafe = polled.unsafe
        /\ polled'.missed = UpTo(polled.missed, NoDataTrigger)
    BY <1>1, <1>3, MissedFacts
  <1>10. /\ NoDataCounted <= UpTo(polled.missed, NoDataTrigger) + 1
         /\ alerts.noData + 1 >= NoDataTrigger
              => UpTo(polled.missed, NoDataTrigger) + 1 >= NoDataTrigger
    BY <1>4, <1>5, AlertsFacts DEF NoDataCounted, UpTo
  <1>11. \A c \in Conds : alerts'.streak[c] <= polled'.unsafe[c]
    BY <1>2, <1>8, <1>9 DEF AlertsBacked
  <1>12. AlertsBacked(alerts', polled')
    BY <1>6, <1>8, <1>9, <1>10, <1>11 DEF AlertsBacked
  <1> QED
    BY <1>1, <1>2, <1>12, AlertsKept

LEMMA FetchFreshAlerts ==
  ASSUME AlertsInv, FetchFresh
  PROVE  AlertsInv'
  <1>1. PICK u \in SUBSET Conds :
          alerts' = [alerts EXCEPT !.pc = "check", !.next = 1, !.unsafe = u,
                                   !.noData = 0, !.cooling = @ \ {"no_data"}]
    BY DEF FetchFresh
  <1>2. polled' = [polled EXCEPT !.missed = 0] /\ codes' = codes
    BY DEF FetchFresh
  <1>3. AlertsBacked(alerts, polled) /\ codes \in CodesStates
    BY AlertsParts
  <1>4. alerts \in AlertsType /\ polled \in PolledType
    BY <1>3 DEF AlertsBacked
  <1>5. 0 \in 0..NoDataTrigger /\ 1 \in DOMAIN Conditions
        /\ alerts.cooling \ {"no_data"} \in SUBSET AlertKeys
    BY <1>4, AlertsFields, AlertsFacts
  <1>6. /\ alerts' \in AlertsType /\ alerts'.pc = "check" /\ alerts'.streak = alerts.streak
        /\ alerts'.noData = 0
    BY <1>1, <1>4, <1>5 DEF AlertsType
  <1>7. polled' \in PolledType /\ polled'.unsafe = polled.unsafe /\ polled'.missed = 0
    BY <1>2, <1>4, <1>5 DEF PolledType
  <1>8. \A c \in Conds : alerts'.streak[c] <= polled'.unsafe[c]
    BY <1>3, <1>6, <1>7 DEF AlertsBacked
  <1>9. AlertsBacked(alerts', polled')
    BY <1>6, <1>7, <1>8 DEF AlertsBacked
  <1> QED
    BY <1>2, <1>3, <1>9, AlertsKept

LEMMA CheckedFacts ==
  ASSUME alerts \in AlertsType, NEW streak \in [Conds -> 0..Trigger],
         NEW cooling \in SUBSET AlertKeys
  PROVE  /\ Checked(streak, cooling) \in AlertsType
         /\ Checked(streak, cooling).streak = streak
         /\ Checked(streak, cooling).noData = alerts.noData
         /\ Checked(streak, cooling).pc \in {alerts.pc, "sleep"}
  <1> DEFINE pc == IF alerts.next = Len(Conditions) THEN "sleep" ELSE alerts.pc
             unsafe == IF alerts.next = Len(Conditions) THEN {} ELSE alerts.unsafe
             next == IF alerts.next = Len(Conditions) THEN 1 ELSE alerts.next + 1
             a == Checked(streak, cooling)
  <1>1. a = [alerts EXCEPT !.streak = streak, !.cooling = cooling, !.pc = pc,
                           !.unsafe = unsafe, !.next = next]
    BY DEF Checked
  <1>2. next \in DOMAIN Conditions
    BY AlertsFields, AlertsFacts
  <1>3. /\ pc \in {"fetch", "check", "noData", "handler", "sleep", "ended"}
        /\ pc \in {alerts.pc, "sleep"} /\ unsafe \in SUBSET Conds
    BY AlertsFields
  <1> HIDE DEF pc, unsafe, next, a
  <1>4. a \in AlertsType /\ a.streak = streak /\ a.noData = alerts.noData /\ a.pc = pc
    BY <1>1, <1>2, <1>3 DEF AlertsType
  <1> QED
    BY <1>3, <1>4 DEF a

LEMMA CheckSafeAlerts ==
  ASSUME AlertsInv, CheckSafe
  PROVE  AlertsInv'
  <1> DEFINE c == Conditions[alerts.next]
             s == [alerts.streak EXCEPT ![c] = 0]
             u == [polled.unsafe EXCEPT ![c] = 0]
  <1>1. /\ alerts.pc = "check" /\ alerts' = Checked(s, alerts.cooling)
        /\ polled' = [polled EXCEPT !.unsafe = u] /\ codes' = codes
    BY DEF CheckSafe
  <1>2. AlertsBacked(alerts, polled) /\ codes \in CodesStates
    BY AlertsParts
  <1>3. alerts \in AlertsType /\ polled \in PolledType
    BY <1>2 DEF AlertsBacked
  <1>4. /\ alerts.streak \in [Conds -> 0..Trigger] /\ polled.unsafe \in [Conds -> 0..Trigger]
        /\ 0 \in 0..Trigger /\ alerts.cooling \in SUBSET AlertKeys /\ polled.missed \in Nat
    BY <1>3, AlertsFields, PolledFields, AlertsFacts
  <1>5. s \in [Conds -> 0..Trigger] /\ u \in [Conds -> 0..Trigger]
    BY <1>4
  <1>6. \A k \in Conds : s[k] <= u[k]
    BY <1>2, <1>4 DEF AlertsBacked
  <1> HIDE DEF s, u
  <1>7. /\ alerts' \in AlertsType /\ alerts'.streak = s /\ alerts'.noData = alerts.noData
        /\ alerts'.pc \in {"check", "sleep"}
    BY <1>1, <1>3, <1>4, <1>5, CheckedFacts
  <1>8. polled' \in PolledType /\ polled'.unsafe = u /\ polled'.missed = polled.missed
    BY <1>1, <1>3, <1>5 DEF PolledType
  <1>9. AlertsBacked(alerts', polled')
    BY <1>1, <1>2, <1>6, <1>7, <1>8 DEF AlertsBacked
  <1> QED
    BY <1>1, <1>2, <1>9, AlertsKept

LEMMA CheckUnsafeAlerts ==
  ASSUME AlertsInv, CheckUnsafe
  PROVE  AlertsInv'
  <1> DEFINE c == Conditions[alerts.next]
             s == [alerts.streak EXCEPT ![c] = UpTo(@, Trigger)]
             u == [polled.unsafe EXCEPT ![c] = UpTo(@, Trigger)]
             raised(pc) == [alerts EXCEPT !.streak = s, !.next = 1, !.unsafe = {}, !.pc = pc]
  <1>1. /\ alerts.pc = "check" /\ codes' = codes
        /\ polled' = [polled EXCEPT !.unsafe = u]
        /\ \/ alerts' = Checked(s, alerts.cooling)
           \/ alerts' = Checked(s, alerts.cooling \cup {c})
           \/ alerts' = raised("handler") \/ alerts' = raised("sleep")
    BY DEF CheckUnsafe
  <1>2. AlertsBacked(alerts, polled) /\ codes \in CodesStates
    BY AlertsParts
  <1>3. alerts \in AlertsType /\ polled \in PolledType
    BY <1>2 DEF AlertsBacked
  <1>4. /\ alerts.streak \in [Conds -> 0..Trigger] /\ polled.unsafe \in [Conds -> 0..Trigger]
        /\ alerts.cooling \in SUBSET AlertKeys /\ polled.missed \in Nat /\ alerts.noData = 0
        /\ alerts.next \in DOMAIN Conditions
    BY <1>1, <1>2, <1>3, AlertsFields, PolledFields DEF AlertsBacked
  <1>5. c \in Conds /\ c \in AlertKeys
    BY <1>4 DEF Conds, AlertKeys
  <1>6. alerts.streak[c] \in 0..Trigger /\ polled.unsafe[c] \in 0..Trigger
        /\ alerts.streak[c] <= polled.unsafe[c]
    BY <1>2, <1>4, <1>5 DEF AlertsBacked
  <1> HIDE DEF c
  <1>7. /\ UpTo(alerts.streak[c], Trigger) \in 0..Trigger
        /\ UpTo(polled.unsafe[c], Trigger) \in 0..Trigger
        /\ UpTo(alerts.streak[c], Trigger) <= UpTo(polled.unsafe[c], Trigger)
    BY <1>6, AlertsFacts, UpToFacts
  <1>8. s \in [Conds -> 0..Trigger] /\ u \in [Conds -> 0..Trigger]
    BY <1>4, <1>7
  <1>9. \A k \in Conds : s[k] <= u[k]
    BY <1>2, <1>4, <1>7 DEF AlertsBacked
  <1> HIDE DEF s, u
  <1>10. alerts.cooling \cup {c} \in SUBSET AlertKeys /\ 1 \in DOMAIN Conditions
    BY <1>4, <1>5, AlertsFacts
  <1>11. ASSUME NEW pc \in {"handler", "sleep"}
         PROVE  /\ raised(pc) \in AlertsType /\ raised(pc).streak = s
                /\ raised(pc).noData = alerts.noData /\ raised(pc).pc = pc
    BY <1>3, <1>8, <1>10 DEF AlertsType
  <1> HIDE DEF raised
  <1>12. /\ alerts' \in AlertsType /\ alerts'.streak = s /\ alerts'.noData = 0
         /\ alerts'.pc \in {"check", "sleep", "handler"}
    BY <1>1, <1>3, <1>4, <1>8, <1>10, <1>11, CheckedFacts
  <1>13. polled' \in PolledType /\ polled'.unsafe = u /\ polled'.missed = polled.missed
    BY <1>1, <1>3, <1>8 DEF PolledType
  <1>14. 0 <= polled.missed /\ 0 <= polled.missed + 1
    BY <1>4
  <1>15. AlertsBacked(alerts', polled')
    BY <1>9, <1>12, <1>13, <1>14 DEF AlertsBacked
  <1> QED
    BY <1>1, <1>2, <1>15, AlertsKept

\* The no-data alert has been given: the count stands at its trigger.
LEMMA NoDataAlertedFacts ==
  ASSUME AlertsBacked(alerts, polled), polled.missed + 1 >= NoDataTrigger
  PROVE  AlertsBacked(NoDataAlerted, polled)
  <1>1. alerts \in AlertsType /\ polled \in PolledType
    BY DEF AlertsBacked
  <1>2. NoDataTrigger \in 0..NoDataTrigger /\ alerts.cooling \cup {"no_data"} \in SUBSET AlertKeys
        /\ NoDataTrigger <= polled.missed + 1
    BY <1>1, AlertsFields, PolledFields, AlertsFacts DEF AlertKeys
  <1>3. /\ NoDataAlerted \in AlertsType /\ NoDataAlerted.pc = "sleep"
        /\ NoDataAlerted.noData = NoDataTrigger /\ NoDataAlerted.streak = alerts.streak
    BY <1>1, <1>2 DEF NoDataAlerted, AlertsType
  <1> QED
    BY <1>1, <1>2, <1>3 DEF AlertsBacked

\* A move that keeps the counts.
LEMMA MoveFacts ==
  ASSUME AlertsBacked(alerts, polled), NEW pc \in {"fetch", "sleep", "handler"},
         pc = "handler" => polled.missed + 1 >= NoDataTrigger
  PROVE  AlertsBacked([alerts EXCEPT !.pc = pc], polled)
  <1> DEFINE a == [alerts EXCEPT !.pc = pc]
  <1>1. alerts \in AlertsType /\ polled \in PolledType
    BY DEF AlertsBacked
  <1>2. a \in AlertsType /\ a.pc = pc /\ a.noData = alerts.noData /\ a.streak = alerts.streak
    BY <1>1 DEF AlertsType
  <1> HIDE DEF a
  <1>3. AlertsBacked(a, polled)
    BY <1>1, <1>2 DEF AlertsBacked
  <1> QED
    BY <1>3 DEF a

LEMMA EndedFacts ==
  ASSUME NEW p \in PolledType
  PROVE  AlertsBacked([AlertsStarted EXCEPT !.pc = "ended"], p) /\ AlertsBacked(AlertsStarted, p)
  <1> DEFINE a == [AlertsStarted EXCEPT !.pc = "ended"]
  <1>1. /\ a \in AlertsType /\ a.pc = "ended" /\ a.noData = 0 /\ a.streak = NoStreak
    BY AlertsFacts DEF AlertsType
  <1>2. \A c \in Conds : NoStreak[c] <= p.unsafe[c]
    BY AlertsFacts, PolledFields
  <1>3. 0 <= p.missed + 1
    BY PolledFields
  <1> HIDE DEF a
  <1>4. AlertsBacked(a, p)
    BY <1>1, <1>2, <1>3 DEF AlertsBacked
  <1>5. AlertsBacked(AlertsStarted, p)
    BY <1>2, <1>3, AlertsFacts DEF AlertsBacked
  <1> QED
    BY <1>4, <1>5 DEF a

LEMMA AlertNoDataAlerts ==
  ASSUME AlertsInv, AlertNoData
  PROVE  AlertsInv'
  <1>1. /\ alerts.pc = "noData" /\ polled' = polled /\ codes' = codes
        /\ \/ alerts' = NoDataAlerted
           \/ alerts' = [alerts EXCEPT !.pc = "handler"]
           \/ alerts' = [alerts EXCEPT !.pc = "sleep"]
    BY DEF AlertNoData
  <1>2. AlertsBacked(alerts, polled) /\ codes \in CodesStates
    BY AlertsParts
  <1>3. polled.missed + 1 >= NoDataTrigger
    BY <1>1, <1>2 DEF AlertsBacked
  <1>4. AlertsBacked(alerts', polled)
    BY <1>1, <1>2, <1>3, NoDataAlertedFacts, MoveFacts
  <1> QED
    BY <1>1, <1>2, <1>4, AlertsKept

LEMMA HandlerAlerts ==
  ASSUME AlertsInv, Handler
  PROVE  AlertsInv'
  <1>1. /\ alerts.pc = "handler" /\ polled' = polled /\ codes' = codes
        /\ \/ alerts' = [alerts EXCEPT !.pc = "sleep", !.noData = NoDataCounted]
           \/ alerts.noData + 1 >= NoDataTrigger /\ alerts' = NoDataAlerted
           \/ alerts' = [AlertsStarted EXCEPT !.pc = "ended"]
    BY DEF Handler
  <1>2. AlertsBacked(alerts, polled) /\ codes \in CodesStates
    BY AlertsParts
  <1>3. alerts \in AlertsType /\ polled \in PolledType
    BY <1>2 DEF AlertsBacked
  <1>4. /\ alerts.noData \in Nat /\ alerts.noData <= NoDataTrigger /\ polled.missed \in Nat
        /\ alerts.noData <= polled.missed \/ polled.missed + 1 >= NoDataTrigger
    BY <1>1, <1>2, <1>3, AlertsFields, PolledFields DEF AlertsBacked
  <1>5. CASE alerts' = [alerts EXCEPT !.pc = "sleep", !.noData = NoDataCounted]
    <2>1. NoDataCounted \in 0..NoDataTrigger /\ NoDataCounted <= polled.missed + 1
      BY <1>4, AlertsFacts DEF NoDataCounted, UpTo
    <2>2. /\ alerts' \in AlertsType /\ alerts'.pc = "sleep" /\ alerts'.noData = NoDataCounted
          /\ alerts'.streak = alerts.streak
      BY <1>3, <1>5, <2>1 DEF AlertsType
    <2>3. AlertsBacked(alerts', polled)
      BY <1>2, <1>3, <2>1, <2>2 DEF AlertsBacked
    <2> QED
      BY <1>1, <1>2, <2>3, AlertsKept
  <1>6. CASE alerts.noData + 1 >= NoDataTrigger /\ alerts' = NoDataAlerted
    <2>1. polled.missed + 1 >= NoDataTrigger
      BY <1>4, <1>6, AlertsFacts
    <2> QED
      BY <1>1, <1>2, <1>6, <2>1, NoDataAlertedFacts, AlertsKept
  <1>7. CASE alerts' = [AlertsStarted EXCEPT !.pc = "ended"]
    BY <1>1, <1>2, <1>3, <1>7, EndedFacts, AlertsKept
  <1> QED
    BY <1>1, <1>5, <1>6, <1>7

LEMMA OtherAlerts ==
  ASSUME AlertsInv,
         AlertsSleep \/ AlertsKilled \/ AlertsStart \/ CodesChange \/ UNCHANGED alertsVars
  PROVE  AlertsInv'
  <1>1. AlertsBacked(alerts, polled) /\ codes \in CodesStates
    BY AlertsParts
  <1>2. alerts \in AlertsType /\ polled \in PolledType
    BY <1>1 DEF AlertsBacked
  <1>3. CASE AlertsSleep
    <2>1. PICK still \in SUBSET alerts.cooling :
            alerts' = [alerts EXCEPT !.pc = "fetch", !.cooling = still]
      BY <1>3 DEF AlertsSleep
    <2>2. still \in SUBSET AlertKeys /\ polled' = polled /\ codes' = codes
      BY <1>2, <1>3, AlertsFields DEF AlertsSleep
    <2>3. /\ alerts' \in AlertsType /\ alerts'.pc = "fetch" /\ alerts'.noData = alerts.noData
          /\ alerts'.streak = alerts.streak
      BY <1>2, <2>1, <2>2 DEF AlertsType
    <2>4. AlertsBacked(alerts', polled)
      BY <1>1, <1>2, <2>3 DEF AlertsBacked
    <2> QED
      BY <1>1, <2>2, <2>4, AlertsKept
  <1>4. CASE AlertsKilled
    BY <1>1, <1>2, <1>4, EndedFacts, AlertsKept DEF AlertsKilled
  <1>5. CASE AlertsStart
    BY <1>1, <1>5, AlertsFacts, EndedFacts, AlertsKept DEF AlertsStart
  <1>6. CASE CodesChange
    <2>1. alerts' = alerts /\ polled' = polled /\ codes' \in CodesStates
      BY <1>6 DEF CodesChange
    <2> QED
      BY <1>1, <2>1, AlertsKept
  <1>7. CASE UNCHANGED alertsVars
    <2>1. alerts' = alerts /\ polled' = polled /\ codes' = codes
      BY <1>7 DEF alertsVars
    <2> QED
      BY <1>1, <2>1, AlertsKept
  <1> QED
    BY <1>3, <1>4, <1>5, <1>6, <1>7

LEMMA AlertsKeeps ==
  ASSUME AlertsInv, AlertsNext \/ UNCHANGED alertsVars
  PROVE  AlertsInv'
  BY FetchFailsAlerts, FetchUnexpectedAlerts, FetchStaleAlerts, FetchFreshAlerts, CheckSafeAlerts, CheckUnsafeAlerts,
     AlertNoDataAlerts, HandlerAlerts, OtherAlerts DEF AlertsNext, AlertsStep

LEMMA AlertsInitHolds == ASSUME AlertsInit PROVE AlertsInv
  BY AlertsFacts, EndedFacts, AlertsParts DEF AlertsInit

-----------------------------------------------------------------------------
(* pi-health-server: the GPIO thread *)

HealthType == [pc : {"loop", "powerOff6", "powerOff21", "ended"}, loss : 0..NoLoss,
               pulse : 0..NoPulse, action : {"none", "poweroff", "reboot"}]
AcStates == {"fine", "lost", "unheard"}
PastType == [bad : SUBSET Lines, ac : AcStates]
SoftType == [status : {"idle", "pulsing", "pulse_complete", "failed"},
             at : [Pulsers -> {"none", "open", "pulse", "restore"}],
             high : BOOLEAN, holder : SUBSET Pulsers]

\* What the thread h acts on has got worse; p is the history.
Caused(h, p) ==
  /\ h \in HealthType /\ p \in PastType
  /\ h.pc = "powerOff6" => "gpio6" \in p.bad
  /\ h.pc = "powerOff21" => "gpio21" \in p.bad
  /\ h.pulse # NoPulse \/ h.action # "none" => "x728" \in p.bad

\* So has the line of every edge that waits, if it is in its worse state.
Waiting(es, ws, p) ==
  /\ es \in Seq(Lines) /\ Len(es) <= MaxEdges
  /\ \A i \in DOMAIN es : ws[es[i]] # (es[i] \in AcLines) => es[i] \in p.bad

\* One thread has the pin, and it is high through its pulse.
Pulsed(s) ==
  /\ s \in SoftType
  /\ \A w \in Pulsers :
       /\ s.at[w] \in {"pulse", "restore"} => s.holder = {w}
       /\ s.at[w] = "pulse" => s.high

LEMMA HealthParts ==
  ASSUME HealthInv
  PROVE  /\ Caused(health, past) /\ Waiting(edges, wires, past) /\ wires \in [Lines -> BOOLEAN]
         /\ health.pc = "ended" => edges = <<>>
         /\ Pulsed(soft) /\ health \in HealthType /\ past \in PastType
  BY DEF HealthInv, HealthTypeOK, Caused, Waiting, Pulsed, HealthType, PastType, AcStates, SoftType

LEMMA HealthKept ==
  ASSUME Caused(health', past'), Waiting(edges', wires', past'), wires' \in [Lines -> BOOLEAN],
         health'.pc = "ended" => edges' = <<>>, Pulsed(soft')
  PROVE  HealthInv'
  BY DEF HealthInv, HealthTypeOK, Caused, Waiting, Pulsed, HealthType, PastType, AcStates, SoftType

LEMMA HealthFacts ==
  /\ LossWindow \in Nat /\ RebootMin \in Nat /\ ShutdownMin \in Nat /\ MaxEdges \in Nat
  /\ NoLoss = LossWindow + 1 /\ NoPulse = ShutdownMin + 2
  /\ 0 \in 0..NoLoss /\ NoLoss \in 0..NoLoss /\ 0 \in 0..NoPulse /\ NoPulse \in 0..NoPulse
  /\ Up \in HealthType /\ Up.pc = "loop" /\ Up.pulse = NoPulse /\ Up.action = "none"
  /\ NoPast \in PastType
  <1>1. /\ LossWindow \in Nat /\ RebootMin \in Nat /\ ShutdownMin \in Nat /\ MaxEdges \in Nat
        /\ NoLoss = LossWindow + 1 /\ NoPulse = ShutdownMin + 2
    BY PiHealthAssumption DEF NoLoss, NoPulse
  <1>2. /\ 0 \in 0..NoLoss /\ NoLoss \in 0..NoLoss /\ 0 \in 0..NoPulse /\ NoPulse \in 0..NoPulse
    BY <1>1
  <1>3. Up \in HealthType /\ Up.pc = "loop" /\ Up.pulse = NoPulse /\ Up.action = "none"
    BY <1>2 DEF Up, HealthType
  <1>4. NoPast \in PastType
    BY DEF NoPast, PastType, AcStates
  <1> QED
    BY <1>1, <1>2, <1>3, <1>4

LEMMA HealthFields ==
  ASSUME NEW h \in HealthType
  PROVE  /\ h.pc \in {"loop", "powerOff6", "powerOff21", "ended"} /\ h.loss \in 0..NoLoss
         /\ h.pulse \in 0..NoPulse /\ h.action \in {"none", "poweroff", "reboot"}
         /\ h.loss \in Nat /\ h.loss <= NoLoss /\ h.pulse \in Nat /\ h.pulse <= NoPulse
  <1>1. /\ h.pc \in {"loop", "powerOff6", "powerOff21", "ended"} /\ h.loss \in 0..NoLoss
        /\ h.pulse \in 0..NoPulse /\ h.action \in {"none", "poweroff", "reboot"}
    BY DEF HealthType
  <1> QED
    BY <1>1, HealthFacts

\* No edge waits: nothing is to be shown of the line of one.
LEMMA NoneWaits == ASSUME NEW ws, NEW p PROVE Waiting(<<>>, ws, p)
  <1>1. <<>> \in Seq(Lines) /\ Len(<<>>) = 0 /\ DOMAIN <<>> = {}
    OBVIOUS
  <1> QED
    BY <1>1, HealthFacts DEF Waiting

\* The edge that is taken, and those that go on waiting.
LEMMA TakenFacts ==
  ASSUME Waiting(edges, wires, past), edges # <<>>
  PROVE  /\ Waiting(Tail(edges), wires, past)
         /\ Head(edges) \in Lines
         /\ wires[Head(edges)] # (Head(edges) \in AcLines) => Head(edges) \in past.bad
  <1>1. edges \in Seq(Lines) /\ Len(edges) <= MaxEdges /\ Len(edges) \in Nat /\ Len(edges) # 0
    BY DEF Waiting
  <1>2. 1 \in DOMAIN edges /\ Head(edges) = edges[1] /\ Head(edges) \in Lines
    BY <1>1
  <1>3. /\ Tail(edges) \in Seq(Lines) /\ Len(Tail(edges)) = Len(edges) - 1
        /\ \A i \in DOMAIN Tail(edges) : i + 1 \in DOMAIN edges /\ Tail(edges)[i] = edges[i + 1]
    BY <1>1
  <1>4. Len(Tail(edges)) <= MaxEdges
    BY <1>1, <1>3, HealthFacts
  <1>5. \A i \in DOMAIN Tail(edges) :
          wires[Tail(edges)[i]] # (Tail(edges)[i] \in AcLines) => Tail(edges)[i] \in past.bad
    <2> SUFFICES ASSUME NEW i \in DOMAIN Tail(edges)
                 PROVE  wires[Tail(edges)[i]] # (Tail(edges)[i] \in AcLines)
                          => Tail(edges)[i] \in past.bad
      OBVIOUS
    <2>1. i + 1 \in DOMAIN edges /\ Tail(edges)[i] = edges[i + 1]
      BY <1>3
    <2>2. wires[edges[i + 1]] # (edges[i + 1] \in AcLines) => edges[i + 1] \in past.bad
      BY <2>1 DEF Waiting
    <2> QED
      BY <2>1, <2>2, Zenon
  <1>6. Waiting(Tail(edges), wires, past)
    BY <1>3, <1>4, <1>5 DEF Waiting
  <1>7. wires[edges[1]] # (edges[1] \in AcLines) => edges[1] \in past.bad
    BY <1>2 DEF Waiting
  <1> QED
    BY <1>2, <1>6, <1>7

LEMMA HealthStartKeeps ==
  ASSUME HealthInv, HealthStart, UNCHANGED soft
  PROVE  HealthInv'
  <1> DEFINE pulse == IF wires["x728"] THEN 0 ELSE NoPulse
             bad == IF wires["x728"] THEN {"x728"} ELSE {}
  <1>1. /\ health' = [Up EXCEPT !.pulse = pulse] /\ edges' = <<>>
        /\ past' = [past EXCEPT !.bad = bad] /\ wires' = wires /\ soft' = soft
    BY DEF HealthStart
  <1>2. pulse \in 0..NoPulse /\ (pulse # NoPulse => "x728" \in bad) /\ bad \in SUBSET Lines
    BY HealthFacts DEF Lines
  <1> HIDE DEF pulse, bad
  <1>3. health' \in HealthType /\ health'.pc = "loop" /\ health'.pulse = pulse
        /\ health'.action = "none"
    BY <1>1, <1>2, HealthFacts DEF HealthType
  <1>4. past' \in PastType /\ past'.bad = bad
    BY <1>1, <1>2, HealthParts DEF PastType
  <1>5. Caused(health', past')
    BY <1>2, <1>3, <1>4 DEF Caused
  <1> QED
    BY <1>1, <1>5, HealthParts, NoneWaits, HealthKept

LEMMA TakeAcEdgeKeeps ==
  ASSUME HealthInv, TakeAcEdge, UNCHANGED soft
  PROVE  HealthInv'
  <1> DEFINE l == Head(edges)
  <1>1. /\ health.pc = "loop" /\ edges # <<>> /\ l \in AcLines
        /\ health' = maybe_trigger_poweroff(l) /\ edges' = Tail(edges)
        /\ wires' = wires /\ past' = past /\ soft' = soft
    BY DEF TakeAcEdge
  <1>2. /\ Caused(health, past) /\ Waiting(edges, wires, past) /\ wires \in [Lines -> BOOLEAN]
        /\ health \in HealthType /\ past \in PastType /\ Pulsed(soft)
    BY HealthParts
  <1>3. Waiting(Tail(edges), wires, past) /\ (~wires[l] => l \in past.bad)
    <2>1. /\ Waiting(Tail(edges), wires, past) /\ l \in Lines
          /\ wires[l] # (l \in AcLines) => l \in past.bad
      BY <1>1, <1>2, TakenFacts
    <2>2. ~wires[l] => wires[l] # (l \in AcLines)
      BY <1>1, Zenon
    <2> QED
      BY <2>1, <2>2
  <1> HIDE DEF l
  <1>4. Caused(health', past) /\ health'.pc # "ended"
    <2>1. CASE wires[l]
      BY <1>1, <1>2, <2>1 DEF maybe_trigger_poweroff
    <2>2. CASE ~wires[l] /\ l = "gpio6"
      <3>1. health' = [health EXCEPT !.pc = "powerOff6"]
        BY <1>1, <2>2 DEF maybe_trigger_poweroff
      <3>2. /\ health' \in HealthType /\ health'.pc = "powerOff6"
            /\ health'.pulse = health.pulse /\ health'.action = health.action
        BY <1>2, <3>1 DEF HealthType
      <3> QED
        BY <1>2, <1>3, <2>2, <3>2 DEF Caused
    <2>3. CASE ~wires[l] /\ l = "gpio21"
      <3>1. health' = Next21
        BY <1>1, <2>3 DEF maybe_trigger_poweroff
      <3>2. /\ health' \in HealthType /\ health'.pc \in {"loop", "powerOff21"}
            /\ health'.pulse = health.pulse /\ health'.action = health.action
        <4>1. CASE health.loss <= LossWindow
          BY <1>2, <3>1, <4>1, HealthFacts DEF Next21, HealthType
        <4>2. CASE ~(health.loss <= LossWindow)
          BY <1>1, <1>2, <3>1, <4>2, HealthFacts DEF Next21, HealthType
        <4> QED
          BY <4>1, <4>2
      <3> QED
        BY <1>2, <1>3, <2>3, <3>2 DEF Caused
    <2> QED
      BY <1>1, <2>1, <2>2, <2>3 DEF AcLines
  <1> QED
    BY <1>1, <1>2, <1>3, <1>4, HealthKept

\* The system action is issued, or could not be.
LEMMA IssuedFacts ==
  ASSUME NEW h, NEW p, NEW a \in {"poweroff", "reboot"}, NEW g \in Issued(h, a),
         Caused(h, p), "x728" \in p.bad, h.pc = "loop"
  PROVE  Caused(g, p) /\ g.pc = "loop"
  <1>1. g = h \/ g = [h EXCEPT !.action = a]
    BY DEF Issued
  <1>2. h \in HealthType /\ p \in PastType
    BY DEF Caused
  <1>3. g \in HealthType /\ g.pc = h.pc /\ g.pulse = h.pulse
    BY <1>1, <1>2 DEF HealthType
  <1> QED
    BY <1>2, <1>3 DEF Caused

LEMMA TakePowerEdgeKeeps ==
  ASSUME HealthInv, TakePowerEdge, UNCHANGED soft
  PROVE  HealthInv'
  <1> DEFINE low == [health EXCEPT !.pulse = NoPulse]
  <1>1. /\ health.pc = "loop" /\ edges # <<>> /\ Head(edges) = "x728"
        /\ health' \in handle_x728_power_edge /\ edges' = Tail(edges)
        /\ wires' = wires /\ past' = past /\ soft' = soft
    BY DEF TakePowerEdge
  <1>2. /\ Caused(health, past) /\ Waiting(edges, wires, past) /\ wires \in [Lines -> BOOLEAN]
        /\ health \in HealthType /\ past \in PastType /\ Pulsed(soft)
    BY HealthParts
  <1>3. Waiting(Tail(edges), wires, past) /\ (wires["x728"] => "x728" \in past.bad)
    <2>1. /\ Waiting(Tail(edges), wires, past)
          /\ wires["x728"] # ("x728" \in AcLines) => "x728" \in past.bad
      BY <1>1, <1>2, TakenFacts
    <2>2. "x728" \notin AcLines
      BY DEF AcLines
    <2>3. wires["x728"] => wires["x728"] # ("x728" \in AcLines)
      BY <2>2, Zenon
    <2> QED
      BY <2>1, <2>3
  <1>4. Caused(low, past) /\ low.pc = "loop"
    <2>1. /\ low \in HealthType /\ low.pc = health.pc /\ low.pulse = NoPulse
          /\ low.action = health.action
      BY <1>2, HealthFacts DEF HealthType
    <2> HIDE DEF low
    <2> QED
      BY <1>1, <1>2, <2>1 DEF Caused
  <1>5. Caused(health', past) /\ health'.pc = "loop"
    <2>1. CASE wires["x728"] /\ health.pulse = NoPulse
      <3>1. health' = [health EXCEPT !.pulse = 0]
        BY <1>1, <2>1 DEF handle_x728_power_edge
      <3>2. /\ health' \in HealthType /\ health'.pc = "loop"
        BY <1>1, <1>2, <3>1, HealthFacts DEF HealthType
      <3> QED
        BY <1>2, <1>3, <2>1, <3>2 DEF Caused
    <2>2. CASE wires["x728"] /\ health.pulse # NoPulse
      BY <1>1, <1>2, <2>2 DEF handle_x728_power_edge
    <2>3. CASE ~wires["x728"] /\ health.pulse = NoPulse
      <3>1. ~(NoPulse <= ShutdownMin)
        BY HealthFacts
      <3>2. handle_x728_power_edge = {health}
        BY <2>3, <3>1 DEF handle_x728_power_edge
      <3> QED
        BY <1>1, <1>2, <3>2
    <2>4. CASE ~wires["x728"] /\ health.pulse # NoPulse
      <3>1. "x728" \in past.bad
        BY <1>2, <2>4 DEF Caused
      <3>2. \/ health' = low \/ health' \in Issued(low, "poweroff")
            \/ health' \in Issued(low, "reboot")
        <4> DEFINE p == health.pulse
                   long == p > ShutdownMin
                   middle == p > RebootMin /\ p <= ShutdownMin
        <4>1. ~(long /\ middle)
          BY <1>2, HealthFields, HealthFacts
        <4>2. handle_x728_power_edge =
                CASE p = NoPulse -> {health}
                  [] long /\ p # NoPulse -> Issued(low, "poweroff")
                  [] middle -> Issued(low, "reboot")
                  [] OTHER -> {low}
          BY <2>4 DEF handle_x728_power_edge
        <4> HIDE DEF low, long, middle
        <4>3. p # NoPulse
          BY <2>4
        <4> HIDE DEF p
        <4>4. handle_x728_power_edge \in {Issued(low, "poweroff"), Issued(low, "reboot"), {low}}
          <5>1. CASE long
            BY <4>1, <4>2, <4>3, <5>1
          <5>2. CASE middle
            BY <4>1, <4>2, <4>3, <5>2
          <5>3. CASE ~long /\ ~middle
            BY <4>2, <4>3, <5>3
          <5> QED
            BY <5>1, <5>2, <5>3
        <4> QED
          BY <1>1, <4>4
      <3> HIDE DEF low
      <3> QED
        BY <1>4, <3>1, <3>2, IssuedFacts
    <2> QED
      BY <2>1, <2>2, <2>3, <2>4
  <1> QED
    BY <1>1, <1>2, <1>3, <1>5, HealthKept

LEMMA Flipped == ASSUME NEW b \in BOOLEAN, NEW c \in BOOLEAN PROVE (~b) # c => b = c
  OBVIOUS

LEMMA EdgeKeeps ==
  ASSUME HealthInv, Edge, UNCHANGED soft
  PROVE  HealthInv'
  <1>1. PICK l \in Lines :
          /\ wires' = [wires EXCEPT ![l] = ~@]
          /\ edges' = IF health.pc = "ended" THEN edges ELSE Append(edges, l)
          /\ past' = [bad |-> IF wires[l] = (l \in AcLines) THEN past.bad \cup {l} ELSE past.bad,
                      ac  |-> CASE l # "gpio6" -> past.ac
                                [] l = "gpio6" /\ ~wires[l] -> "fine"
                                [] l = "gpio6" /\ wires[l] ->
                                     IF health.pc = "ended" THEN "unheard" ELSE "lost"]
    BY DEF Edge
  <1>2. Len(edges) < MaxEdges /\ health' = health /\ soft' = soft
    BY DEF Edge
  <1>3. /\ Caused(health, past) /\ Waiting(edges, wires, past) /\ wires \in [Lines -> BOOLEAN]
        /\ health.pc = "ended" => edges = <<>>
        /\ health \in HealthType /\ past \in PastType /\ Pulsed(soft)
    BY HealthParts
  <1>4. wires' \in [Lines -> BOOLEAN]
    BY <1>1, <1>3
  <1> DEFINE bad == IF wires[l] = (l \in AcLines) THEN past.bad \cup {l} ELSE past.bad
             ac == CASE l # "gpio6" -> past.ac
                     [] l = "gpio6" /\ ~wires[l] -> "fine"
                     [] l = "gpio6" /\ wires[l] ->
                          IF health.pc = "ended" THEN "unheard" ELSE "lost"
  <1>5. past' = [bad |-> bad, ac |-> ac]
    BY <1>1
  <1>6. past.bad \in SUBSET Lines /\ past.ac \in AcStates
    BY <1>3 DEF PastType
  <1>7. bad \in SUBSET Lines /\ past.bad \subseteq bad
    BY <1>6
  <1>8. ac \in AcStates
    <2>1. CASE l # "gpio6"
      BY <1>6, <2>1
    <2>2. CASE l = "gpio6" /\ ~wires[l]
      BY <2>2, Zenon DEF AcStates
    <2>3. CASE l = "gpio6" /\ wires[l]
      <3>1. ac = IF health.pc = "ended" THEN "unheard" ELSE "lost"
        BY <2>3, Zenon
      <3> QED
        BY <3>1 DEF AcStates
    <2> QED
      BY <2>1, <2>2, <2>3
  <1>9. wires[l] = (l \in AcLines) => l \in bad
    OBVIOUS
  <1> HIDE DEF bad, ac
  <1>10. past' \in PastType /\ past'.bad = bad
    BY <1>5, <1>7, <1>8 DEF PastType
  <1>11. Caused(health', past')
    BY <1>2, <1>3, <1>7, <1>10 DEF Caused
  <1>12. CASE health.pc = "ended"
    <2>1. edges' = <<>>
      BY <1>1, <1>3, <1>12
    <2> QED
      BY <1>2, <1>3, <1>4, <1>11, <2>1, NoneWaits, HealthKept
  <1>13. CASE health.pc # "ended"
    <2>1. edges' = Append(edges, l)
      BY <1>1, <1>13
    <2>5. wires'[l] # (l \in AcLines) => l \in bad
      <3>1. wires'[l] = ~wires[l] /\ wires[l] \in BOOLEAN
        BY <1>1, <1>3
      <3>2. (~wires[l]) # (l \in AcLines) => wires[l] = (l \in AcLines)
        <4>1. (l \in AcLines) \in BOOLEAN
          OBVIOUS
        <4> QED
          BY <3>1, <4>1, Flipped
      <3> QED
        BY <1>9, <3>1, <3>2, Zenon
    <2>6. \A k \in Lines : k # l => wires'[k] = wires[k]
      BY <1>1, <1>3
    <2>9. edges \in Seq(Lines) /\ Len(edges) \in Nat
      BY <1>3 DEF Waiting
    <2>10. /\ edges' \in Seq(Lines) /\ Len(edges') <= MaxEdges
           /\ \A i \in DOMAIN edges' : (i \in DOMAIN edges /\ edges'[i] = edges[i]) \/ edges'[i] = l
      <3>1. edges' \in Seq(Lines) /\ Len(edges') = Len(edges) + 1
        BY <1>1, <2>1, <2>9
      <3>2. Len(edges') <= MaxEdges
        BY <1>2, <2>9, <3>1, HealthFacts
      <3>3. \A i \in 1..(Len(edges) + 1) :
              (i \in 1..Len(edges) /\ edges'[i] = edges[i]) \/ edges'[i] = l
        BY <2>1, <2>9
      <3>4. DOMAIN edges' = 1..(Len(edges) + 1) /\ DOMAIN edges = 1..Len(edges)
        BY <2>9, <3>1
      <3> QED
        BY <3>1, <3>2, <3>3, <3>4
    <2>11. ASSUME NEW i \in DOMAIN edges', wires'[edges'[i]] # (edges'[i] \in AcLines)
           PROVE  edges'[i] \in bad
      <3>1. CASE edges'[i] = l
        BY <2>5, <2>11, <3>1, Zenon
      <3>2. CASE edges'[i] # l
        <4>1. i \in DOMAIN edges /\ edges'[i] = edges[i]
          BY <2>10, <3>2
        <4>2. edges[i] \in Lines
          BY <2>9, <4>1
        <4>3. wires'[edges[i]] = wires[edges[i]]
          BY <2>6, <3>2, <4>1, <4>2, Zenon
        <4>4. wires[edges[i]] # (edges[i] \in AcLines)
          BY <2>11, <4>1, <4>3, Zenon
        <4>5. edges[i] \in past.bad
          BY <1>3, <4>1, <4>4, Zenon DEF Waiting
        <4> QED
          BY <1>7, <4>1, <4>5, Zenon
      <3> QED
        BY <3>1, <3>2
    <2>12. Waiting(edges', wires', past')
      <3>1. \A i \in DOMAIN edges' :
              wires'[edges'[i]] # (edges'[i] \in AcLines) => edges'[i] \in past'.bad
        BY <1>10, <2>11, Zenon
      <3> QED
        BY <2>10, <3>1 DEF Waiting
    <2> QED
      BY <1>2, <1>3, <1>4, <1>11, <1>13, <2>12, HealthKept
  <1> QED
    BY <1>12, <1>13

LEMMA HealthTickKeeps ==
  ASSUME HealthInv, HealthTick, UNCHANGED soft
  PROVE  HealthInv'
  <1> DEFINE loss == IF health.loss = NoLoss THEN health.loss ELSE health.loss + 1
             pulse == IF health.pulse > ShutdownMin THEN health.pulse ELSE health.pulse + 1
  <1>1. /\ health' = [health EXCEPT !.loss = loss, !.pulse = pulse] /\ edges' = edges
        /\ wires' = wires /\ past' = past /\ soft' = soft
    BY DEF HealthTick
  <1>2. /\ Caused(health, past) /\ Waiting(edges, wires, past) /\ wires \in [Lines -> BOOLEAN]
        /\ health.pc = "ended" => edges = <<>>
        /\ health \in HealthType /\ past \in PastType /\ Pulsed(soft)
    BY HealthParts
  <1>3. loss \in 0..NoLoss
    BY <1>2, HealthFields, HealthFacts
  <1>4. pulse \in 0..NoPulse /\ (pulse # NoPulse => health.pulse # NoPulse)
    BY <1>2, HealthFields, HealthFacts
  <1> HIDE DEF loss, pulse
  <1>5. /\ health' \in HealthType /\ health'.pc = health.pc /\ health'.pulse = pulse
        /\ health'.action = health.action
    BY <1>1, <1>2, <1>3, <1>4 DEF HealthType
  <1>6. Caused(health', past)
    BY <1>2, <1>4, <1>5 DEF Caused
  <1> QED
    BY <1>1, <1>2, <1>5, <1>6, HealthKept

LEMMA OtherHealth ==
  ASSUME HealthInv, UNCHANGED soft,
         LongPulse \/ HealthPowerOff \/ HealthPowerOffFails \/ HealthEnds \/ UNCHANGED healthVars
  PROVE  HealthInv'
  <1>1. /\ Caused(health, past) /\ Waiting(edges, wires, past) /\ wires \in [Lines -> BOOLEAN]
        /\ health.pc = "ended" => edges = <<>>
        /\ health \in HealthType /\ past \in PastType /\ Pulsed(soft)
    BY HealthParts
  <1>2. CASE LongPulse
    <2>1. /\ health.pc = "loop" /\ health.pulse # NoPulse /\ health' \in Issued(health, "poweroff")
          /\ edges' = edges /\ wires' = wires /\ past' = past /\ soft' = soft
      BY <1>2 DEF LongPulse
    <2>2. "x728" \in past.bad
      BY <1>1, <2>1 DEF Caused
    <2>3. Caused(health', past) /\ health'.pc = "loop"
      BY <1>1, <2>1, <2>2, IssuedFacts
    <2> QED
      BY <1>1, <2>1, <2>3, HealthKept
  <1>3. CASE HealthPowerOff \/ HealthPowerOffFails
    <2> DEFINE u == IF health.pc = "powerOff6" /\ past.ac = "lost" THEN "fine" ELSE past.ac
    <2>1. /\ health' = [health EXCEPT !.pc = "loop"] /\ past' = [past EXCEPT !.ac = u]
          /\ edges' = edges /\ wires' = wires /\ soft' = soft
      BY <1>3 DEF HealthPowerOff, HealthPowerOffFails, Answered
    <2>2. u \in AcStates
      BY <1>1 DEF PastType, AcStates
    <2> HIDE DEF u
    <2>3. past' \in PastType /\ past'.bad = past.bad
      BY <1>1, <2>1, <2>2 DEF PastType
    <2>4. /\ health' \in HealthType /\ health'.pc = "loop" /\ health'.pulse = health.pulse
          /\ health'.action = health.action
      BY <1>1, <2>1 DEF HealthType
    <2>5. Caused(health', past')
      BY <1>1, <2>3, <2>4 DEF Caused
    <2>6. Waiting(edges', wires', past')
      BY <1>1, <2>1, <2>3 DEF Waiting
    <2> QED
      BY <1>1, <2>1, <2>4, <2>5, <2>6, HealthKept
  <1>4. CASE HealthEnds
    <2> DEFINE u == IF past.ac = "lost" THEN "unheard" ELSE past.ac
    <2>1. /\ health' = [Up EXCEPT !.pc = "ended"] /\ edges' = <<>>
          /\ past' = [past EXCEPT !.ac = u] /\ wires' = wires /\ soft' = soft
      BY <1>4 DEF HealthEnds
    <2>2. /\ health' \in HealthType /\ health'.pc = "ended" /\ health'.pulse = NoPulse
          /\ health'.action = "none"
      BY <2>1, HealthFacts DEF HealthType
    <2>3. u \in AcStates
      BY <1>1 DEF PastType, AcStates
    <2> HIDE DEF u
    <2>4. past' \in PastType
      BY <1>1, <2>1, <2>3 DEF PastType
    <2>5. Caused(health', past')
      BY <2>2, <2>4 DEF Caused
    <2> QED
      BY <1>1, <2>1, <2>5, NoneWaits, HealthKept
  <1>5. CASE UNCHANGED healthVars
    <2>1. health' = health /\ edges' = edges /\ past' = past /\ wires' = wires /\ soft' = soft
      BY <1>5 DEF healthVars
    <2> QED
      BY <1>1, <2>1, HealthKept
  <1> QED
    BY <1>2, <1>3, <1>4, <1>5

-----------------------------------------------------------------------------
(* pi-health-server: the soft shutdown *)

LEMMA SoftKeeps ==
  ASSUME Pulsed(soft), SoftNext
  PROVE  Pulsed(soft')
  <1>1. PICK w \in Pulsers : RequestSoftShutdown(w) \/ OpenPin(w) \/ OpenPinFails(w)
                             \/ PulseDone(w) \/ PulseFails(w) \/ Restore(w)
    BY DEF SoftNext
  <1>2. soft \in SoftType /\ soft.at \in [Pulsers -> {"none", "open", "pulse", "restore"}]
        /\ soft.high \in BOOLEAN /\ soft.holder \in SUBSET Pulsers
    BY DEF Pulsed, SoftType
  <1>3. \A v \in Pulsers : /\ soft.at[v] \in {"pulse", "restore"} => soft.holder = {v}
                           /\ soft.at[v] = "pulse" => soft.high
    BY DEF Pulsed
  <1>4. CASE RequestSoftShutdown(w)
    <2>1. soft' \in SoftType /\ soft'.at = [soft.at EXCEPT ![w] = "open"]
          /\ soft'.holder = soft.holder /\ soft'.high = soft.high
      BY <1>2, <1>4 DEF RequestSoftShutdown, SoftType
    <2> QED
      BY <1>2, <1>3, <2>1 DEF Pulsed
  <1>5. CASE OpenPin(w)
    <2>1. soft' \in SoftType /\ soft'.at = [soft.at EXCEPT ![w] = "pulse"]
          /\ soft'.holder = {w} /\ soft'.high = TRUE
      BY <1>2, <1>5 DEF OpenPin, SoftType
    <2>2. \A v \in Pulsers : soft.at[v] \notin {"pulse", "restore"}
      BY <1>3, <1>5 DEF OpenPin
    <2> QED
      BY <1>2, <2>1, <2>2 DEF Pulsed
  <1>6. CASE OpenPinFails(w)
    <2>1. soft' \in SoftType /\ soft'.at = [soft.at EXCEPT ![w] = "none"]
          /\ soft'.holder = soft.holder /\ soft'.high = soft.high
      BY <1>2, <1>6 DEF OpenPinFails, SoftType
    <2> QED
      BY <1>2, <1>3, <2>1 DEF Pulsed
  <1>7. CASE PulseDone(w)
    <2>1. soft' \in SoftType /\ soft'.at = [soft.at EXCEPT ![w] = "restore"]
          /\ soft'.holder = soft.holder
      BY <1>2, <1>7 DEF PulseDone, SoftType
    <2>2. \A v \in Pulsers : v # w => soft.at[v] \notin {"pulse", "restore"}
      BY <1>1, <1>3, <1>7 DEF PulseDone
    <2>3. soft.holder = {w}
      BY <1>3, <1>7 DEF PulseDone
    <2> QED
      BY <1>2, <2>1, <2>2, <2>3 DEF Pulsed
  <1>8. CASE PulseFails(w)
    <2>1. soft' \in SoftType /\ soft'.at = [soft.at EXCEPT ![w] = "restore"]
          /\ soft'.holder = soft.holder /\ soft'.high = soft.high
      BY <1>2, <1>8 DEF PulseFails, SoftType
    <2>2. soft.holder = {w}
      BY <1>3, <1>8 DEF PulseFails
    <2> QED
      BY <1>2, <1>3, <2>1, <2>2 DEF Pulsed
  <1>9. CASE Restore(w)
    <2>1. soft' \in SoftType /\ soft'.at = [soft.at EXCEPT ![w] = "none"]
      BY <1>2, <1>9 DEF Restore, SoftType
    <2>2. \A v \in Pulsers : v # w => soft.at[v] \notin {"pulse", "restore"}
      BY <1>1, <1>3, <1>9 DEF Restore
    <2> QED
      BY <1>2, <2>1, <2>2 DEF Pulsed
  <1> QED
    BY <1>1, <1>4, <1>5, <1>6, <1>7, <1>8, <1>9

LEMMA HealthKeeps ==
  ASSUME HealthInv,
         \/ HealthNext /\ UNCHANGED soft
         \/ SoftNext /\ UNCHANGED healthVars
         \/ UNCHANGED <<healthVars, soft>>
  PROVE  HealthInv'
  <1>1. CASE HealthNext /\ UNCHANGED soft
    BY <1>1, HealthStartKeeps, TakeAcEdgeKeeps, TakePowerEdgeKeeps, EdgeKeeps,
       HealthTickKeeps, OtherHealth DEF HealthNext, HealthStep
  <1>2. CASE SoftNext /\ UNCHANGED healthVars
    <2>1. health' = health /\ edges' = edges /\ past' = past /\ wires' = wires
      BY <1>2 DEF healthVars
    <2> QED
      BY <1>2, <2>1, HealthParts, SoftKeeps, HealthKept
  <1>3. CASE UNCHANGED <<healthVars, soft>>
    BY <1>3, OtherHealth
  <1> QED
    BY <1>1, <1>2, <1>3

LEMMA HealthInitHolds == ASSUME HealthInit PROVE HealthInv
  <1>1. /\ health = [Up EXCEPT !.pc = "ended"] /\ edges = <<>> /\ past = NoPast
        /\ wires = [l \in Lines |-> l \in AcLines] /\ soft = SoftIdle
    BY DEF HealthInit
  <1>2. /\ health \in HealthType /\ health.pc = "ended" /\ health.pulse = NoPulse
        /\ health.action = "none"
    BY <1>1, HealthFacts DEF HealthType
  <1>3. Caused(health, past)
    BY <1>1, <1>2, HealthFacts DEF Caused
  <1>4. Waiting(edges, wires, past)
    BY <1>1, NoneWaits
  <1>5. wires \in [Lines -> BOOLEAN]
    <2>1. \A l \in Lines : (l \in AcLines) \in BOOLEAN
      OBVIOUS
    <2> QED
      BY <1>1, <2>1
  <1>6. Pulsed(soft)
    <2>1. /\ soft \in SoftType /\ \A w \in Pulsers : soft.at[w] = "none"
      BY <1>1 DEF SoftIdle, SoftType
    <2> QED
      BY <2>1 DEF Pulsed
  <1> QED
    BY <1>1, <1>3, <1>4, <1>5, <1>6
       DEF HealthInv, HealthTypeOK, Caused, Waiting, Pulsed, HealthType, PastType, AcStates, SoftType

-----------------------------------------------------------------------------
(* The four together *)

LEMMA StationKeeps ==
  ASSUME StationTypeOK, [Next]_vars
  PROVE  StationTypeOK'
  <1>1. power \in {"on", "off"} /\ lvhv \in BOOLEAN
    BY DEF StationTypeOK
  <1>2. CASE WatchNext
    BY <1>1, <1>2 DEF StationTypeOK, stationVars, PowerOffAcked, PowerOffFails,
       WatchNext, WatchStep, Probe, Evaluate, Sleep, WatchPowerOff, WatchPowerOffRaises,
       WatchKilled, WatchStart, NetChanges
  <1>3. CASE RocNext
    BY <1>1, <1>3 DEF StationTypeOK, stationVars, PowerOffAcked, PowerOffFails,
       RocNext, RocStep, PowerUnknown, BeginCycle, ReadAll, StopWhileReading, ReadPanels, Recheck,
       RecheckFails, Act, Notify, Save, RocEnds, RocStart
  <1>4. CASE AlertsNext
    BY <1>1, <1>4 DEF StationTypeOK, stationVars, PowerOffAcked, PowerOffFails,
       AlertsNext, AlertsStep, FetchFails, FetchUnexpected, FetchStale, FetchFresh, CheckSafe, CheckUnsafe,
       AlertNoData, Handler, AlertsSleep, AlertsKilled, AlertsStart, CodesChange, Alert
  <1>5. CASE HealthNext
    BY <1>1, <1>5 DEF StationTypeOK, stationVars,
       HealthNext, HealthStep, HealthStart, TakeAcEdge, TakePowerEdge, LongPulse,
       HealthPowerOff, HealthPowerOffFails, HealthEnds, Edge, HealthTick
  <1>6. CASE Operator
    <2>1. power' \in {"on", "off"}
      BY <1>1, <1>6 DEF Operator
    <2>2. lvhv' \in BOOLEAN
      BY <1>1, <1>6, Zenon DEF Operator
    <2> QED
      BY <2>1, <2>2 DEF StationTypeOK
  <1>7. CASE UNCHANGED stationVars
    BY <1>1, <1>7 DEF StationTypeOK, stationVars
  <1> QED
    BY <1>2, <1>3, <1>4, <1>5, <1>6, <1>7
       DEF Next, Watching, Monitoring, Alerting, Minding, Pulsing, Others, vars, stationVars

LEMMA ProtectionInitHolds == Init => ProtectionInv
  BY WatchInitHolds, RocInitHolds, AlertsInitHolds, HealthInitHolds
     DEF Init, ProtectionInv, StationInit, StationTypeOK

LEMMA ProtectionKeeps == ProtectionInv /\ [Next]_vars => ProtectionInv'
  <1> SUFFICES ASSUME ProtectionInv, [Next]_vars
               PROVE  ProtectionInv'
    OBVIOUS
  <1>1. focus \in Parts /\ StationTypeOK /\ WatchInv /\ RocInv /\ AlertsInv /\ HealthInv
    BY DEF ProtectionInv
  <1>2. /\ focus' = focus
        /\ WatchNext \/ UNCHANGED watchVars
        /\ RocNext \/ UNCHANGED rocVars
        /\ AlertsNext \/ UNCHANGED alertsVars
        /\ \/ HealthNext /\ UNCHANGED soft
           \/ SoftNext /\ UNCHANGED healthVars
           \/ UNCHANGED <<healthVars, soft>>
    BY DEF Next, Watching, Monitoring, Alerting, Minding, Pulsing, Others, vars
  <1> QED
    BY <1>1, <1>2, StationKeeps, WatchKeeps, RocKeeps, AlertsKeeps, HealthKeeps
       DEF ProtectionInv

-----------------------------------------------------------------------------
\* What each monitor knows never runs ahead of what it was shown, whatever
\* the operator, lvhv-server and restarts do; what a crash makes a temperature
\* monitor forget is accounted for.
THEOREM ProtectionInvariant == Spec => []ProtectionInv
  BY ProtectionInitHolds, ProtectionKeeps, PTL DEF Spec

\* Every part of the state keeps its type.
THEOREM ProtectionTypeOK == Spec => []TypeOK
  <1>1. ProtectionInv => TypeOK
    BY DEF ProtectionInv, WatchInv, RocInv, AlertsInv, HealthInv, TypeOK
  <1> QED
    BY <1>1, ProtectionInvariant, PTL

LEMMA AlarmsAreJustified ==
  ASSUME RocInv, step = "act"
  PROVE  /\ alarms(mon) # {}
         /\ \A k \in alarms(mon) \ lost.ended :
              IF k = "PSU" THEN seen.blind = Missing + 1 ELSE seen.run[k] >= Count
  <1>1. /\ ProcessInv(mon, seen, lost) /\ alarms(mon) # {}
        /\ mon \in MonitorType /\ seen \in HistoryType
    BY RocParts
  <1>2. ASSUME NEW k \in alarms(mon) \ lost.ended, k = "PSU"
        PROVE  seen.blind = Missing + 1
    <2>1. Since(mon) # Never /\ Since(mon) > Missing
      BY <1>1, <1>2, MonitorFields, RocFacts DEF alarms, Since
    <2>2. seen.blind # Never /\ Since(mon) <= seen.blind
      BY <1>1, <1>2, <2>1 DEF ProcessInv, Clocks
    <2>3. Since(mon) \in Nat /\ seen.blind \in Nat /\ seen.blind <= Never
      BY <1>1, MonitorFields, HistoryFields, RocFacts DEF Since
    <2> QED
      BY <2>1, <2>2, <2>3, RocFacts
  <1>3. ASSUME NEW k \in alarms(mon) \ lost.ended, k # "PSU"
        PROVE  seen.run[k] >= Count
    <2>1. k \in mon.panels /\ mon.high[k] >= Count /\ k \in Panels
      BY <1>1, <1>3, MonitorFields DEF alarms
    <2>2. mon.high[k] <= seen.run[k]
      BY <1>1, <1>3, <2>1 DEF ProcessInv, Streaks
    <2>3. mon.high[k] \in 0..Count /\ seen.run[k] \in 0..Count
      BY <1>1, <2>1, MonitorFields, HistoryFields
    <2> QED
      BY <2>1, <2>2, <2>3, RocFacts
  <1> QED
    BY <1>1, <1>2, <1>3

LEMMA ChecksAreJustified ==
  ASSUME AlertsInv
  PROVE  /\ alerts.pc = "check" /\ Conditions[alerts.next] \in alerts.unsafe
              /\ condition_ready(Conditions[alerts.next])
              => polled.unsafe[Conditions[alerts.next]] + 1 >= Trigger
         /\ alerts.pc = "noData" => polled.missed + 1 >= NoDataTrigger
         /\ alerts.pc = "handler" /\ alerts.noData + 1 >= NoDataTrigger
              => polled.missed + 1 >= NoDataTrigger
  <1> DEFINE c == Conditions[alerts.next]
  <1>1. AlertsBacked(alerts, polled) /\ alerts \in AlertsType /\ polled \in PolledType
    BY AlertsParts DEF AlertsBacked
  <1>2. c \in Conds
    BY <1>1, AlertsFields DEF Conds
  <1>3. alerts.streak[c] \in 0..Trigger /\ polled.unsafe[c] \in 0..Trigger
        /\ alerts.streak[c] <= polled.unsafe[c]
    BY <1>1, <1>2, AlertsFields, PolledFields DEF AlertsBacked
  <1> HIDE DEF c
  <1>4. condition_ready(c) => polled.unsafe[c] + 1 >= Trigger
    BY <1>3, AlertsFacts DEF condition_ready
  <1>5. alerts.pc = "noData" => polled.missed + 1 >= NoDataTrigger
    BY <1>1 DEF AlertsBacked
  <1>6. alerts.pc = "handler" => alerts.noData <= polled.missed \/ polled.missed + 1 >= NoDataTrigger
    BY <1>1 DEF AlertsBacked
  <1>7. alerts.noData \in Nat /\ polled.missed \in Nat
    BY <1>1, AlertsFields, PolledFields
  <1>8. alerts.pc = "handler" /\ alerts.noData + 1 >= NoDataTrigger
          => polled.missed + 1 >= NoDataTrigger
    BY <1>6, <1>7, AlertsFacts
  <1> QED
    BY <1>4, <1>5, <1>8 DEF c

\* No monitor switches the power off without cause: for any grace period,
\* counts, conditions and panels, and whatever restarts lie between, but for
\* what a temperature monitor that died had not saved.
THEOREM ProtectionShutdownIsJustified == Spec => []ShutdownIsJustified
  <1>1. ASSUME ProtectionInv PROVE ShutdownIsJustified
    <2>1. WatchInv /\ RocInv /\ AlertsInv /\ HealthInv
      BY <1>1 DEF ProtectionInv
    <2>2. watch.pc = "powerOff" => sinceOk >= Grace
      <3>1. watch.pc = "powerOff" => watch.outage = Grace
        BY <2>1 DEF WatchInv
      <3>2. watch.outage # NoOutage => watch.outage <= sinceOk
        BY <2>1 DEF WatchInv
      <3> QED
        BY <2>1, <3>1, <3>2, WatchFields, WatchFacts
    <2>3. step = "act" => /\ alarms(mon) # {}
                          /\ \A k \in alarms(mon) \ lost.ended :
                               IF k = "PSU" THEN seen.blind = Missing + 1
                               ELSE seen.run[k] >= Count
      BY <2>1, AlarmsAreJustified
    <2>4. /\ health.pc = "powerOff6" => "gpio6" \in past.bad
          /\ health.pc = "powerOff21" => "gpio21" \in past.bad
          /\ health.action # "none" => "x728" \in past.bad
          /\ \A w \in Pulsers : soft.at[w] = "pulse" => soft.high /\ soft.holder = {w}
      BY <2>1 DEF HealthInv
    <2> QED
      BY <2>1, <2>2, <2>3, <2>4, ChecksAreJustified DEF ShutdownIsJustified
  <1> QED
    BY <1>1, ProtectionInvariant, PTL

\* Nobody is told of the same incident twice, whatever readings fail and
\* however often the monitor is restarted on the same boot, but for a message
\* that went out after the last save of a process that died.
THEOREM ProtectionToldOnce == Spec => []ToldOncePerIncident
  <1>1. ASSUME ProtectionInv PROVE ToldOncePerIncident
    <2>1. SUFFICES ASSUME step = "notify"
                   PROVE  Pending \cap seen.told \subseteq lost.told
      BY DEF ToldOncePerIncident
    <2>2. seen.told \ lost.told \subseteq mon.delivered
      BY <1>1, <2>1 DEF ProtectionInv, RocInv, ProcessInv, Remembers
    <2> QED
      BY <2>2 DEF Pending
  <1> QED
    BY <1>1, ProtectionInvariant, PTL

=============================================================================
