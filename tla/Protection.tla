------------------------------- MODULE Protection -------------------------------
(***************************************************************************)
(* The monitors that protect a station by switching its LV off:            *)
(* network-watch, roc-temperature-monitor, i2c-sensor-alerts and           *)
(* pi-health-server, with the soft shutdown of the latter.                 *)
(*                                                                         *)
(* They share nothing but the power, and each takes a change of the power  *)
(* by another for one by the operator.  So each is explored beside an      *)
(* operator who may switch the power at any time; `focus` says which.      *)
(***************************************************************************)
EXTENDS NetworkWatch, RocMonitor, SensorAlerts, PiHealth

VARIABLE focus

vars == <<focus, power, lvhv, watchVars, rocVars, alertsVars, healthVars, soft>>

Parts == {"watch", "roc", "alerts", "health", "soft"}

TypeOK ==
  /\ focus \in Parts
  /\ StationTypeOK /\ WatchTypeOK /\ RocTypeOK /\ AlertsTypeOK /\ HealthTypeOK

Init ==
  /\ focus \in Parts
  /\ StationInit /\ WatchInit /\ RocInit /\ AlertsInit /\ HealthInit
  /\ focus # "watch" => net = Endpoints
  /\ focus # "alerts" => codes = "ok"

Watching == focus = "watch" /\ WatchNext /\ UNCHANGED <<focus, rocVars, alertsVars, healthVars, soft>>
Monitoring == focus = "roc" /\ RocNext /\ UNCHANGED <<focus, watchVars, alertsVars, healthVars, soft>>
Alerting == focus = "alerts" /\ AlertsNext /\ UNCHANGED <<focus, watchVars, rocVars, healthVars, soft>>
Minding ==
  /\ focus = "health" /\ HealthNext
  /\ UNCHANGED <<focus, watchVars, rocVars, alertsVars, soft>>
Pulsing ==
  /\ focus = "soft" /\ SoftNext
  /\ UNCHANGED <<focus, stationVars, watchVars, rocVars, alertsVars, healthVars>>
Others == Operator /\ UNCHANGED <<focus, watchVars, rocVars, alertsVars, healthVars, soft>>

Next == Watching \/ Monitoring \/ Alerting \/ Minding \/ Pulsing \/ Others

\* Each process goes on, and systemd restarts one that has ended; failures,
\* stops and the environment are under no obligation.
Spec ==
  /\ Init /\ [][Next]_vars
  /\ WF_vars(focus = "watch" /\ WatchStep /\ UNCHANGED <<focus, rocVars, alertsVars, healthVars, soft>>)
  /\ WF_vars(focus = "roc" /\ RocStep /\ UNCHANGED <<focus, watchVars, alertsVars, healthVars, soft>>)
  /\ WF_vars(focus = "health" /\ HealthStep
             /\ UNCHANGED <<focus, watchVars, rocVars, alertsVars, soft>>)
  /\ WF_vars(focus = "alerts" /\ AlertsStep /\ UNCHANGED <<focus, watchVars, rocVars, healthVars, soft>>)

-----------------------------------------------------------------------------
\* No monitor switches the power off without cause.  network-watch: since its
\* start, or since it last saw every group, the grace period has gone by.
\* ROC monitor: each alarm it acts on stands for a panel that was read hot
\* Count times in a row, or for more than missing_seconds with the power on
\* and no quorum, restarts included, unless the reading that ended the streak
\* or the outage was forgotten: it came after the last save of a process that
\* then died.
\* Sensor alerts: a condition was unsafe in each of the last Trigger samples
\* that were checked for it; or NoDataTrigger polls brought nothing new, the
\* poll whose notification failed counted as one of them.  pi-health: the
\* line has really changed since the process started; the soft-shutdown pin
\* is high through the whole pulse that was asked for, and in no two at once.
ShutdownIsJustified ==
  /\ watch.pc = "powerOff" => sinceOk >= Grace
  /\ step = "act" => /\ alarms(mon) # {}
                     /\ \A k \in alarms(mon) \ lost.ended :
                          IF k = "PSU" THEN seen.blind = Missing + 1
                          ELSE seen.run[k] >= Count
  /\ alerts.pc = "check" /\ Conditions[alerts.next] \in alerts.unsafe
       /\ condition_ready(Conditions[alerts.next])
       => polled.unsafe[Conditions[alerts.next]] + 1 >= Trigger
  /\ alerts.pc = "noData" => polled.missed + 1 >= NoDataTrigger
  /\ alerts.pc = "handler" /\ alerts.noData + 1 >= NoDataTrigger
       => polled.missed + 1 >= NoDataTrigger
  /\ health.pc = "powerOff6" => "gpio6" \in past.bad
  /\ health.pc = "powerOff21" => "gpio21" \in past.bad
  /\ health.action # "none" => "x728" \in past.bad
  /\ \A w \in Pulsers : soft.at[w] = "pulse" => soft.high /\ soft.holder = {w}

\* Nobody is told of the same incident twice: a failed reading, a restart on
\* the same boot or another alarm do not re-arm a notification; a cool
\* reading, a quorum or the power seen off do.  Only a message that went out
\* after the last save of a process that then died is sent once more.
ToldOncePerIncident == step = "notify" => Pending \cap seen.told \subseteq lost.told

\* A station cut off for good from one group is switched off again and again
\* (also after somebody turns it on) as long as lvhv-server works and the
\* process is left alone from some time on.
IsolationEndsInShutdown ==
  (/\ focus = "watch" /\ <>[]lvhv /\ <>[][~WatchKilled]_vars
   /\ \E i \in DOMAIN Groups : <>[]Isolated(i))
    => []<>(power = "off")

\* A panel that is always listed and read hot, or panels that are too few to
\* be read any more, end in a shutdown, however often the power is cycled in
\* between and whether or not notifications get through.
HotOrBlindEndsInShutdown ==
  (/\ focus = "roc" /\ <>[]lvhv /\ <>[][~RocEnds /\ ~StopWhileReading]_vars
   /\ \/ \E p \in Panels : <>[][/\ BeginCycle => p \in mon'.panels
                                /\ ReadAll => seen'.run[p] > 0]_vars
      \/ <>[][ReadAll => mon'.quorum # 0]_vars)
    => []<>(power = "off")

\* A condition that is unsafe in every sample, or a sensor that brings nothing
\* new any more, end in a shutdown even if every notification fails.  A poll
\* that fails in a way main does not expect is not counted, and one that
\* always fails so never ends in one.
UnsafeEndsInShutdown ==
  (/\ focus = "alerts" /\ <>[](lvhv /\ codes = "ok") /\ <>[][~AlertsKilled]_vars
   /\ <>[][~FetchUnexpected]_vars
   /\ \/ <>[][~FetchFresh]_vars
      \/ \E c \in Conds : <>[][/\ ~FetchFails /\ ~FetchStale
                              /\ FetchFresh => c \in alerts'.unsafe]_vars)
    => []<>(power = "off")

\* A loss of AC on GPIO6 that lasts is answered by the process that got its
\* edge if that goes on, also when the edge comes while an earlier powerOff
\* still blocks the thread; a powerOff that fails is not tried again, so
\* lvhv-server has to work.  A loss that came while no process ran, or whose
\* process ended first, is not answered: main only notes the levels it finds.
AcLossEndsInShutdown ==
  (focus = "health" /\ []lvhv) => (past.ac = "lost" ~> (power = "off" \/ past.ac # "lost"))

\* A danger that lasts ends in a shutdown, whichever of the monitors is there
\* to see it: again and again for the first three, once for a loss of AC.
DangerEndsInShutdown ==
  /\ IsolationEndsInShutdown /\ HotOrBlindEndsInShutdown /\ UnsafeEndsInShutdown
  /\ AcLossEndsInShutdown

=============================================================================
