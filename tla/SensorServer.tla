------------------------------ MODULE SensorServer ------------------------------
(***************************************************************************)
(* i2c-sensor-server.py: the sensor loop, which opens and reopens the bus, *)
(* and the state that GET /health shows (under state_lock, so as a whole). *)
(* What becomes of a sample in the archive is in Archive.                  *)
(***************************************************************************)
EXTENDS Naturals

CONSTANTS
  Retries,       \* I2C_READ_RETRIES
  StreakTrigger  \* NO_DATA_STREAK_TRIGGER

ASSUME SensorServerAssumption == Retries \in Nat /\ StreakTrigger \in Nat \ {0}

VARIABLES
  loop,   \* the thread: where it is, the attempt, the bus and the sensor
  shown,  \* status, last_error is set, last_sample is there, no_data_streak
  truth   \* history: cycles without a reading in a row; whether the state was
          \* ever about a reading

sensorVars == <<loop, shown, truth>>

SensorTypeOK ==
  /\ loop \in [pc : {"start", "attempt", "reopen", "noData", "sleep", "ended"},
               attempt : 0..Retries + 1, bus : BOOLEAN, sensor : BOOLEAN]
  /\ shown \in [status : {"starting", "ok", "no-data", "error"}, error : BOOLEAN,
                sample : BOOLEAN, streak : 0..StreakTrigger]
  /\ truth \in [missed : 0..StreakTrigger, read : BOOLEAN]

Fresh == [pc |-> "start", attempt |-> 0, bus |-> FALSE, sensor |-> FALSE]

SensorInit ==
  /\ loop = Fresh
  /\ shown = [status |-> "starting", error |-> FALSE, sample |-> FALSE, streak |-> 0]
  /\ truth = [missed |-> 0, read |-> FALSE]

_set_error == [shown EXCEPT !.status = "error", !.error = TRUE]

\* What open_sensor leaves: the sensor too, the bus only, or nothing new; with
\* a sensor it may still raise, from configure.
Opens == {[loop EXCEPT !.bus = b, !.sensor = s] : b \in {loop.bus, TRUE}, s \in {loop.sensor, TRUE}}
open_sensor == {l \in Opens : l.sensor => l.bus}

\* run: the first open_sensor may fail.
SensorStart ==
  /\ loop.pc = "start"
  /\ \E l \in open_sensor :
       /\ loop' = [l EXCEPT !.pc = "attempt"]
       /\ shown' \in {_set_error} \cup (IF l.sensor THEN {shown} ELSE {})
  /\ UNCHANGED truth

\* An attempt starts with open_sensor if there is no sensor; then it reads.
Ready(l) == l \in (IF loop.sensor THEN {loop} ELSE open_sensor)

\* _record_success
ReadOk ==
  /\ loop.pc = "attempt"
  /\ \E l \in {k \in open_sensor : Ready(k) /\ k.sensor} : loop' = [l EXCEPT !.pc = "sleep"]
  /\ shown' = [status |-> "ok", error |-> FALSE, sample |-> TRUE, streak |-> 0]
  /\ truth' = [missed |-> 0, read |-> TRUE]

\* The driver has no data.
ReadNone ==
  /\ loop.pc = "attempt"
  /\ \E l \in {k \in open_sensor : Ready(k) /\ k.sensor} : loop' = [l EXCEPT !.pc = "noData"]
  /\ UNCHANGED <<shown, truth>>

\* OSError, from open_sensor or from the read: close_bus.
BusError ==
  /\ loop.pc = "attempt"
  /\ loop' = [loop EXCEPT !.pc = "reopen", !.bus = FALSE, !.sensor = FALSE]
  /\ UNCHANGED <<shown, truth>>

\* After the backoff the bus is opened again; after the last attempt too.
Reopened ==
  /\ loop.pc = "reopen"
  /\ \E l \in open_sensor :
       /\ loop' = [l EXCEPT !.attempt = @ + 1,
                            !.pc = IF loop.attempt < Retries THEN "attempt" ELSE "noData"]
       /\ shown' \in {_set_error} \cup (IF l.sensor THEN {shown} ELSE {})
  /\ UNCHANGED truth

\* Any other exception ends the attempts; the sensor is kept.
OtherError ==
  /\ loop.pc = "attempt"
  /\ \E l \in open_sensor : Ready(l) /\ loop' = [l EXCEPT !.pc = "noData"]
  /\ shown' = _set_error
  /\ UNCHANGED truth

Capped(n) == IF n > StreakTrigger THEN StreakTrigger ELSE n

\* Mutant of Recorded: the streak is counted, the status kept.
Recorded_KeepsStatus == [shown EXCEPT !.streak = Capped(@ + 1)]

\* _record_no_data
Recorded == [shown EXCEPT !.status = "no-data", !.streak = Capped(@ + 1)]

NoData ==
  /\ loop.pc = "noData"
  /\ loop' = [loop EXCEPT !.pc = "sleep"]
  /\ shown' = Recorded
  /\ truth' = [truth EXCEPT !.missed = Capped(@ + 1)]

Sleep ==
  /\ loop.pc = "sleep"
  /\ loop' = [loop EXCEPT !.pc = "attempt", !.attempt = 0]
  /\ UNCHANGED <<shown, truth>>

\* A signal: the loop ends after its sleep, or with the process, five seconds
\* later; systemd starts the service again.
SensorStops ==
  /\ loop.pc # "ended"
  /\ loop' = [Fresh EXCEPT !.pc = "ended"]
  /\ UNCHANGED <<shown, truth>>

SensorRestart ==
  /\ loop.pc = "ended"
  /\ loop' = Fresh
  /\ shown' = [status |-> "starting", error |-> FALSE, sample |-> FALSE, streak |-> 0]
  /\ truth' = [missed |-> 0, read |-> FALSE]

SensorNext ==
  \/ SensorStart \/ ReadOk \/ ReadNone \/ BusError \/ Reopened \/ OtherError \/ NoData \/ Sleep
  \/ SensorStops \/ SensorRestart

-----------------------------------------------------------------------------
\* Between cycles /health tells the truth about the last ones: "ok" after a
\* reading and only then, the streak of cycles without one otherwise, however
\* each of them failed; and a sensor is never used on a bus that is closed.
HealthIsHonest ==
  /\ loop.pc = "sleep" =>
       /\ (shown.status = "ok") = (truth.missed = 0)
       /\ shown.streak = truth.missed
       /\ shown.sample = truth.read
  /\ loop.sensor => loop.bus

=============================================================================
