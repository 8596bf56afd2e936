--------------------------------- MODULE HvRamp ---------------------------------
(***************************************************************************)
(* ramp-hv.py and PowerSupplyServerConnection.SetWireVoltage: processes    *)
(* that ramp one HV channel in small DAC steps through lvhv-server, under  *)
(* a lock of the station.                                                  *)
(*                                                                         *)
(* A process has the main thread and the ramp thread of the channel, which *)
(* shares nothing with those of other channels.  Voltages are in units of  *)
(* the DAC.  Between the checks of a step and its write, and between the   *)
(* write and its execution, everything else may happen: Client.py or       *)
(* another ramp may write the channel, since only ramp-hv.py heeds the     *)
(* lock and the ssh that holds it may die unseen.                          *)
(***************************************************************************)
EXTENDS Integers

CONSTANTS
  Procs,                              \* ramp-hv processes
  MaxDac,                             \* MAXDACALLOWED
  Voltages,                           \* the targets (-v)
  MinStep, MedStep, MaxStep,          \* the three step sizes
  MinReadback, MedReadback, MaxReadback, \* steps between two readings
  MinTol, MedTol, MaxTol,             \* the tolerances
  Noise                               \* how far off the scale a reading may be

ASSUME HvRampAssumption ==
  /\ {"nobody", "lost"} \cap Procs = {} /\ MaxDac \in Nat \ {0} /\ Voltages \subseteq 0..MaxDac
  /\ {MinStep, MedStep, MaxStep, MinReadback, MedReadback, MaxReadback, MinTol}
       \subseteq Nat \ {0}
  /\ MinStep <= MedStep /\ MedStep <= MaxStep
  /\ {MedTol, MaxTol} \subseteq Nat /\ MedTol <= MaxTol
  /\ Noise \in Nat \ {0}

VARIABLES
  ramp,    \* the processes: main thread, HV lock, connection, ramp thread
  locked,  \* the process that has the lock of the station, or lost it
  dac,     \* the output of the DAC
  cache,   \* lvhv-server's memory of it
  trip,    \* the channel has tripped
  more,    \* history: writes executed after the HV lock was set, and raising
           \* ones after the channel had tripped
  odd      \* history: "yes" if somebody else has written since the last ramp
           \* began, or the cache was above the output when it began

hvRampVars == <<ramp, locked, dac, cache, trip, more, odd>>
station == <<dac, cache, trip, more, odd>>

Dacs == 0..MaxDac
Nobody == "nobody"
Lost == "lost"  \* the lock is free, but the process that had it goes on
Rest == [main |-> "off", stop |-> FALSE, link |-> FALSE, pc |-> "end", volt |-> 0,
         step |-> 0, goal |-> 0, size |-> 0, left |-> 0, cur |-> 0, set |-> 0,
         then |-> "end"]
ThreadPcs == {"begin", "outer", "walk", "loop", "steps", "measure", "set", "send", "sent"}

RampTypeOK ==
  /\ ramp \in [Procs -> [main : {"off", "locked", "run", "stopping", "closed"},
                         stop : BOOLEAN, link : BOOLEAN, pc : ThreadPcs \cup {"end"},
                         volt : {0} \cup Voltages, step : (-MaxStep)..MaxStep,
                         goal : (-MaxTol)..(MaxDac + MaxTol),
                         size : {0, MinReadback, MedReadback, MaxReadback},
                         left : 0..MaxReadback \cup 0..MedReadback \cup 0..MinReadback,
                         cur : Dacs, set : Dacs,
                         then : {"end", "outer", "steps", "measure"}]]
  /\ locked \in Procs \cup {Nobody, Lost}
  /\ dac \in Dacs /\ cache \in Dacs /\ trip \in BOOLEAN
  /\ more \in [Procs -> [stop : Nat, trip : Nat]]
  /\ odd \in {"no", "yes"}

RampInit ==
  /\ ramp = [p \in Procs |-> Rest] /\ locked = Nobody
  /\ dac = 0 /\ cache = 0 /\ trip = FALSE
  /\ more = [p \in Procs |-> [stop |-> 0, trip |-> 0]] /\ odd = "no"

\* A reading of the voltage may be anything: it has an offset and noise, it
\* lags, and the code of an error is taken for a voltage.
Volts == (-Noise)..(MaxDac + Noise)
\* One that is exact is less than a unit off; that of zero may be below zero.
Exact == IF trip \/ dac = 0 THEN {-1, 0} ELSE {dac}

-----------------------------------------------------------------------------
(* The main thread *)

\* acquire_ramp_lock; a process that does not get it ends.  One that lost the
\* lock to this process is from now on one of those that OtherWrite stands for.
Acquire(p) ==
  /\ ramp[p].main = "off" /\ locked \in {Nobody, Lost}
  /\ locked' = p
  /\ \E v \in Voltages :
       ramp' = [q \in Procs |-> IF q = p THEN [Rest EXCEPT !.main = "locked", !.volt = v]
                                ELSE IF locked = Lost THEN Rest ELSE ramp[q]]
  /\ more' = [q \in Procs |-> [stop |-> 0, trip |-> 0]]
  /\ UNCHANGED <<dac, cache, trip, odd>>

\* The ssh that holds the lock dies; nobody looks at it any more.
LockLost(p) ==
  /\ ramp[p].main # "off" /\ locked = p
  /\ locked' = Lost
  /\ UNCHANGED <<ramp, station>>

\* The tunnel and the connection are there: the thread starts.
Connect(p) ==
  /\ ramp[p].main = "locked"
  /\ ramp' = [ramp EXCEPT ![p].main = "run", ![p].link = TRUE, ![p].pc = "begin"]
  /\ odd' = IF cache > dac THEN "yes" ELSE "no"
  /\ UNCHANGED <<locked, dac, cache, trip, more>>

\* Ctrl-C: request_ramp_stop sets the HV lock.
Interrupt(p) ==
  /\ ramp[p].main = "run"
  /\ ramp' = [ramp EXCEPT ![p].main = "stopping", ![p].stop = TRUE]
  /\ UNCHANGED <<locked, station>>

\* close_supplies: when the thread has ended, or five seconds after Ctrl-C.
Close(p) ==
  /\ \/ ramp[p].main = "run" /\ ramp[p].pc = "end"
     \/ ramp[p].main \in {"stopping", "locked"}
  /\ ramp' = [ramp EXCEPT ![p].main = "closed", ![p].link = FALSE]
  /\ UNCHANGED <<locked, station>>

\* After another second the lock is released and the process ends.
Release(p) ==
  /\ ramp[p].main = "closed"
  /\ locked' = Nobody
  /\ ramp' = [ramp EXCEPT ![p] = Rest]
  /\ UNCHANGED station

Kill(p) ==
  /\ ramp[p].main # "off"
  /\ locked' = Nobody
  /\ ramp' = [ramp EXCEPT ![p] = Rest]
  /\ UNCHANGED station

-----------------------------------------------------------------------------
(* The ramp thread *)

Thread(p) == /\ ramp[p].link
             /\ UNCHANGED <<locked, station>>
\* What the thread still knows at pc: its variables end with their loops.
At(p, pc) ==
  LET t == ramp[p]
      b == [Rest EXCEPT !.main = t.main, !.stop = t.stop, !.link = t.link, !.volt = t.volt, !.pc = pc]
      w == [b EXCEPT !.step = t.step, !.goal = t.goal, !.size = t.size]
  IN  CASE pc \in {"end", "begin", "outer"} -> b
        [] pc \in {"walk", "loop", "measure"} -> w
        [] pc = "steps" -> [w EXCEPT !.cur = t.cur, !.left = t.left]
        [] OTHER -> [t EXCEPT !.pc = pc]
To(p, pc) == ramp' = [ramp EXCEPT ![p] = At(p, pc)]
\* _timed_dac_set looks at the HV lock once more, _set_hv_by_dac does not.
Write(p, how, value, then) ==
  ramp' = [ramp EXCEPT ![p] = [At(p, IF then = "measure" THEN "loop" ELSE "end")
                                 EXCEPT !.pc = how, !.set = value, !.then = then]]

\* set_voltage
Begin(p) ==
  /\ Thread(p) /\ ramp[p].pc = "begin"
  /\ IF ~trip THEN To(p, "outer")
     ELSE IF ramp[p].volt <= 0 THEN Write(p, "send", 0, "end") ELSE To(p, "end")

\* The step, the readings and the target of a macro step at this distance.
Macro(volt, v) ==
  LET away == IF volt < v THEN v - volt ELSE volt - v
      sign == IF volt < v THEN -1 ELSE 1
  IN  IF away < 2 * MedTol THEN [step |-> MinStep, size |-> MinReadback, goal |-> volt]
      ELSE IF away < 2 * MaxTol
        THEN [step |-> MedStep, size |-> MedReadback, goal |-> volt - sign * MedTol]
        ELSE [step |-> MaxStep, size |-> MaxReadback, goal |-> volt - sign * MaxTol]

Near(volt, v) == volt > 0 /\ v - volt < MinTol /\ volt - v < MinTol

\* Mutant of AtZero: a ramp down goes on until the reading fits.
AtZero_ByReading(p) == FALSE

AtZero(p) == ramp[p].volt <= 0 /\ cache <= 0

\* One turn of the loop of _set_wire_voltage, with the reading v.
Outer(p, v) ==
  /\ Thread(p) /\ ramp[p].pc = "outer"
  /\ IF AtZero(p) \/ ramp[p].stop THEN To(p, "end")
     ELSE IF trip THEN IF ramp[p].volt <= 0 THEN Write(p, "send", 0, "end") ELSE To(p, "end")
     ELSE IF Near(ramp[p].volt, v) THEN To(p, "end")
     ELSE LET m == Macro(ramp[p].volt, v)
          IN  ramp' = [ramp EXCEPT ![p].pc = "walk", ![p].step = m.step,
                                   ![p].size = m.size, ![p].goal = m.goal]

\* _take_macro_step and the first lines of _walk_dac_steps: the direction.
Walk(p, v) ==
  /\ Thread(p) /\ ramp[p].pc = "walk"
  /\ IF ramp[p].stop THEN To(p, "outer")
     ELSE ramp' = [ramp EXCEPT ![p].pc = "loop",
                               ![p].step = IF ramp[p].goal < v THEN -@ ELSE @]

Tripped(p, back) ==
  IF ramp[p].volt <= 0 THEN Write(p, "set", 0, back) ELSE To(p, "end")

\* A turn of the loop of _walk_dac_steps, and the cache that
\* _take_dac_steps starts from.
Loop(p) ==
  /\ Thread(p) /\ ramp[p].pc = "loop"
  /\ IF ramp[p].stop THEN To(p, "outer")
     ELSE IF trip THEN Tripped(p, "outer")
     ELSE ramp' = [ramp EXCEPT ![p].pc = "steps", ![p].cur = cache, ![p].left = ramp[p].size]

\* Mutant of Steps: the trip is looked at in _walk_dac_steps only.
Steps_TripUnseen(p) ==
  /\ Thread(p) /\ ramp[p].pc = "steps"
  /\ LET next == ramp[p].cur + ramp[p].step
     IN  IF ramp[p].left = 0 \/ ramp[p].stop THEN To(p, "measure")
         ELSE IF next < 0 THEN Write(p, "set", 0, "measure")
         ELSE IF next > MaxDac THEN To(p, "end")
         ELSE ramp' = [ramp EXCEPT ![p].pc = "set", ![p].set = next, ![p].then = "steps",
                                   ![p].cur = next, ![p].left = @ - 1]

\* A turn of the loop of _take_dac_steps.
Steps(p) ==
  /\ Thread(p) /\ ramp[p].pc = "steps"
  /\ LET next == ramp[p].cur + ramp[p].step
     IN  IF ramp[p].left = 0 \/ ramp[p].stop THEN To(p, "measure")
         ELSE IF trip THEN Tripped(p, "measure")
         ELSE IF next < 0 THEN Write(p, "set", 0, "measure")
         ELSE IF next > MaxDac THEN To(p, "end")
         ELSE ramp' = [ramp EXCEPT ![p].pc = "set", ![p].set = next, ![p].then = "steps",
                                   ![p].cur = next, ![p].left = @ - 1]

\* The voltage is past the target of the macro step, or not yet.
Passed(p, v) == (ramp[p].step > 0 /\ v > ramp[p].goal) \/ (ramp[p].step < 0 /\ v < ramp[p].goal)
Measure(p, v) ==
  /\ Thread(p) /\ ramp[p].pc = "measure"
  /\ To(p, IF Passed(p, v) THEN "outer" ELSE "loop")

TimedSet(p) ==
  /\ Thread(p) /\ ramp[p].pc = "set"
  /\ To(p, IF ramp[p].stop THEN ramp[p].then ELSE "send")

Send(p) ==
  /\ Thread(p) /\ ramp[p].pc = "send"
  /\ To(p, "sent")

Sees(p, v) == Outer(p, v) \/ Walk(p, v) \/ Measure(p, v)
ThreadStep(p) ==
  \/ \E v \in Volts : Sees(p, v)
  \/ Begin(p) \/ Loop(p) \/ Steps(p) \/ TimedSet(p) \/ Send(p)

\* A call that raises ends the thread: a timeout, an answer that is not
\* zero, a connection that is closed.
Raises(p) ==
  /\ ramp[p].pc \in ThreadPcs
  /\ To(p, "end")
  /\ UNCHANGED <<locked, dac, cache, trip, more, odd>>

-----------------------------------------------------------------------------
(* lvhv-server and the station *)

\* A write sets the chip and the cache; one that fails late only the chip.
Good(value) == dac' = value /\ cache' = value
Bad(value) == dac' = value /\ UNCHANGED cache

\* What the history notes of a write.
Noted(p) ==
  more' = [more EXCEPT ![p].stop = IF ramp[p].stop THEN @ + 1 ELSE @,
                       ![p].trip = IF trip /\ ramp[p].set > dac THEN @ + 1 ELSE @]

Execute(p) ==
  /\ ramp[p].pc = "sent"
  /\ Good(ramp[p].set) /\ Noted(p)
  /\ To(p, ramp[p].then)
  /\ UNCHANGED <<locked, trip, odd>>

\* The write reaches the chip and is answered with an error: _set_hv_by_dac
\* raises.
ExecuteFails(p) ==
  /\ ramp[p].pc = "sent"
  /\ Bad(ramp[p].set) /\ Noted(p)
  /\ To(p, "end")
  /\ UNCHANGED <<locked, trip, odd>>

\* set_hv_by_dac of somebody else: Client.py, a ramp that lost its lock, or a
\* thread that has gone and whose request is executed late.
OtherWrite ==
  /\ odd' = "yes"
  /\ \E value \in Dacs : Good(value) \/ Bad(value)
  /\ UNCHANGED <<ramp, locked, trip, more>>

\* The server forgets what it set, and every connection breaks.
ServerRestart ==
  /\ cache' = 0
  /\ ramp' = [p \in Procs |-> [At(p, "end") EXCEPT !.link = FALSE]]
  /\ UNCHANGED <<locked, dac, trip, more, odd>>

Trips ==
  /\ ~trip /\ trip' = TRUE
  /\ UNCHANGED <<ramp, locked, dac, cache, more, odd>>

\* Somebody resets the trip (reset_trip).
TripReset ==
  /\ trip /\ trip' = FALSE
  /\ more' = [p \in Procs |-> [more[p] EXCEPT !.trip = 0]]
  /\ UNCHANGED <<ramp, locked, dac, cache, odd>>

MainStep(p) ==
  \/ Acquire(p) \/ LockLost(p) \/ Connect(p) \/ Interrupt(p) \/ Close(p) \/ Release(p) \/ Kill(p)

RampNext ==
  \/ \E p \in Procs :
       MainStep(p) \/ ThreadStep(p) \/ Raises(p) \/ Execute(p) \/ ExecuteFails(p)
  \/ OtherWrite \/ ServerRestart \/ Trips \/ TripReset

Going(p) == ThreadStep(p) \/ Execute(p)

-----------------------------------------------------------------------------
\* Once the HV lock of a ramp is set, or the channel has tripped, at most the
\* write that was already on its way is executed: one write after the lock,
\* one that raises the output after the trip; whatever the readings say and
\* whoever else writes the channel.
AtMostOneMore == \A p \in Procs : more[p].stop <= 1 /\ more[p].trip <= 1

\* No write of a ramp, whether it succeeds or fails, raises the output by more
\* than the largest step, whatever the readings say and also after a restart
\* has zeroed the cache.  That needs the channel to itself: the steps are
\* counted from one look at the cache, so there is no bound once somebody else
\* has written since the ramp began (Client.py, a ramp whose lock was lost, a
\* write of an earlier ramp that is executed late), or if the ramp began with
\* the cache above the output, which a write that failed late leaves behind.
NoJumpUp ==
  \A p \in Procs : (Execute(p) \/ ExecuteFails(p)) /\ odd = "no" => dac' <= dac + MaxStep

\* What a ramp may still do to the output once somebody or something wants it
\* stopped, and with one write.
WritesAreBounded == [][AtMostOneMore' /\ NoJumpUp]_hvRampVars

\* A step that takes another way than every exact reading would.
Misled(p) == (\E v \in Volts : Sees(p, v)) /\ ~\E v \in Exact : Sees(p, v)

\* What must stop happening for a ramp to get on.
Disturbed ==
  \/ ServerRestart \/ OtherWrite \/ TripReset
  \/ \E p \in Procs : Interrupt(p) \/ Kill(p) \/ Raises(p) \/ ExecuteFails(p) \/ Misled(p)

\* A ramp down that nothing disturbs any more, a wrong reading included, ends,
\* and with the output at zero unless the cache was wrong, or a wrong
\* reading had turned the ramp upwards and the limit of the DAC stopped it.
\* For it to end the readings must agree with the output, since one below zero
\* turns the ramp upwards whatever the DAC says; and from time to time a
\* reading at zero must be below zero, since the loop of _walk_dac_steps ends by a
\* reading and not by the DAC.  A wrong reading 2 * MedTol below zero would set
\* that loop a goal which no exact reading ever reaches: Noise is smaller.
RampDownEnds ==
  /\ (/\ <>[][~Disturbed]_hvRampVars
      /\ \A p \in Procs : <>[](ramp[p].pc # "measure") \/ []<>(dac > 0)
                          \/ []<><<Measure(p, -1)>>_hvRampVars)
       => \A p \in Procs : []<>(ramp[p].main # "run" \/ ramp[p].volt > 0 \/ ramp[p].pc = "end")
  /\ [][\A p \in Procs :
          (Going(p) /\ ramp'[p].pc = "end" /\ ramp[p].volt = 0 /\ ~ramp[p].stop
             /\ cache = dac /\ ramp[p].step <= 0)
            => dac' = 0]_hvRampVars

=============================================================================
