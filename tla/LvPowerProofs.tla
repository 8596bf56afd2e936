---------------------------- MODULE LvPowerProofs ----------------------------
(***************************************************************************)
(* LvPower: what the server has acknowledged of an LV output holds, for    *)
(* any number of outputs and any sequence of failed writes, crashes and    *)
(* restarts.                                                               *)
(*                                                                         *)
(* The properties speak of the latch of the expander, which a write does   *)
(* not set bit by bit: it sends the cached byte.  So the invariant is      *)
(* about the cache: which outputs of the command under way it already has, *)
(* and when the latch agrees with it.  That the pins are driven by the     *)
(* latch rests on the start: no command changes a direction.               *)
(***************************************************************************)
EXTENDS LvPower, TLAPS

USE NumOutputsAssumption

\* Where a command can be: its next output is one it addresses, the pulse on
\* the station reset and the pauses are those of a start of all outputs.
Control ==
  /\ cmd.pc # "idle" => server = "up"
  /\ event => cmd.pc = "idle"
  /\ cmd.pc \in {"reset", "global", "output", "wait"} =>
       FirstOutput(cmd.ch) <= cmd.i /\ cmd.i < EndOutput(cmd.ch)
  /\ cmd.pc \in {"reset", "global"} => cmd.i = FirstOutput(cmd.ch)
  /\ cmd.pc = "reset" => cmd.value = HIGH /\ cmd.ch >= All
  /\ cmd.pc = "global" /\ cmd.value = LOW => cmd.ch >= All
  /\ cmd.pc = "wait" => Stagger(cmd)

\* The command has been carried out as far as its outputs go: it succeeded,
\* or it was a shutdown of all outputs, which no failure cuts short.
AllWritten ==
  /\ cmd.pc = "done"
  /\ cmd.result = 0 \/ (cmd.value = LOW /\ cmd.ch = All)

\* What the cached byte has, and when the latch has it too.
Written ==
  /\ server = "up" => cache = asked
  /\ lastOk => latch = cache
  /\ cmd.pc \in {"output", "wait"} =>
       \A o \in Addressed(cmd.ch) : o < cmd.i => cache[o] = cmd.value
  /\ AllWritten => \A o \in Addressed(cmd.ch) : cache[o] = cmd.value
  /\ cmd.pc = "done" /\ cmd.result = 0 => lastOk

\* No step of the command has failed so far.
GoodSoFar ==
  \/ cmd.pc \in {"output", "wait"} /\ ~cmd.failed
  \/ cmd.pc = "done" /\ cmd.result = 0

\* The shared enable and the station reset are as a command wants them.
Enables ==
  /\ GoodSoFar /\ cmd.value = HIGH => global = HIGH
  /\ GoodSoFar /\ cmd.value = LOW /\ cmd.ch >= All => global = LOW
  /\ cmd.pc \in {"global", "output", "wait"} \/ GoodSoFar =>
       (cmd.value = HIGH /\ cmd.ch >= All => station = 1)

\* What was acknowledged of an output is in the cache, and nothing is
\* acknowledged of an output that a command is about.
Acks ==
  /\ cmd.pc # "idle" => \A o \in Addressed(cmd.ch) : acked[o] = -1
  /\ \A o \in Outputs : acked[o] # -1 => cache[o] = acked[o]
  /\ AckedOutputsHold

\* A start that came through every stage left every pin an output, and no
\* command changes a direction.
Directions == whole /\ server = "up" => driven = Outputs

IInv == TypeOK /\ Control /\ Written /\ Enables /\ Acks /\ EventMeansAllOn
        /\ Directions

-----------------------------------------------------------------------------
\* The outputs a selector addresses are those the loop of
\* i2c_lv_power_control runs over.
LEMMA Selection ==
  ASSUME NEW ch \in 0..AllAtOnce
  PROVE  /\ FirstOutput(ch) \in Outputs
         /\ EndOutput(ch) \in 1..NumOutputs /\ FirstOutput(ch) < EndOutput(ch)
         /\ \A o : o \in Addressed(ch) <=>
              o \in Outputs /\ FirstOutput(ch) <= o /\ o < EndOutput(ch)
         /\ ch >= All => Addressed(ch) = Outputs
  BY DEF AllAtOnce, All, FirstOutput, EndOutput, Addressed, Outputs

\* The fields of the command have their types.
LEMMA CommandFields ==
  ASSUME TypeOK
  PROVE  /\ cmd.pc \in {"idle", "reset", "global", "output", "wait", "done"}
         /\ cmd.value \in Bit /\ cmd.ch \in 0..AllAtOnce /\ cmd.i \in Outputs
         /\ cmd.failed \in BOOLEAN /\ cmd.result \in {0, -1}
  BY DEF TypeOK, CommandType

\* A command that returns a failure on the way leaves the outputs it has not
\* written alone; a shutdown does not return this way.
LEMMA ReturnFails ==
  ASSUME IInv, cmd' = [cmd EXCEPT !.pc = "done", !.result = -1],
         cmd.pc # "idle", ~(cmd.value = LOW /\ cmd.ch = All),
         UNCHANGED <<server, event, cache, asked, latch, lastOk, acked, driven, global, whole>>,
         station' \in Bit
  PROVE  IInv'
  <1>1. /\ cmd' \in CommandType /\ cmd'.pc = "done" /\ cmd'.result = -1
        /\ cmd'.value = cmd.value /\ cmd'.ch = cmd.ch
    BY DEF IInv, TypeOK, CommandType
  <1>2. TypeOK'
    BY <1>1 DEF IInv, TypeOK
  <1>3. ~event
    BY DEF IInv, Control
  <1>4. Control'
    BY <1>1, <1>3 DEF IInv, Control
  <1>5. Written'
    BY <1>1 DEF IInv, Written, AllWritten
  <1>6. Enables'
    BY <1>1 DEF Enables, GoodSoFar
  <1>7. Acks'
    BY <1>1 DEF IInv, Acks, AckedOutputsHold
  <1>8. EventMeansAllOn'
    BY <1>3 DEF EventMeansAllOn
  <1>9. Directions'
    BY DEF IInv, Directions
  <1> QED
    BY <1>2, <1>4, <1>5, <1>6, <1>7, <1>8, <1>9 DEF IInv

\* A server that starts has acknowledged nothing and written every cached bit
\* low, however far initialize_i2c_lv came.
LEMMA StartKeeps ==
  ASSUME IInv, NEW stage \in LvStages, NEW hv \in {0, -1}, Start(stage, hv)
  PROVE  IInv'
  <1> DEFINE low == [o \in Outputs |-> LOW]
  <1>1. /\ cmd' = NoCommand /\ event' = FALSE /\ lastOk' = (stage = "ok")
        /\ asked' = low /\ acked' = [o \in Outputs |-> -1]
        /\ station' = station
        /\ server' \in {"down", "up"}
        /\ server' = "up" => LvResult(stage) + hv = 0
        /\ whole' = (stage = "ok")
    BY DEF Start
  <1>2. /\ NoCommand \in CommandType /\ NoCommand.pc = "idle"
    BY DEF NoCommand, CommandType, Bit, LOW, Outputs, AllAtOnce
  <1>3. low \in [Outputs -> Bit]
    BY DEF Bit, LOW
  <1>4. stage # "mcp" => cache' = low
    BY DEF Start, initialize_i2c_lv, LvStages
  <1>5. /\ cache' \in [Outputs -> Bit] /\ latch' \in [Outputs -> Bit]
        /\ driven' \subseteq Outputs /\ global' \in Bit
    <2>1. initialize_i2c_lv(stage)
      BY DEF Start
    <2>2. /\ cache \in [Outputs -> Bit] /\ latch \in [Outputs -> Bit]
          /\ driven \subseteq Outputs /\ global \in Bit /\ LOW \in Bit
      BY DEF IInv, TypeOK, Bit, LOW
    <2>3. \A n \in Outputs : 0..n \subseteq Outputs /\ 0..(n - 1) \subseteq Outputs
      BY DEF Outputs
    <2>4. CASE stage = "mcp"
      BY <2>1, <2>2, <2>4 DEF initialize_i2c_lv
    <2>5. CASE stage = "reset" \/ stage = "global"
      BY <2>1, <2>2, <2>5, <1>3 DEF initialize_i2c_lv
    <2>6. CASE stage = "pins"
      BY <2>1, <2>2, <2>3, <2>6, <1>3 DEF initialize_i2c_lv
    <2>7. CASE stage \notin {"mcp", "reset", "global", "pins"}
      BY <2>1, <2>2, <2>7, <1>3 DEF initialize_i2c_lv
    <2> QED
      BY <2>4, <2>5, <2>6, <2>7
  <1>6. stage = "ok" => latch' = low
    BY DEF Start, initialize_i2c_lv
  <1>7. LvResult("mcp") + hv # 0
    BY DEF LvResult
  <1>8. TypeOK'
    <2>1. asked' \in [Outputs -> Bit] /\ acked' \in [Outputs -> Bit \cup {-1}]
      BY <1>1, <1>3
    <2> QED
      BY <2>1, <1>1, <1>2, <1>5 DEF IInv, TypeOK
  <1>9. Control'
    BY <1>1, <1>2 DEF Control
  <1>10. Written'
    BY <1>1, <1>2, <1>4, <1>6, <1>7 DEF Written, AllWritten
  <1>11. Enables' /\ EventMeansAllOn'
    BY <1>1, <1>2 DEF Enables, GoodSoFar, EventMeansAllOn
  <1>12. Acks'
    BY <1>1, <1>2 DEF Acks, AckedOutputsHold
  <1>13. Directions'
    BY DEF Start, initialize_i2c_lv, Directions
  <1> QED
    BY <1>8, <1>9, <1>10, <1>11, <1>12, <1>13 DEF IInv

\* A process that dies takes its acknowledgements with it.
LEMMA CrashKeeps ==
  ASSUME IInv, Crash
  PROVE  IInv'
  <1>1. /\ NoCommand \in CommandType /\ NoCommand.pc = "idle"
    BY DEF NoCommand, CommandType, Bit, LOW, Outputs, AllAtOnce
  <1>2. /\ cmd' = NoCommand /\ event' = FALSE /\ server' = "down"
        /\ acked' = [o \in Outputs |-> -1]
        /\ UNCHANGED <<cache, latch, driven, global, lastOk, asked, whole>>
        /\ station' \in {station, 0}
    BY DEF Crash
  <1>3. TypeOK'
    BY <1>1, <1>2 DEF IInv, TypeOK, Bit
  <1>4. Control' /\ Enables' /\ EventMeansAllOn' /\ Acks'
    BY <1>1, <1>2 DEF Control, Enables, GoodSoFar, EventMeansAllOn, Acks, AckedOutputsHold
  <1>5. Written'
    BY <1>1, <1>2 DEF IInv, Written, AllWritten
  <1>6. Directions'
    BY <1>2 DEF Directions
  <1> QED
    BY <1>3, <1>4, <1>5, <1>6 DEF IInv

\* A command withdraws what was acknowledged of the outputs it is about.
LEMMA BeginKeeps ==
  ASSUME IInv, NEW value \in Bit, NEW ch \in 0..AllAtOnce, Begin(value, ch)
  PROVE  IInv'
  <1>1. /\ server = "up" /\ cmd.pc = "idle"
        /\ cmd' = [pc |-> FirstStep(value, ch), value |-> value, ch |-> ch,
                   i |-> FirstOutput(ch), failed |-> FALSE, result |-> 0]
        /\ event' = FALSE
        /\ acked' = [o \in Outputs |-> IF o \in Addressed(ch) THEN -1 ELSE acked[o]]
        /\ UNCHANGED <<server, cache, latch, driven, global, station, lastOk, asked, whole>>
    BY DEF Begin, hardware
  <1>2. /\ FirstStep(value, ch) \in {"reset", "global", "output"}
        /\ FirstStep(value, ch) = "reset" => value = HIGH /\ ch >= All
        /\ FirstStep(value, ch) = "global" /\ value = LOW => ch >= All
        /\ FirstStep(value, ch) = "output" => ch < All /\ value = LOW
        /\ FirstStep(value, ch) = "global" /\ value = HIGH => ~(ch >= All)
    BY DEF FirstStep, Bit, LOW, HIGH, All, AllAtOnce
  <1>3. /\ cmd' \in CommandType
        /\ cmd'.pc = FirstStep(value, ch) /\ cmd'.value = value /\ cmd'.ch = ch
        /\ cmd'.i = FirstOutput(ch) /\ cmd'.failed = FALSE
    <2>1. FirstOutput(ch) \in Outputs
      BY Selection
    <2> QED
      BY <1>1, <1>2, <2>1 DEF CommandType
  <1>4. TypeOK'
    <2>1. acked' \in [Outputs -> Bit \cup {-1}]
      BY <1>1 DEF IInv, TypeOK
    <2> QED
      BY <2>1, <1>1, <1>3 DEF IInv, TypeOK
  <1>5. Control'
    BY <1>1, <1>2, <1>3, Selection DEF Control, Outputs
  <1>6. Written'
    <2>1. \A o \in Addressed(ch) : ~(o < FirstOutput(ch))
      BY Selection DEF Outputs
    <2> QED
      BY <2>1, <1>1, <1>2, <1>3 DEF IInv, Written, AllWritten
  <1>7. Enables' /\ EventMeansAllOn'
    BY <1>1, <1>2, <1>3 DEF Enables, GoodSoFar, EventMeansAllOn, Bit, LOW, HIGH, All, AllAtOnce
  <1>8. Acks'
    <2>1. \A o \in Addressed(ch) : acked'[o] = -1
      BY <1>1, Selection
    <2>2. \A o \in Outputs : acked'[o] # -1 => acked'[o] = acked[o]
      BY <1>1
    <2> QED
      BY <2>1, <2>2, <1>1, <1>3 DEF IInv, Acks, AckedOutputsHold
  <1> QED
    BY <1>1, <1>4, <1>5, <1>6, <1>7, <1>8 DEF IInv, Directions

\* After the pulse the stations are out of reset, or the command has failed.
LEMMA ResetKeeps ==
  ASSUME IInv, NEW ok \in BOOLEAN, ResetStep(ok)
  PROVE  IInv'
  <1>1. /\ cmd.pc = "reset" /\ cmd.value = HIGH /\ ~event
        /\ UNCHANGED <<server, cache, latch, driven, global, event, lastOk, asked, acked, whole>>
        /\ station' \in Bit /\ (ok => station' = 1)
    BY DEF ResetStep, station_reset_pulse, IInv, Control, TypeOK, Bit
  <1>2. CASE ok
    <2>1. cmd' = [cmd EXCEPT !.pc = "global"]
      BY <1>2 DEF ResetStep
    <2>2. /\ cmd' \in CommandType /\ cmd'.pc = "global" /\ cmd'.value = cmd.value
          /\ cmd'.ch = cmd.ch /\ cmd'.i = cmd.i /\ cmd'.failed = cmd.failed
      BY <2>1 DEF IInv, TypeOK, CommandType
    <2>3. TypeOK' /\ Control'
      BY <1>1, <2>2 DEF IInv, TypeOK, Control, LOW, HIGH
    <2>4. Written' /\ Acks'
      BY <1>1, <2>2 DEF IInv, Written, AllWritten, Acks, AckedOutputsHold
    <2>5. Enables' /\ EventMeansAllOn'
      BY <1>1, <1>2, <2>2 DEF Enables, GoodSoFar, EventMeansAllOn
    <2>6. Directions'
      BY <1>1 DEF IInv, Directions
    <2> QED
      BY <2>3, <2>4, <2>5, <2>6 DEF IInv
  <1>3. CASE ~ok
    <2>1. cmd' = [cmd EXCEPT !.pc = "done", !.result = -1]
      BY <1>3 DEF ResetStep, Return
    <2> QED
      BY <1>1, <2>1, ReturnFails DEF LOW, HIGH
  <1> QED
    BY <1>2, <1>3

\* The shared enable follows the command, or the command remembers that it
\* does not.  It is lowered only by a shutdown of all outputs, of which none
\* is acknowledged any more.
LEMMA GlobalKeeps ==
  ASSUME IInv, NEW ok \in BOOLEAN, GlobalStep(ok)
  PROVE  IInv'
  <1>1. /\ cmd.pc = "global" /\ ~event
        /\ global' = IF ok THEN cmd.value ELSE global
        /\ UNCHANGED <<server, cache, latch, driven, station, event, lastOk, asked, acked, whole>>
    BY DEF GlobalStep, IInv, Control
  <1>2. CASE ~ok /\ Stagger(cmd)
    <2>1. cmd' = [cmd EXCEPT !.pc = "done", !.result = -1]
      BY <1>2 DEF GlobalStep, Return
    <2>2. ~(cmd.value = LOW /\ cmd.ch = All)
      BY <1>2 DEF Stagger, LOW, HIGH
    <2> QED
      BY <1>1, <1>2, <2>1, <2>2, ReturnFails DEF IInv, TypeOK
  <1>3. CASE ~(~ok /\ Stagger(cmd))
    <2>1. cmd' = [cmd EXCEPT !.pc = "output", !.failed = ~ok]
      BY <1>3 DEF GlobalStep
    <2>2. /\ cmd' \in CommandType /\ cmd'.pc = "output" /\ cmd'.value = cmd.value
          /\ cmd'.ch = cmd.ch /\ cmd'.i = cmd.i /\ cmd'.failed = ~ok
          /\ cmd.value \in Bit /\ cmd.ch \in 0..AllAtOnce
      BY <2>1 DEF IInv, TypeOK, CommandType
    <2>3. TypeOK' /\ Control'
      BY <1>1, <2>2 DEF IInv, TypeOK, Control
    <2>4. Written'
      <3>1. \A o \in Addressed(cmd.ch) : ~(o < cmd.i)
        BY <1>1, <2>2, Selection DEF IInv, Control, Outputs
      <3> QED
        BY <1>1, <2>2, <3>1 DEF IInv, Written, AllWritten
    <2>5. Enables'
      BY <1>1, <2>2 DEF IInv, Enables, GoodSoFar
    <2>6. Acks'
      <3>1. ok /\ cmd.value = LOW => \A o \in Outputs : acked[o] = -1
        BY <1>1, <2>2, Selection DEF IInv, Control, Acks
      <3>2. ~ok \/ cmd.value = HIGH => global' = HIGH \/ global' = global
        BY <1>1
      <3> QED
        BY <1>1, <2>2, <3>1, <3>2 DEF IInv, Acks, AckedOutputsHold, Bit, LOW, HIGH
    <2>7. EventMeansAllOn' /\ Directions'
      BY <1>1 DEF EventMeansAllOn, IInv, Directions
    <2> QED
      BY <2>3, <2>4, <2>5, <2>6, <2>7 DEF IInv
  <1> QED
    BY <1>2, <1>3

\* A write of an output puts its bit into the cache, whether it works or not.
\* The outputs that are acknowledged are others: the cache has them right, so
\* they are right in the latch too, whatever of the byte gets there.
LEMMA OutputKeeps ==
  ASSUME IInv, NEW ok \in BOOLEAN, OutputStep(ok)
  PROVE  IInv'
  <1> DEFINE i == cmd.i
             end == EndOutput(cmd.ch)
  <1>1. /\ cmd.pc = "output" /\ ~event
        /\ cache' = [cache EXCEPT ![i] = cmd.value]
        /\ asked' = [asked EXCEPT ![i] = cmd.value]
        /\ latch' \in IF ok THEN {cache'} ELSE {latch, cache'}
        /\ lastOk' = ok
        /\ UNCHANGED <<server, driven, global, station, event, acked, whole>>
    BY DEF OutputStep, MCP_pinWrite, IInv, Control
  <1>2. /\ cmd \in CommandType /\ cmd.value \in Bit /\ cmd.ch \in 0..AllAtOnce
        /\ i \in Outputs /\ cmd.failed \in BOOLEAN
        /\ cache \in [Outputs -> Bit] /\ asked \in [Outputs -> Bit]
        /\ latch \in [Outputs -> Bit] /\ i \in Int
    BY CommandFields DEF IInv, TypeOK, Outputs
  <1>3. /\ cache' \in [Outputs -> Bit] /\ asked' \in [Outputs -> Bit]
        /\ latch' \in [Outputs -> Bit]
        /\ cache'[i] = cmd.value
        /\ \A o \in Outputs : o # i => cache'[o] = cache[o]
    BY <1>1, <1>2
  <1>4. i \in Addressed(cmd.ch) /\ Addressed(cmd.ch) \subseteq Outputs /\ end \in 1..NumOutputs
    BY <1>1, <1>2, Selection DEF IInv, Control
  <1>5. \A o \in Addressed(cmd.ch) : o <= i => cache'[o] = cmd.value
    BY <1>1, <1>2, <1>3, <1>4 DEF IInv, Written, Outputs
  \* The three ways on: the next output, the pause before it, the return.
  <1>6. \/ /\ i + 1 < end
           /\ \/ cmd' = [cmd EXCEPT !.i = @ + 1, !.pc = "wait"] /\ Stagger(cmd) /\ ok
              \/ cmd' = [cmd EXCEPT !.i = @ + 1, !.pc = "output"] /\ ok
              \/ cmd' = [cmd EXCEPT !.i = @ + 1, !.failed = TRUE]
        \/ /\ cmd' = [cmd EXCEPT !.pc = "done", !.result = -1]
           /\ i + 1 >= end \/ Stagger(cmd)
        \/ /\ cmd' = [cmd EXCEPT !.pc = "done", !.result = 0]
           /\ i + 1 >= end /\ ok /\ ~cmd.failed
    <2>1. i + 1 < end \/ i + 1 >= end
      BY <1>2, <1>4
    <2> QED
      BY <2>1 DEF OutputStep, NextOutput, Return
  <1> HIDE DEF i, end
  <1>7. /\ cmd' \in CommandType /\ cmd'.value = cmd.value /\ cmd'.ch = cmd.ch
        /\ \/ /\ i + 1 < end
              /\ cmd'.pc = "output" \/ (cmd'.pc = "wait" /\ Stagger(cmd))
              /\ cmd'.i = i + 1
              /\ ~cmd'.failed => ~cmd.failed
           \/ /\ cmd'.pc = "done" /\ cmd'.result = -1
              /\ i + 1 >= end \/ Stagger(cmd)
           \/ /\ cmd'.pc = "done" /\ cmd'.result = 0
              /\ i + 1 >= end /\ ok /\ ~cmd.failed
    <2>1. i + 1 < end => i + 1 \in Outputs
      BY <1>2, <1>4 DEF Outputs
    <2>2. CASE i + 1 < end /\ cmd' = [cmd EXCEPT !.i = @ + 1, !.pc = "wait"] /\ Stagger(cmd)
      <3>1. cmd' = [cmd EXCEPT !.i = i + 1, !.pc = "wait"] /\ i + 1 \in Outputs
        BY <1>2, <2>1, <2>2 DEF i
      <3>2. cmd' \in CommandType
        BY <1>2, <3>1 DEF CommandType
      <3>3. /\ cmd'.value = cmd.value /\ cmd'.ch = cmd.ch /\ cmd'.pc = "wait"
            /\ cmd'.i = i + 1 /\ cmd'.failed = cmd.failed
        BY <1>2, <3>1 DEF CommandType
      <3> QED
        BY <2>2, <3>2, <3>3
    <2>3. CASE i + 1 < end /\ cmd' = [cmd EXCEPT !.i = @ + 1, !.pc = "output"]
      <3>1. cmd' = [cmd EXCEPT !.i = i + 1, !.pc = "output"] /\ i + 1 \in Outputs
        BY <1>2, <2>1, <2>3 DEF i
      <3>2. cmd' \in CommandType
        BY <1>2, <3>1 DEF CommandType
      <3>3. /\ cmd'.value = cmd.value /\ cmd'.ch = cmd.ch /\ cmd'.pc = "output"
            /\ cmd'.i = i + 1 /\ cmd'.failed = cmd.failed
        BY <1>2, <3>1 DEF CommandType
      <3> QED
        BY <2>3, <3>2, <3>3
    <2>4. CASE i + 1 < end /\ cmd' = [cmd EXCEPT !.i = @ + 1, !.failed = TRUE]
      BY <1>1, <1>2, <2>1, <2>4 DEF CommandType, i
    <2>5. CASE /\ cmd' = [cmd EXCEPT !.pc = "done", !.result = -1]
               /\ i + 1 >= end \/ Stagger(cmd)
      BY <1>2, <2>5 DEF CommandType
    <2>6. CASE /\ cmd' = [cmd EXCEPT !.pc = "done", !.result = 0]
               /\ i + 1 >= end /\ ok /\ ~cmd.failed
      BY <1>2, <2>6 DEF CommandType
    <2> QED
      BY <1>6, <2>2, <2>3, <2>4, <2>5, <2>6
  <1>8. TypeOK'
    BY <1>1, <1>3, <1>7 DEF IInv, TypeOK
  <1>9. Control'
    <2>1. i + 1 < end => FirstOutput(cmd.ch) <= i + 1
      BY <1>1, <1>2, Selection DEF IInv, Control, Outputs, i
    <2> QED
      BY <1>1, <1>7, <2>1 DEF IInv, Control, Stagger, end
  <1>10. Written'
    <2>1. server' = "up" => cache' = asked'
      BY <1>1 DEF IInv, Written
    <2>2. lastOk' => latch' = cache'
      BY <1>1
    <2>3. i + 1 >= end => \A o \in Addressed(cmd.ch) : cache'[o] = cmd.value
      BY <1>2, <1>4, <1>5, Selection DEF end, Outputs
    <2>4. cmd'.pc \in {"output", "wait"} =>
            \A o \in Addressed(cmd.ch) : o < cmd'.i => cache'[o] = cmd.value
      <3>1. \A o \in Addressed(cmd.ch) : o < i + 1 => o <= i
        BY <1>2, <1>4 DEF Outputs
      <3>2. cmd'.pc \in {"output", "wait"} => cmd'.i = i + 1
        BY <1>7
      <3> QED
        BY <3>1, <3>2, <1>5
    <2>5. AllWritten' => i + 1 >= end
      BY <1>7 DEF AllWritten, Stagger, LOW, HIGH
    <2>6. cmd'.pc = "done" /\ cmd'.result = 0 => lastOk'
      BY <1>1, <1>7
    <2> QED
      BY <1>7, <2>1, <2>2, <2>3, <2>4, <2>5, <2>6 DEF Written
  <1>11. Enables'
    <2>1. GoodSoFar' => GoodSoFar
      BY <1>1, <1>2, <1>7 DEF GoodSoFar
    <2> QED
      BY <1>1, <1>7, <2>1 DEF IInv, Enables
  <1>12. Acks'
    <2>1. \A o \in Addressed(cmd.ch) : acked'[o] = -1
      BY <1>1 DEF IInv, Acks
    <2>2. \A o \in Outputs : acked'[o] # -1 => cache'[o] = acked'[o]
      BY <1>1, <1>3, <1>4, <2>1 DEF IInv, Acks
    <2>3. AckedOutputsHold'
      <3>1. \A o \in Outputs : latch'[o] \in {latch[o], cache'[o]}
        BY <1>1
      <3> QED
        BY <1>1, <2>2, <3>1 DEF IInv, Acks, AckedOutputsHold
    <2> QED
      BY <1>7, <2>1, <2>2, <2>3 DEF Acks
  <1>13. EventMeansAllOn' /\ Directions'
    BY <1>1 DEF EventMeansAllOn, IInv, Directions
  <1> QED
    BY <1>8, <1>9, <1>10, <1>11, <1>12, <1>13 DEF IInv

\* The pause of a staggered start writes nothing.
LEMMA WaitKeeps ==
  ASSUME IInv, NEW ok \in BOOLEAN, WaitStep(ok)
  PROVE  IInv'
  <1>1. /\ cmd.pc = "wait" /\ Stagger(cmd) /\ ~event
        /\ UNCHANGED <<server, cache, latch, driven, global, station, event,
                       lastOk, asked, acked, whole>>
    BY DEF WaitStep, hardware, IInv, Control
  <1>2. CASE ok
    <2>1. cmd' = [cmd EXCEPT !.pc = "output"]
      BY <1>2 DEF WaitStep
    <2>2. /\ cmd' \in CommandType /\ cmd'.pc = "output" /\ cmd'.value = cmd.value
          /\ cmd'.ch = cmd.ch /\ cmd'.i = cmd.i /\ cmd'.failed = cmd.failed
      BY <2>1 DEF IInv, TypeOK, CommandType
    <2>3. TypeOK' /\ Control'
      BY <1>1, <2>2 DEF IInv, TypeOK, Control
    <2>4. Written' /\ Acks'
      BY <1>1, <2>2 DEF IInv, Written, AllWritten, Acks, AckedOutputsHold
    <2>5. Enables' /\ EventMeansAllOn'
      BY <1>1, <2>2 DEF IInv, Enables, GoodSoFar, EventMeansAllOn
    <2>6. Directions'
      BY <1>1 DEF IInv, Directions
    <2> QED
      BY <2>3, <2>4, <2>5, <2>6 DEF IInv
  <1>3. CASE ~ok
    <2>1. cmd' = [cmd EXCEPT !.pc = "done", !.result = -1]
      BY <1>3 DEF WaitStep, Return
    <2>2. ~(cmd.value = LOW /\ cmd.ch = All)
      BY <1>1 DEF Stagger, LOW, HIGH
    <2> QED
      BY <1>1, <2>1, <2>2, ReturnFails DEF IInv, TypeOK
  <1> QED
    BY <1>2, <1>3

\* A command that succeeded has every output it addresses in the latch, and
\* the enable lines as it wants them: that is what it acknowledges.
LEMMA FinishKeeps ==
  ASSUME IInv, Finish
  PROVE  IInv'
  <1>1. /\ cmd.pc = "done" /\ ~event /\ cmd' = [cmd EXCEPT !.pc = "idle"]
        /\ event' \in BOOLEAN
        /\ event' => cmd.value = HIGH /\ cmd.ch >= All /\ cmd.result = 0
        /\ acked' = [o \in Outputs |->
                       IF o \in Addressed(cmd.ch) /\ cmd.result = 0
                       THEN cmd.value ELSE acked[o]]
        /\ UNCHANGED <<server, cache, latch, driven, global, station, lastOk, asked, whole>>
    BY DEF Finish, hardware, IInv, Control
  <1>2. /\ cmd' \in CommandType /\ cmd'.pc = "idle"
        /\ cmd.value \in Bit /\ cmd.ch \in 0..AllAtOnce
    BY <1>1 DEF IInv, TypeOK, CommandType
  <1>3. TypeOK'
    <2>1. acked' \in [Outputs -> Bit \cup {-1}]
      BY <1>1, <1>2 DEF IInv, TypeOK
    <2> QED
      BY <1>1, <1>2, <2>1 DEF IInv, TypeOK
  <1>4. Control' /\ Enables'
    BY <1>1, <1>2 DEF Control, Enables, GoodSoFar
  <1>5. Written'
    BY <1>1, <1>2 DEF IInv, Written, AllWritten
  <1>6. cmd.result = 0 =>
          /\ latch = cache
          /\ \A o \in Addressed(cmd.ch) : cache[o] = cmd.value
          /\ cmd.value = HIGH => global = HIGH
          /\ cmd.value = HIGH /\ cmd.ch >= All => station = 1
          /\ whole => driven = Outputs
    BY <1>1 DEF IInv, Control, Written, AllWritten, Enables, GoodSoFar, Directions
  <1>7. Acks'
    <2>1. \A o \in Outputs : acked'[o] # -1 =>
            \/ acked'[o] = acked[o]
            \/ cmd.result = 0 /\ o \in Addressed(cmd.ch) /\ acked'[o] = cmd.value
      BY <1>1
    <2> QED
      BY <1>1, <1>2, <1>6, <2>1 DEF IInv, Acks, AckedOutputsHold
  <1>8. EventMeansAllOn'
    <2>1. cmd.ch >= All => Addressed(cmd.ch) = Outputs
      BY <1>2, Selection
    <2> QED
      BY <1>1, <1>6, <2>1 DEF EventMeansAllOn
  <1>9. Directions'
    BY <1>1 DEF IInv, Directions
  <1> QED
    BY <1>3, <1>4, <1>5, <1>7, <1>8, <1>9 DEF IInv

\* A pulse on the station reset between two commands, or no step at all.
LEMMA IdleKeeps ==
  ASSUME IInv, (\E ok \in BOOLEAN : StationReset(ok)) \/ UNCHANGED vars
  PROVE  IInv'
  <1>1. /\ UNCHANGED <<server, cache, latch, driven, global, lastOk, asked, acked, whole>>
        /\ \/ UNCHANGED <<cmd, event, station>>
           \/ cmd' = NoCommand /\ event' = FALSE /\ station' \in Bit
    BY DEF StationReset, station_reset_pulse, vars, IInv, TypeOK, Bit
  <1>2. NoCommand \in CommandType /\ NoCommand.pc = "idle"
    BY DEF NoCommand, CommandType, Bit, LOW, Outputs, AllAtOnce
  <1>3. CASE UNCHANGED <<cmd, event, station>>
    <2>1. TypeOK' /\ Control'
      BY <1>1, <1>3 DEF IInv, TypeOK, Control
    <2>2. Written' /\ Enables'
      BY <1>1, <1>3 DEF IInv, Written, AllWritten, Enables, GoodSoFar
    <2>3. Acks' /\ EventMeansAllOn' /\ Directions'
      BY <1>1, <1>3 DEF IInv, Acks, AckedOutputsHold, EventMeansAllOn, Directions
    <2> QED
      BY <2>1, <2>2, <2>3 DEF IInv
  <1>4. CASE cmd' = NoCommand /\ event' = FALSE /\ station' \in Bit
    <2>1. TypeOK' /\ Control'
      BY <1>1, <1>2, <1>4 DEF IInv, TypeOK, Control
    <2>2. Written' /\ Enables'
      BY <1>1, <1>2, <1>4 DEF IInv, Written, AllWritten, Enables, GoodSoFar
    <2>3. Acks' /\ EventMeansAllOn' /\ Directions'
      BY <1>1, <1>2, <1>4 DEF IInv, Acks, AckedOutputsHold, EventMeansAllOn, Directions
    <2> QED
      BY <2>1, <2>2, <2>3 DEF IInv
  <1> QED
    BY <1>1, <1>3, <1>4

-----------------------------------------------------------------------------
\* A server that is down has acknowledged nothing and has no command.
LEMMA InitHolds == Init => IInv
  <1> SUFFICES ASSUME Init PROVE IInv
    OBVIOUS
  <1>1. NoCommand \in CommandType /\ NoCommand.pc = "idle"
    BY DEF NoCommand, CommandType, Bit, LOW, Outputs, AllAtOnce
  <1>2. TypeOK
    BY <1>1 DEF Init, TypeOK, Bit, LOW
  <1>3. Control /\ Written /\ Enables
    BY <1>1 DEF Init, Control, Written, AllWritten, Enables, GoodSoFar
  <1>4. Acks /\ EventMeansAllOn /\ Directions
    BY <1>1 DEF Init, Acks, AckedOutputsHold, EventMeansAllOn, Directions
  <1> QED
    BY <1>2, <1>3, <1>4 DEF IInv

\* The inductive invariant of LV control: no failed write, crash or restart at
\* any step of any command breaks it.
THEOREM LvInvariant == Spec => []IInv
  <1>1. ASSUME IInv, [Next]_vars
        PROVE  IInv'
    <2>1. ASSUME NEW stage \in LvStages, NEW hv \in {0, -1}, Start(stage, hv)
          PROVE  IInv'
      BY <1>1, <2>1, StartKeeps
    <2>2. CASE Crash \/ Finish \/ UNCHANGED vars
      BY <1>1, <2>2, CrashKeeps, FinishKeeps, IdleKeeps
    <2>3. ASSUME NEW value \in Bit, NEW ch \in 0..AllAtOnce, Begin(value, ch)
          PROVE  IInv'
      BY <1>1, <2>3, BeginKeeps
    <2>4. ASSUME NEW ok \in BOOLEAN,
                 \/ ResetStep(ok) \/ GlobalStep(ok) \/ OutputStep(ok)
                 \/ WaitStep(ok) \/ StationReset(ok)
          PROVE  IInv'
      BY <1>1, <2>4, ResetKeeps, GlobalKeeps, OutputKeeps, WaitKeeps, IdleKeeps
    <2> QED
      BY <1>1, <2>1, <2>2, <2>3, <2>4 DEF Next
  <1> QED
    BY InitHolds, <1>1, PTL DEF Spec

\* Every variable of LV control keeps its type: a selector is never used as an
\* index past the outputs.
THEOREM LvTypeOK == Spec => []TypeOK
  BY LvInvariant, PTL DEF IInv

\* What the server acknowledged of an output is in the expander's output
\* register, and on a driven pin when initialize_i2c_lv went through, whatever
\* commands on other outputs failed, were cut short or went half way.
THEOREM LvAckedOutputsHold == Spec => []AckedOutputsHold
  BY LvInvariant, PTL DEF IInv, Acks

\* A command that is acknowledged has carried out every failed write before it
\* as well (MCP_pinWrite sends the whole cached byte).
THEOREM LvAckSettles == Spec => []AckSettlesEarlierFailures
  <1>1. IInv => AckSettlesEarlierFailures
    BY DEF IInv, Control, Written, AckSettlesEarlierFailures
  <1> QED
    BY <1>1, LvInvariant, PTL

\* A shutdown whose last write worked has switched every output off, whatever
\* failed before that write.
THEOREM LvShutdownRepairs == Spec => []ShutdownRepairs
  <1>1. IInv => ShutdownRepairs
    <2> SUFFICES ASSUME IInv, cmd.pc = "done", cmd.value = LOW, cmd.ch = All, lastOk
                 PROVE  /\ \A o \in Outputs : latch[o] = LOW
                        /\ cmd.result = 0 => global = LOW
      BY DEF ShutdownRepairs
    <2>1. Addressed(cmd.ch) = Outputs /\ cmd.ch >= All
      BY DEF Addressed, All
    <2>2. latch = cache /\ \A o \in Outputs : cache[o] = LOW
      BY <2>1 DEF IInv, Written, AllWritten
    <2>3. cmd.result = 0 => global = LOW
      BY <2>1 DEF IInv, Enables, GoodSoFar
    <2> QED
      BY <2>2, <2>3
  <1> QED
    BY <1>1, LvInvariant, PTL

\* rs485-server is told of a power-on only when every output and the shared
\* enable are on and the stations are out of reset, the outputs on driven pins
\* when initialize_i2c_lv went through.
THEOREM LvEventMeansAllOn == Spec => []EventMeansAllOn
  BY LvInvariant, PTL DEF IInv

=============================================================================
