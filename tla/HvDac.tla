--------------------------------- MODULE HvDac ---------------------------------
(***************************************************************************)
(* The HV set points in lvhv-server: the i2c worker's set_hv_by_dac and    *)
(* query_hv_dac_cache, and the DAC8164 chips behind the second expander.   *)
(*                                                                         *)
(* The chips share the clock and data lines and have a sync line each; a   *)
(* word is clocked in bit by bit through MCP_pinWrite, which changes the   *)
(* cached byte first and then sends all of it.  A write that fails may or  *)
(* may not have reached the pins, ends the transfer, and is followed by    *)
(* two best-effort writes that put the lines back to idle.                 *)
(*                                                                         *)
(* Each chip is given one channel here (four in the code, told apart by    *)
(* two bits of the word).  A word is the setting, highest bit first, and a *)
(* spare bit that the chip ignores (24 bits in the code: address, command  *)
(* and channel, 14 of setting, two spare).                                 *)
(***************************************************************************)
EXTENDS Integers

CONSTANTS
  Dacs,        \* the DAC8164 chips (three)
  SettingBits, \* the bits of a setting
  Settings     \* the settings that clients ask for

ASSUME HvDacAssumption ==
  /\ SettingBits \in Nat \ {0}
  /\ Settings \subseteq 0..(2^SettingBits - 1)

VARIABLES
  cache,     \* _outputCache of the HV expander
  pins,      \* the pins of the expander
  shift,     \* shift[d]: the bits chip d has taken since its sync line fell
  out,       \* out[d]: the DAC register of chip d, the HV set point
  hv_dac,    \* the server's cache of set points
  xfer,      \* the transfer under way
  lastAck,   \* lastAck[d]: the last setting acknowledged for d, by any process
  attempts   \* attempts[d]: the settings attempted for d since then

chips == <<shift, out>>
vars == <<cache, pins, shift, out, hv_dac, xfer, lastAck, attempts>>

Bit == {0, 1}
LOW == 0
HIGH == 1
WordBits == SettingBits + 1
Values == 0..(2^SettingBits - 1)
Pins == [sync : [Dacs -> Bit], sclk : Bit, sdi : Bit]

\* data |= value << 2, and bit i of it: (data >> i) & 1.
WordOf(v) == 2 * v
BitOf(word, i) == (word \div 2^i) % 2

Quiet == [pc |-> "idle", dac |-> "none", value |-> 0, i |-> 0, ok |-> FALSE]
Steps == {"idle", "sclk0", "sync0", "sdi", "clock1", "clock0", "sync1",
          "idle_sclk", "idle_sync", "done"}

TypeOK ==
  /\ cache \in Pins
  /\ pins \in Pins
  /\ shift \in [Dacs -> [n : 0..WordBits, word : 0..(2^WordBits - 1)]]
  /\ out \in [Dacs -> Values]
  /\ hv_dac \in [Dacs -> Values]
  /\ xfer \in [pc : Steps, dac : Dacs \cup {"none"}, value : Values,
               i : 0..(WordBits - 1), ok : BOOLEAN]
  /\ lastAck \in [Dacs -> Values]
  /\ attempts \in [Dacs -> SUBSET Values]

IdlePins == [sync |-> [d \in Dacs |-> HIGH], sclk |-> LOW, sdi |-> LOW]
EmptyShift == [n |-> 0, word |-> 0]

\* The first start on chips that power up at 0.
Init ==
  /\ cache = IdlePins
  /\ pins = IdlePins
  /\ shift = [d \in Dacs |-> EmptyShift]
  /\ out = [d \in Dacs |-> 0]
  /\ hv_dac = [d \in Dacs |-> 0]
  /\ xfer = Quiet
  /\ lastAck = [d \in Dacs |-> 0]
  /\ attempts = [d \in Dacs |-> {}]

-----------------------------------------------------------------------------
(* The chips. *)

Clocked(s, bit) == [n |-> s.n + 1, word |-> 2 * s.word + bit]
Setting(word) == word \div 2

\* A falling clock takes a bit while sync is low; the last bit of a word
\* loads the register.  An edge of sync drops what has been taken.
\* A clock that falls as sync rises may or may not be taken.
ChipSees(d, old, new, s, o) ==
  LET falls == old.sclk = HIGH /\ new.sclk = LOW
      taken == Clocked(s, old.sdi)
      loads == falls /\ old.sync[d] = LOW /\ s.n = WordBits - 1
  IN  CASE old.sync[d] # new.sync[d] ->
             {[s |-> EmptyShift, o |-> v] : v \in {o} \cup
                  IF loads THEN {Setting(taken.word)} ELSE {}}
        [] new.sync[d] = LOW /\ old.sync[d] = LOW /\ falls /\ s.n < WordBits ->
             {[s |-> taken, o |-> IF loads THEN Setting(taken.word) ELSE o]}
        [] OTHER -> {[s |-> s, o |-> o]}

\* The pins take a new value and every chip sees it.
Drive(new) ==
  /\ pins' = new
  /\ \E seen \in [Dacs -> UNION {ChipSees(d, pins, new, shift[d], out[d]) :
                                   d \in Dacs}] :
       /\ \A d \in Dacs : seen[d] \in ChipSees(d, pins, new, shift[d], out[d])
       /\ shift' = [d \in Dacs |-> seen[d].s]
       /\ out' = [d \in Dacs |-> seen[d].o]

\* MCP_pinWrite of the HV expander: "byte" is the cached byte with its pin set.
MCP_pinWrite(byte, ok) ==
  /\ cache' = byte
  /\ \/ Drive(byte)
     \/ ~ok /\ UNCHANGED <<pins, chips>>

SetSync(d, v) == [cache EXCEPT !.sync[d] = v]
SetClock(v) == [cache EXCEPT !.sclk = v]
SetData(v) == [cache EXCEPT !.sdi = v]

-----------------------------------------------------------------------------
(* i2c_dac_write and DAC8164_write. *)

set_hv_by_dac(d, v) ==
  /\ xfer.pc = "idle"
  /\ xfer' = [pc |-> "sclk0", dac |-> d, value |-> v, i |-> WordBits - 1,
              ok |-> TRUE]
  /\ attempts' = [attempts EXCEPT ![d] = @ \cup {v}]
  /\ UNCHANGED <<cache, pins, chips, hv_dac, lastAck>>

\* The byte that the step at xfer.pc writes.
StepByte ==
  LET d == xfer.dac
  IN  CASE xfer.pc \in {"sclk0", "clock0", "idle_sclk"} -> SetClock(LOW)
        [] xfer.pc = "clock1" -> SetClock(HIGH)
        [] xfer.pc = "sdi" -> SetData(BitOf(WordOf(xfer.value), xfer.i))
        [] xfer.pc = "sync0" -> SetSync(d, LOW)
        [] OTHER -> SetSync(d, HIGH)

\* Mutant of AfterBit: the bit loop runs once more, for i = -1.
AfterBit_ExtraBit == [xfer EXCEPT !.pc = "sdi", !.i = @ - 1]

\* After a bit: the next one, or the end of the word.
AfterBit == IF xfer.i > 0 THEN [xfer EXCEPT !.pc = "sdi", !.i = @ - 1]
                          ELSE [xfer EXCEPT !.pc = "sync1"]

\* Where the transfer goes after a write that was acknowledged.
AfterStep ==
  CASE xfer.pc = "sclk0"  -> [xfer EXCEPT !.pc = "sync0"]
    [] xfer.pc = "sync0"  -> [xfer EXCEPT !.pc = "sdi"]
    [] xfer.pc = "sdi"    -> [xfer EXCEPT !.pc = "clock1"]
    [] xfer.pc = "clock1" -> [xfer EXCEPT !.pc = "clock0"]
    [] xfer.pc = "clock0" -> AfterBit
    [] xfer.pc = "sync1"  -> [xfer EXCEPT !.pc = "done"]

\* Mutant of Failed: the result of a pin write is not looked at.
Failed_Ignored == AfterStep

\* goto failed.
Failed == [xfer EXCEPT !.pc = "idle_sclk", !.ok = FALSE]

TransferStep(ok) ==
  /\ xfer.pc \in {"sclk0", "sync0", "sdi", "clock1", "clock0", "sync1"}
  /\ MCP_pinWrite(StepByte, ok)
  /\ xfer' = IF ok THEN AfterStep ELSE Failed
  /\ UNCHANGED <<hv_dac, lastAck, attempts>>

\* Mutant of AfterIdle: only the clock line is put back.
AfterIdle_SyncLeftLow == "done"

AfterIdle == IF xfer.pc = "idle_sclk" THEN "idle_sync" ELSE "done"

\* failed: clock low, then sync high, whatever becomes of either.
IdleStep(ok) ==
  /\ xfer.pc \in {"idle_sclk", "idle_sync"}
  /\ MCP_pinWrite(StepByte, ok)
  /\ xfer' = [xfer EXCEPT !.pc = AfterIdle]
  /\ UNCHANGED <<hv_dac, lastAck, attempts>>

\* The set point is cached and acknowledged only after a whole transfer.
i2c_dac_write_returns ==
  LET d == xfer.dac
  IN  /\ xfer.pc = "done"
      /\ IF xfer.ok
         THEN /\ hv_dac' = [hv_dac EXCEPT ![d] = xfer.value]
              /\ lastAck' = [lastAck EXCEPT ![d] = xfer.value]
              /\ attempts' = [attempts EXCEPT ![d] = {}]
         ELSE UNCHANGED <<hv_dac, lastAck, attempts>>
      /\ xfer' = Quiet
      /\ UNCHANGED <<cache, pins, chips>>

\* The process dies and starts again.  MCP_setup makes the lines inputs and
\* initialize_i2c_hv drives them again, each sync line low and then high: what
\* a chip has taken is dropped.  The floating lines are taken to show a chip
\* at most one more clock, which can only be the spare bit of its word.
Restart ==
  /\ cache' = IdlePins
  /\ pins' = IdlePins
  /\ shift' = [d \in Dacs |-> EmptyShift]
  /\ \E clocked \in SUBSET {d \in Dacs : /\ pins.sync[d] = LOW
                                        /\ shift[d].n = WordBits - 1} :
       out' = [d \in Dacs |-> IF d \in clocked THEN shift[d].word ELSE out[d]]
  /\ hv_dac' = [d \in Dacs |-> 0]
  /\ xfer' = Quiet
  /\ UNCHANGED <<lastAck, attempts>>

Next ==
  \/ \E d \in Dacs, v \in Settings : set_hv_by_dac(d, v)
  \/ \E ok \in BOOLEAN : TransferStep(ok) \/ IdleStep(ok)
  \/ i2c_dac_write_returns
  \/ Restart

Spec == Init /\ [][Next]_vars

-----------------------------------------------------------------------------
(* Properties. *)

\* The set point of a chip is always one that was asked of that chip: the last
\* acknowledged one, or one attempted since.  However a transfer fails, and
\* whatever lines it leaves behind, no chip ever loads a cut or mixed word or
\* the word of a transfer to another chip on the shared clock.
SetPointWasRequested ==
  \A d \in Dacs : out[d] \in {lastAck[d]} \cup attempts[d]

\* The clock never rises for a chip the transfer is not meant for: when
\* sclk goes high, only the addressed chip has its sync line low, whatever
\* earlier transfers to other chips left on the lines and in the cached byte.
OneChipClocked ==
  [][(pins.sclk = LOW /\ pins'.sclk = HIGH) =>
       \A d \in Dacs : pins'.sync[d] = LOW => d = xfer.dac]_vars

\* "The cache is the last acknowledged setting": the cached set points are the
\* last acknowledged ones.
CacheIsLastAcknowledged ==
  \A d \in Dacs : hv_dac[d] = lastAck[d]

=============================================================================
