----------------------------- MODULE HvDacProofs -----------------------------
(***************************************************************************)
(* HvDac: no chip ever loads a set point that was not asked of it, and the *)
(* clock rises for the addressed chip only, for any number of chips and    *)
(* any width of a setting.                                                 *)
(*                                                                         *)
(* The argument follows the lines.  A transfer that fails can leave a chip *)
(* with its sync line low and the clock high; the invariant says what such *)
(* a chip holds: the first bits of a setting attempted for it, with the    *)
(* next bit on the data line while the clock is high.                      *)
(***************************************************************************)
EXTENDS HvDac, FiniteSetTheorems, TLAPS

\* The first n bits of the word for setting v.
Prefix(v, n) == WordOf(v) \div 2^(WordBits - n)

\* A chip with shift register s on lines p is taking in the word for v.
Takes(v, s, p) ==
  /\ s.n \in 0..WordBits /\ s.word = Prefix(v, s.n)
  /\ p.sclk = HIGH /\ s.n < WordBits =>
       p.sdi = BitOf(WordOf(v), WordBits - 1 - s.n)

\* What the cached byte and the pins show at each step of a transfer.
Lines ==
  /\ xfer.pc \notin {"clock0", "idle_sclk"} => cache.sclk = LOW
  /\ \A d \in Dacs : cache.sync[d] = LOW =>
       d = xfer.dac /\ xfer.pc \notin {"idle", "sclk0", "sync0", "done"}
  /\ xfer.pc # "idle" => xfer.dac \in Dacs /\ xfer.value \in attempts[xfer.dac]
  /\ xfer.pc \in {"sync0", "sdi", "clock1", "clock0", "sync1"} => pins = cache
  /\ xfer.pc \in {"idle_sclk", "idle_sync"} => ~xfer.ok

\* The chip of the transfer has the bits sent so far, and at its end the
\* setting.
Active ==
  /\ xfer.pc \in {"sclk0", "sync0"} => xfer.i = WordBits - 1
  /\ xfer.pc \in {"sdi", "clock1", "clock0", "sync1"} => cache.sync[xfer.dac] = LOW
  /\ xfer.pc \in {"sdi", "clock1", "clock0"} =>
       /\ shift[xfer.dac].n = WordBits - 1 - xfer.i
       /\ shift[xfer.dac].word = Prefix(xfer.value, WordBits - 1 - xfer.i)
  /\ xfer.pc \in {"clock1", "clock0"} =>
       cache.sdi = BitOf(WordOf(xfer.value), xfer.i)
  /\ xfer.pc = "clock0" => cache.sclk = HIGH
  /\ xfer.pc = "sync1" \/ (xfer.pc = "done" /\ xfer.ok) =>
       out[xfer.dac] = xfer.value
  /\ xfer.pc = "done" /\ xfer.ok => pins = cache

\* A chip that is not selected is empty, one that is selected, by the transfer
\* or by one that failed, is taking in a setting attempted for it.
Chips ==
  \A d \in Dacs :
    /\ pins.sync[d] = HIGH => shift[d] = EmptyShift
    /\ pins.sync[d] = LOW => \E v \in attempts[d] : Takes(v, shift[d], pins)

IInv == TypeOK /\ Lines /\ Active /\ Chips /\ SetPointWasRequested

-----------------------------------------------------------------------------
(* Powers of two and the bits of a word. *)

\* Doubling, which the provers do not know of 2^n: a set of n + 1 elements has
\* twice the subsets of one of n.
LEMMA PowerOfTwo ==
  ASSUME NEW n \in Nat
  PROVE  2^n \in Nat /\ 2^n > 0 /\ 2^(n + 1) = 2 * 2^n
  <1> DEFINE A == SUBSET (1..n)
             B == {X \cup {n + 1} : X \in A}
             f == [X \in A |-> X \cup {n + 1}]
  <1>1. /\ IsFiniteSet(1..n) /\ Cardinality(1..n) = n
        /\ IsFiniteSet(1..(n + 1)) /\ Cardinality(1..(n + 1)) = n + 1
    BY FS_Interval
  <1>2. /\ IsFiniteSet(A) /\ Cardinality(A) = 2^n
        /\ Cardinality(SUBSET (1..(n + 1))) = 2^(n + 1)
    BY <1>1, FS_SUBSET
  <1>3. n + 1 \notin 1..n /\ (1..n) \cup {n + 1} = 1..(n + 1)
    OBVIOUS
  <1>4. A \cup B = SUBSET (1..(n + 1))
    <2>1. \A X \in SUBSET (1..(n + 1)) : n + 1 \notin X => X \in A
      BY <1>3
    <2>2. ASSUME NEW X \in SUBSET (1..(n + 1)), n + 1 \in X
          PROVE  X \in B
      <3>1. X \ {n + 1} \in A /\ X = (X \ {n + 1}) \cup {n + 1}
        BY <1>3, <2>2
      <3> QED
        BY <3>1
    <2>3. A \subseteq SUBSET (1..(n + 1)) /\ B \subseteq SUBSET (1..(n + 1))
      BY <1>3
    <2> QED
      BY <2>1, <2>2, <2>3
  <1>5. A \cap B = {} /\ A # {}
    BY <1>3
  <1>6. /\ f \in [A -> B] /\ \A b \in B : \E a \in A : f[a] = b
        /\ \A a, b \in A : f[a] = f[b] => a = b
    <2>1. n + 1 \notin 1..n
      BY <1>3
    <2>2. \A a, b \in A : f[a] = f[b] => a = b
      BY <2>1
    <2>3. f \in [A -> B]
      OBVIOUS
    <2>4. \A b \in B : \E a \in A : f[a] = b
      OBVIOUS
    <2> QED
      BY <2>2, <2>3, <2>4
  <1> HIDE DEF A, B, f
  <1>7. ExistsBijection(A, B)
    BY <1>6 DEF ExistsBijection, Bijection, Injection, Surjection, IsInjective
  <1>8. IsFiniteSet(B) /\ Cardinality(B) = Cardinality(A)
    BY <1>2, <1>7, FS_Bijection
  <1>9. Cardinality(A \cup B) = Cardinality(A) + Cardinality(B) - Cardinality({})
    BY <1>2, <1>5, <1>8, FS_Union
  <1>10. Cardinality({}) = 0 /\ Cardinality(A) \in Nat /\ Cardinality(A) # 0
    BY <1>2, <1>5, FS_EmptySet, FS_CardinalityType
  <1>11. Cardinality(A \cup B) = 2 * Cardinality(A) /\ Cardinality(A) > 0
    BY <1>8, <1>9, <1>10
  <1> QED
    BY <1>2, <1>4, <1>10, <1>11, Zenon

\* Shifting right by one place less shows one bit more.
LEMMA OneBitMore ==
  ASSUME NEW p \in Nat, p > 0, NEW w \in Nat
  PROVE  w \div p = 2 * (w \div (2 * p)) + ((w \div p) % 2)
  <1> DEFINE q == w \div (2 * p)
             t == w \div p
  <1>1. q \in Nat /\ (2 * p) * q <= w /\ w < (2 * p) * q + 2 * p
    OBVIOUS
  <1>2. t \in Nat /\ p * t <= w /\ w < p * t + p
    OBVIOUS
  <1> HIDE DEF q, t
  <1>3. (2 * p) * q = p * (2 * q) /\ 2 * q \in Nat
    BY <1>1
  <1>4. t >= 2 * q
    <2>1. p * (2 * q) < p * (t + 1)
      BY <1>1, <1>2, <1>3
    <2> QED
      BY <1>1, <1>2, <2>1
  <1>5. t < 2 * q + 2
    <2>1. p * t < p * (2 * q + 2)
      BY <1>1, <1>2, <1>3
    <2> QED
      BY <1>1, <1>2, <2>1
  <1>6. t = 2 * q + (t % 2)
    BY <1>1, <1>2, <1>4, <1>5
  <1> QED
    BY <1>6 DEF q, t

\* The widths of a setting and of a word.
LEMMA Widths ==
  /\ SettingBits \in Nat /\ WordBits \in Nat /\ WordBits >= 2
  /\ 2^SettingBits \in Nat /\ 2^SettingBits > 0
  /\ 2^WordBits = 2 * 2^SettingBits
  /\ Values \subseteq Nat /\ 0 \in Values /\ Settings \subseteq Values
  <1>1. SettingBits \in Nat /\ SettingBits > 0
    BY HvDacAssumption
  <1>2. 2^SettingBits \in Nat /\ 2^SettingBits > 0 /\ 2^(SettingBits + 1) = 2 * 2^SettingBits
    BY <1>1, PowerOfTwo
  <1> QED
    BY <1>1, <1>2, HvDacAssumption DEF WordBits, Values

\* What the chip has taken after n bits: nothing, then a bit more with each
\* clock, before the spare bit the setting itself.
LEMMA PrefixFacts ==
  ASSUME NEW v \in Values
  PROVE  /\ Prefix(v, 0) = 0
         /\ Prefix(v, WordBits - 1) = v
         /\ \A n \in 0..WordBits : Prefix(v, n) \in 0..(2^WordBits - 1)
         /\ \A n \in 0..(WordBits - 1) :
              /\ BitOf(WordOf(v), WordBits - 1 - n) \in Bit
              /\ Prefix(v, n + 1) = 2 * Prefix(v, n) + BitOf(WordOf(v), WordBits - 1 - n)
  <1> DEFINE w == WordOf(v)
             full == 2^WordBits
  <1>1. /\ v \in Nat /\ w \in Nat /\ w = 2 * v /\ WordBits \in Nat /\ WordBits >= 2
        /\ full \in Nat /\ w < full
    BY Widths DEF Values, WordOf
  <1>2. \A m \in Nat : 2^m \in Nat /\ 2^m > 0
    BY PowerOfTwo
  <1>3. \A n \in 0..WordBits : WordBits - n \in Nat
    BY <1>1
  <1>4. Prefix(v, 0) = 0
    <2>1. WordBits - 0 = WordBits
      BY <1>1
    <2>2. Prefix(v, 0) = w \div full
      BY <2>1 DEF Prefix
    <2> HIDE DEF w, full
    <2> QED
      BY <1>1, <2>2
  <1>5. Prefix(v, WordBits - 1) = v
    <2>1. WordBits - (WordBits - 1) = 1 /\ 2^1 = 2
      BY <1>1
    <2>2. Prefix(v, WordBits - 1) = w \div 2
      BY <2>1 DEF Prefix
    <2> HIDE DEF w
    <2> QED
      BY <1>1, <2>2
  <1>6. ASSUME NEW n \in 0..WordBits
        PROVE  Prefix(v, n) \in 0..(2^WordBits - 1)
    <2> DEFINE p == 2^(WordBits - n)
    <2>1. p \in Nat /\ p > 0
      BY <1>2, <1>3
    <2>2. Prefix(v, n) = w \div p
      BY DEF Prefix
    <2> HIDE DEF p, w
    <2>3. w \div p \in Nat /\ p * (w \div p) <= w
      BY <1>1, <2>1
    <2>4. w \div p <= p * (w \div p)
      BY <2>1, <2>3
    <2> HIDE DEF full
    <2>5. w \div p \in 0..(full - 1)
      BY <1>1, <2>1, <2>3, <2>4
    <2> QED
      BY <2>2, <2>5 DEF full
  <1>7. ASSUME NEW n \in 0..(WordBits - 1)
        PROVE  /\ BitOf(w, WordBits - 1 - n) \in Bit
               /\ Prefix(v, n + 1) = 2 * Prefix(v, n) + BitOf(w, WordBits - 1 - n)
    <2> DEFINE m == WordBits - 1 - n
               p == 2^m
    <2>1. m \in Nat /\ WordBits - (n + 1) = m /\ WordBits - n = m + 1
      BY <1>1
    <2>2. p \in Nat /\ p > 0 /\ 2^(m + 1) = 2 * p
      BY <2>1, PowerOfTwo
    <2>3. Prefix(v, n + 1) = w \div p /\ Prefix(v, n) = w \div (2 * p)
      BY <2>1, <2>2 DEF Prefix
    <2>4. BitOf(w, m) = (w \div p) % 2
      BY DEF BitOf
    <2> HIDE DEF m, p, w
    <2>5. w \div p \in Nat
      BY <1>1, <2>2
    <2>6. (w \div p) % 2 \in {0, 1}
      BY <2>5
    <2>7. w \div p = 2 * (w \div (2 * p)) + ((w \div p) % 2)
      BY <1>1, <2>2, OneBitMore
    <2> QED
      BY <2>3, <2>4, <2>6, <2>7 DEF m, Bit
  <1> QED
    BY <1>4, <1>5, <1>6, <1>7

-----------------------------------------------------------------------------
(* The chips. *)

ShiftType == [n : 0..WordBits, word : 0..(2^WordBits - 1)]

\* A chip that is taking in the word for v has, after any change of the lines,
\* dropped it, taken one bit more of it, or is where it was; its register holds
\* what it held, or v.
LEMMA ChipStep ==
  ASSUME pins \in Pins, NEW new \in Pins, NEW d \in Dacs, NEW v \in Values,
         shift[d] \in ShiftType,
         pins.sync[d] = HIGH => shift[d] = EmptyShift,
         pins.sync[d] = LOW => Takes(v, shift[d], pins),
         NEW seen \in ChipSees(d, pins, new, shift[d], out[d])
  PROVE  /\ seen.s \in ShiftType
         /\ seen.o \in {out[d], v}
         /\ pins.sync[d] = HIGH => seen.o = out[d]
         /\ new.sync[d] # pins.sync[d] => seen.s = EmptyShift
         /\ (new.sync[d] = pins.sync[d] /\ ~(pins.sclk = HIGH /\ new.sclk = LOW))
              => seen.s = shift[d]
         /\ ~(pins.sclk = HIGH /\ new.sclk = LOW) => seen.o = out[d]
         /\ new.sync[d] = LOW /\ new.sclk = LOW => Takes(v, seen.s, new)
         /\ (/\ new.sync[d] = LOW /\ pins.sync[d] = LOW
             /\ pins.sclk = HIGH /\ new.sclk = LOW /\ shift[d].n < WordBits)
              => /\ seen.s.n = shift[d].n + 1
                 /\ shift[d].n = WordBits - 1 => seen.o = v
  <1> DEFINE s == shift[d]
             falls == pins.sclk = HIGH /\ new.sclk = LOW
             taken == Clocked(s, pins.sdi)
             loads == falls /\ pins.sync[d] = LOW /\ s.n = WordBits - 1
  <1>1. /\ pins.sync[d] \in Bit /\ new.sync[d] \in Bit /\ pins.sdi \in Bit
        /\ pins.sclk \in Bit /\ new.sclk \in Bit
    BY DEF Pins
  <1>2. /\ WordBits \in Nat /\ WordBits >= 2 /\ 2^WordBits \in Nat /\ 2^WordBits > 0
        /\ v \in Nat
    BY Widths, PowerOfTwo
  <1>3. s.n \in 0..WordBits /\ s.word \in Nat
    BY <1>2 DEF ShiftType
  <1>4. EmptyShift \in ShiftType /\ EmptyShift.n = 0 /\ EmptyShift.word = 0
    BY <1>2 DEF EmptyShift, ShiftType
  <1>5. taken.n = s.n + 1 /\ taken.word = 2 * s.word + pins.sdi
    BY DEF Clocked
  <1>6. ASSUME falls, pins.sync[d] = LOW, s.n < WordBits
        PROVE  /\ taken \in ShiftType
               /\ taken.word = Prefix(v, taken.n)
               /\ s.n = WordBits - 1 => Setting(taken.word) = v
    <2>1. /\ s.n \in 0..(WordBits - 1) /\ s.word = Prefix(v, s.n)
          /\ pins.sdi = BitOf(WordOf(v), WordBits - 1 - s.n)
      BY <1>2, <1>3, <1>6 DEF Takes
    <2>2. taken.word = Prefix(v, s.n + 1)
      BY <1>5, <2>1, PrefixFacts
    <2>3. s.n + 1 \in 0..WordBits
      BY <1>2, <2>1
    <2>4. Prefix(v, s.n + 1) \in 0..(2^WordBits - 1)
      BY <2>3, PrefixFacts
    <2>5. taken \in ShiftType
      BY <1>5, <2>2, <2>3, <2>4 DEF ShiftType, Clocked
    <2>6. s.n = WordBits - 1 => s.word = v
      BY <2>1, PrefixFacts
    <2>7. s.n = WordBits - 1 => Setting(taken.word) = v
      BY <1>1, <1>2, <1>5, <2>6 DEF Setting, Bit
    <2> QED
      BY <1>5, <2>2, <2>5, <2>7
  <1>7. /\ LOW # HIGH /\ Bit = {LOW, HIGH}
    BY DEF LOW, HIGH, Bit
  <1>8. Takes(v, EmptyShift, new) \/ new.sclk # LOW
    BY <1>2, <1>4, <1>7, PrefixFacts DEF Takes
  <1>9. CASE pins.sync[d] # new.sync[d]
    <2>1. seen \in {[s |-> EmptyShift, o |-> x] : x \in {out[d]} \cup
                      IF loads THEN {Setting(taken.word)} ELSE {}}
      BY <1>9 DEF ChipSees
    <2>2. PICK x \in {out[d]} \cup IF loads THEN {Setting(taken.word)} ELSE {} :
            seen = [s |-> EmptyShift, o |-> x]
      BY <2>1
    <2>3. seen.s = EmptyShift /\ seen.o = x
      BY <2>2
    <2>4. x = out[d] \/ (loads /\ x = Setting(taken.word))
      BY <2>2
    <2>5. loads => Setting(taken.word) = v
      BY <1>2, <1>6
    <2> HIDE DEF loads, taken
    <2>6. pins.sync[d] = HIGH \/ ~falls => ~loads
      BY <1>7 DEF loads
    <2> QED
      BY <1>4, <1>8, <1>9, <2>3, <2>4, <2>5, <2>6
  <1>10. CASE /\ pins.sync[d] = new.sync[d]
              /\ new.sync[d] = LOW /\ falls /\ s.n < WordBits
    <2>1. seen = [s |-> taken, o |-> IF loads THEN Setting(taken.word) ELSE out[d]]
      BY <1>10 DEF ChipSees
    <2>2. seen.s = taken /\ seen.o = IF loads THEN Setting(taken.word) ELSE out[d]
      BY <2>1
    <2>3. /\ taken \in ShiftType /\ taken.word = Prefix(v, taken.n)
          /\ s.n = WordBits - 1 => Setting(taken.word) = v
      BY <1>6, <1>10
    <2>4. taken.n \in 0..WordBits
      BY <2>3 DEF ShiftType
    <2>5. Takes(v, taken, new)
      BY <1>7, <1>10, <2>3, <2>4 DEF Takes
    <2>6. loads <=> s.n = WordBits - 1
      BY <1>10
    <2>7. pins.sync[d] # HIGH
      BY <1>7, <1>10
    <2> HIDE DEF taken, loads
    <2> QED
      BY <1>5, <1>10, <2>2, <2>3, <2>5, <2>6, <2>7
  <1>11. CASE /\ pins.sync[d] = new.sync[d]
              /\ ~(new.sync[d] = LOW /\ falls /\ s.n < WordBits)
    <2>1. seen = [s |-> s, o |-> out[d]]
      BY <1>11 DEF ChipSees
    <2>2. seen.s = s /\ seen.o = out[d]
      BY <2>1
    <2>3. new.sync[d] = LOW /\ new.sclk = LOW => Takes(v, s, new)
      BY <1>7, <1>11 DEF Takes
    <2> QED
      BY <1>11, <2>2, <2>3
  <1> QED
    BY <1>9, <1>10, <1>11

\* What each chip makes of a change of the lines.
LEMMA DriveFacts ==
  ASSUME NEW new, Drive(new)
  PROVE  /\ pins' = new
         /\ shift' = [d \in Dacs |-> shift'[d]] /\ out' = [d \in Dacs |-> out'[d]]
         /\ \A d \in Dacs : \E seen \in ChipSees(d, pins, new, shift[d], out[d]) :
              shift'[d] = seen.s /\ out'[d] = seen.o
  <1>1. PICK f \in [Dacs -> UNION {ChipSees(d, pins, new, shift[d], out[d]) : d \in Dacs}] :
          /\ \A d \in Dacs : f[d] \in ChipSees(d, pins, new, shift[d], out[d])
          /\ shift' = [d \in Dacs |-> f[d].s]
          /\ out' = [d \in Dacs |-> f[d].o]
    BY Zenon DEF Drive
  <1>2. \A d \in Dacs : shift'[d] = f[d].s /\ out'[d] = f[d].o
    BY <1>1
  <1> QED
    BY <1>1, <1>2 DEF Drive

-----------------------------------------------------------------------------
(* The lines. *)

Writing == {"sclk0", "sync0", "sdi", "clock1", "clock0", "sync1", "idle_sclk", "idle_sync"}

\* The byte a step writes: a clock that is low except at the step that raises
\* it, and no sync line low but that of the chip of the transfer.
LEMMA StepByteFacts ==
  ASSUME IInv, xfer.pc \in Writing
  PROVE  /\ StepByte \in Pins
         /\ StepByte.sclk = IF xfer.pc = "clock1" THEN HIGH ELSE LOW
         /\ StepByte.sdi = IF xfer.pc = "sdi" THEN BitOf(WordOf(xfer.value), xfer.i)
                                              ELSE cache.sdi
         /\ xfer.pc \in {"sclk0", "sdi", "clock1", "clock0", "idle_sclk"} =>
              StepByte.sync = cache.sync
         /\ xfer.pc = "sync0" => StepByte.sync[xfer.dac] = LOW
         /\ \A d \in Dacs : StepByte.sync[d] = LOW =>
              d = xfer.dac /\ xfer.pc \in {"sync0", "sdi", "clock1", "clock0", "idle_sclk"}
  <1>1. cache \in Pins /\ xfer.dac \in Dacs /\ LOW \in Bit /\ HIGH \in Bit /\ LOW # HIGH
    BY DEF IInv, TypeOK, Lines, Writing, LOW, HIGH, Bit
  <1>2. cache.sync \in [Dacs -> Bit] /\ cache.sclk \in Bit /\ cache.sdi \in Bit
    BY <1>1 DEF Pins
  <1>3. BitOf(WordOf(xfer.value), xfer.i) \in Bit
    <2>1. xfer.value \in Values /\ xfer.i \in 0..(WordBits - 1) /\ WordBits \in Nat
      BY Widths DEF IInv, TypeOK
    <2>2. WordBits - 1 - xfer.i \in 0..(WordBits - 1)
          /\ WordBits - 1 - (WordBits - 1 - xfer.i) = xfer.i
      BY <2>1
    <2> QED
      BY <2>1, <2>2, PrefixFacts
  <1>4. \A v \in Bit : /\ SetClock(v) = [sync |-> cache.sync, sclk |-> v, sdi |-> cache.sdi]
                       /\ SetData(v) = [sync |-> cache.sync, sclk |-> cache.sclk, sdi |-> v]
                       /\ SetSync(xfer.dac, v) =
                            [sync |-> [cache.sync EXCEPT ![xfer.dac] = v],
                             sclk |-> cache.sclk, sdi |-> cache.sdi]
    BY <1>1, <1>2 DEF SetClock, SetData, SetSync, Pins
  <1>5. CASE xfer.pc \in {"sclk0", "clock0", "idle_sclk"}
    <2>1. StepByte = [sync |-> cache.sync, sclk |-> LOW, sdi |-> cache.sdi]
      BY <1>1, <1>4, <1>5 DEF StepByte
    <2> QED
      BY <1>1, <1>2, <1>5, <2>1 DEF Pins, IInv, Lines
  <1>6. CASE xfer.pc = "clock1"
    <2>1. StepByte = [sync |-> cache.sync, sclk |-> HIGH, sdi |-> cache.sdi]
      BY <1>1, <1>4, <1>6 DEF StepByte
    <2> QED
      BY <1>1, <1>2, <1>6, <2>1 DEF Pins, IInv, Lines
  <1>7. CASE xfer.pc = "sdi"
    <2>1. StepByte = [sync |-> cache.sync, sclk |-> cache.sclk,
                      sdi |-> BitOf(WordOf(xfer.value), xfer.i)]
      BY <1>3, <1>4, <1>7 DEF StepByte
    <2> QED
      BY <1>1, <1>2, <1>3, <1>7, <2>1 DEF Pins, IInv, Lines
  <1>8. CASE xfer.pc = "sync0"
    <2>1. StepByte = [sync |-> [cache.sync EXCEPT ![xfer.dac] = LOW],
                      sclk |-> cache.sclk, sdi |-> cache.sdi]
      BY <1>1, <1>4, <1>8 DEF StepByte
    <2> QED
      BY <1>1, <1>2, <1>8, <2>1 DEF Pins, IInv, Lines
  <1>9. CASE xfer.pc \in {"sync1", "idle_sync"}
    <2>1. StepByte = [sync |-> [cache.sync EXCEPT ![xfer.dac] = HIGH],
                      sclk |-> cache.sclk, sdi |-> cache.sdi]
      BY <1>1, <1>4, <1>9 DEF StepByte
    <2> QED
      BY <1>1, <1>2, <1>9, <2>1 DEF Pins, IInv, Lines
  <1> QED
    BY <1>5, <1>6, <1>7, <1>8, <1>9 DEF Writing

\* The chip of a transfer under way is taking in its setting.
LEMMA ActiveTakes ==
  ASSUME IInv, xfer.pc \in {"sdi", "clock1", "clock0"}
  PROVE  /\ Takes(xfer.value, shift[xfer.dac], pins)
         /\ shift[xfer.dac].n = WordBits - 1 - xfer.i
         /\ shift[xfer.dac].n < WordBits
  <1>1. xfer.i \in 0..(WordBits - 1) /\ WordBits \in Nat
    BY Widths DEF IInv, TypeOK
  <1>2. /\ pins = cache /\ shift[xfer.dac].n = WordBits - 1 - xfer.i
        /\ shift[xfer.dac].word = Prefix(xfer.value, WordBits - 1 - xfer.i)
    BY DEF IInv, Lines, Active
  <1>3. xfer.pc # "clock0" => cache.sclk = LOW
    BY DEF IInv, Lines
  <1>4. xfer.pc = "clock0" => cache.sdi = BitOf(WordOf(xfer.value), xfer.i)
    BY DEF IInv, Active
  <1>5. WordBits - 1 - (WordBits - 1 - xfer.i) = xfer.i /\ LOW # HIGH
        /\ WordBits - 1 - xfer.i \in 0..WordBits /\ WordBits - 1 - xfer.i < WordBits
    BY <1>1 DEF LOW, HIGH
  <1> QED
    BY <1>2, <1>3, <1>4, <1>5 DEF Takes

\* A write of the step's byte, taken or not, leaves every chip empty or with
\* the first bits of a setting attempted for it, and every register with a
\* setting that was asked for.
LEMMA ChipsKept ==
  ASSUME IInv, xfer.pc \in Writing, attempts' = attempts, lastAck' = lastAck,
         Drive(StepByte) \/ UNCHANGED <<pins, chips>>
  PROVE  /\ Chips' /\ SetPointWasRequested'
         /\ pins' \in Pins /\ shift' \in [Dacs -> ShiftType] /\ out' \in [Dacs -> Values]
  <1>1. /\ pins \in Pins /\ shift \in [Dacs -> ShiftType] /\ out \in [Dacs -> Values]
        /\ attempts \in [Dacs -> SUBSET Values] /\ xfer.dac \in Dacs /\ xfer.value \in Values
        /\ xfer.value \in attempts[xfer.dac] /\ 0 \in Values
    BY Widths DEF IInv, TypeOK, Lines, Writing, ShiftType
  <1>2. CASE UNCHANGED <<pins, chips>>
    BY <1>1, <1>2 DEF IInv, Chips, SetPointWasRequested, chips
  <1>3. CASE Drive(StepByte)
    <2>1. /\ StepByte \in Pins
          /\ StepByte.sclk = IF xfer.pc = "clock1" THEN HIGH ELSE LOW
          /\ \A d \in Dacs : StepByte.sync[d] = LOW => d = xfer.dac
      BY StepByteFacts
    <2>2. /\ pins' = StepByte /\ shift' = [d \in Dacs |-> shift'[d]]
          /\ out' = [d \in Dacs |-> out'[d]]
          /\ \A d \in Dacs : \E seen \in ChipSees(d, pins, StepByte, shift[d], out[d]) :
               shift'[d] = seen.s /\ out'[d] = seen.o
      BY <1>3, DriveFacts
    <2>3. LOW # HIGH /\ Bit = {LOW, HIGH}
      BY DEF LOW, HIGH, Bit
    <2>4. ASSUME NEW d \in Dacs
          PROVE  /\ shift'[d] \in ShiftType /\ out'[d] \in {out[d]} \cup attempts[d]
                 /\ StepByte.sync[d] = HIGH => shift'[d] = EmptyShift
                 /\ StepByte.sync[d] = LOW =>
                      \E v \in attempts[d] : Takes(v, shift'[d], StepByte)
      <3>1. PICK seen \in ChipSees(d, pins, StepByte, shift[d], out[d]) :
              shift'[d] = seen.s /\ out'[d] = seen.o
        BY <2>2
      <3>2. /\ pins.sync[d] \in {LOW, HIGH} /\ StepByte.sync[d] \in {LOW, HIGH}
            /\ pins.sync[d] = HIGH => shift[d] = EmptyShift
            /\ pins.sync[d] = LOW => \E v \in attempts[d] : Takes(v, shift[d], pins)
        BY <1>1, <2>1, <2>3 DEF Pins, IInv, Chips
      <3>3. PICK v \in Values : /\ pins.sync[d] = LOW => v \in attempts[d]
                                                         /\ Takes(v, shift[d], pins)
                                /\ d = xfer.dac => v \in attempts[d]
        <4>1. CASE pins.sync[d] = LOW
          BY <1>1, <3>2, <4>1
        <4>2. CASE pins.sync[d] = HIGH /\ d = xfer.dac
          BY <1>1, <2>3, <4>2
        <4>3. CASE pins.sync[d] = HIGH /\ d # xfer.dac
          BY <1>1, <2>3, <4>3
        <4> QED
          BY <3>2, <4>1, <4>2, <4>3
      <3>4. shift[d] \in ShiftType
        BY <1>1
      <3>5. /\ seen.s \in ShiftType
            /\ seen.o \in {out[d], v}
            /\ pins.sync[d] = HIGH => seen.o = out[d]
            /\ StepByte.sync[d] # pins.sync[d] => seen.s = EmptyShift
            /\ (StepByte.sync[d] = pins.sync[d] /\ ~(pins.sclk = HIGH /\ StepByte.sclk = LOW))
                 => seen.s = shift[d]
            /\ StepByte.sync[d] = LOW /\ StepByte.sclk = LOW => Takes(v, seen.s, StepByte)
        BY <1>1, <2>1, <3>1, <3>2, <3>3, <3>4, ChipStep
      <3>6. StepByte.sync[d] = HIGH => seen.s = EmptyShift
        <4>1. CASE pins.sync[d] = LOW
          BY <2>3, <3>5, <4>1
        <4>2. CASE pins.sync[d] = HIGH /\ StepByte.sync[d] = HIGH
          <5>1. shift[d] = EmptyShift
            BY <3>2, <4>2
          <5>2. \A x \in ChipSees(d, pins, StepByte, EmptyShift, out[d]) : x.s = EmptyShift
            BY <2>3, <4>2 DEF ChipSees
          <5> QED
            BY <3>1, <5>1, <5>2
        <4> QED
          BY <3>2, <4>1, <4>2
      <3>7. ASSUME StepByte.sync[d] = LOW
            PROVE  v \in attempts[d] /\ \E u \in attempts[d] : Takes(u, seen.s, StepByte)
        <4>1. v \in attempts[d] /\ d = xfer.dac
          BY <2>1, <3>3, <3>7
        <4>2. CASE xfer.pc # "clock1"
          BY <2>1, <3>5, <3>7, <4>1, <4>2
        <4>3. CASE xfer.pc = "clock1"
          <5>1. /\ pins = cache /\ StepByte.sync = cache.sync /\ StepByte.sdi = cache.sdi
                /\ StepByte.sclk = HIGH
            BY <4>3, StepByteFacts DEF IInv, Lines
          <5>2. seen.s = shift[d]
            BY <2>3, <3>5, <5>1
          <5>3. /\ Takes(xfer.value, shift[d], pins) /\ shift[d].n = WordBits - 1 - xfer.i
            BY <4>1, <4>3, ActiveTakes
          <5>4. cache.sdi = BitOf(WordOf(xfer.value), xfer.i)
            BY <4>3 DEF IInv, Active
          <5>5. WordBits - 1 - (WordBits - 1 - xfer.i) = xfer.i
            BY Widths DEF IInv, TypeOK
          <5>6. Takes(xfer.value, shift[d], StepByte)
            BY <5>1, <5>3, <5>4, <5>5 DEF Takes
          <5> QED
            BY <1>1, <4>1, <5>2, <5>6
        <4> QED
          BY <4>2, <4>3
      <3>8. seen.o \in {out[d]} \cup attempts[d]
        BY <3>2, <3>3, <3>5
      <3> QED
        BY <3>1, <3>5, <3>6, <3>7, <3>8
    <2>5. shift' \in [Dacs -> ShiftType]
      BY <2>2, <2>4
    <2>6. \A d \in Dacs : out'[d] \in Values
      BY <1>1, <2>4
    <2>7. out' \in [Dacs -> Values]
      BY <2>2, <2>6
    <2>8. Chips'
      BY <2>2, <2>4 DEF Chips
    <2>9. SetPointWasRequested'
      BY <2>4 DEF IInv, SetPointWasRequested
    <2> QED
      BY <2>1, <2>2, <2>5, <2>7, <2>8, <2>9
  <1> QED
    BY <1>2, <1>3

-----------------------------------------------------------------------------
(* The steps of a transfer. *)

\* A step whose write was acknowledged: the pins show the byte, and the chip of
\* the transfer has taken it.
LEMMA AcknowledgedStep ==
  ASSUME IInv, TransferStep(TRUE)
  PROVE  (Lines /\ Active)' /\ xfer'.pc \in Steps /\ xfer'.i \in 0..(WordBits - 1)
         /\ xfer' = [xfer EXCEPT !.pc = xfer'.pc, !.i = xfer'.i]
  <1> USE DEF Writing
  <1>1. /\ xfer.pc \in {"sclk0", "sync0", "sdi", "clock1", "clock0", "sync1"}
        /\ cache' = StepByte /\ Drive(StepByte) /\ xfer' = AfterStep
        /\ hv_dac' = hv_dac /\ lastAck' = lastAck /\ attempts' = attempts
    BY DEF TransferStep, MCP_pinWrite
  <1>2. /\ xfer.dac \in Dacs /\ xfer.value \in Values /\ xfer.value \in attempts[xfer.dac]
        /\ xfer.i \in 0..(WordBits - 1) /\ WordBits \in Nat /\ WordBits >= 2
        /\ pins \in Pins /\ cache \in Pins /\ shift[xfer.dac] \in ShiftType
    BY <1>1, Widths DEF IInv, TypeOK, Lines, ShiftType
  <1>3. xfer \in [pc : Steps, dac : Dacs \cup {"none"}, value : Values,
                  i : 0..(WordBits - 1), ok : BOOLEAN]
    BY DEF IInv, TypeOK
  <1>4. /\ StepByte \in Pins
        /\ StepByte.sclk = IF xfer.pc = "clock1" THEN HIGH ELSE LOW
        /\ StepByte.sdi = IF xfer.pc = "sdi" THEN BitOf(WordOf(xfer.value), xfer.i)
                                             ELSE cache.sdi
        /\ xfer.pc \in {"sclk0", "sdi", "clock1", "clock0"} => StepByte.sync = cache.sync
        /\ xfer.pc = "sync0" => StepByte.sync[xfer.dac] = LOW
        /\ \A d \in Dacs : StepByte.sync[d] = LOW =>
             d = xfer.dac /\ xfer.pc \in {"sync0", "sdi", "clock1", "clock0"}
    BY <1>1, StepByteFacts
  <1>5. /\ pins' = StepByte
        /\ \E seen \in ChipSees(xfer.dac, pins, StepByte, shift[xfer.dac], out[xfer.dac]) :
             shift'[xfer.dac] = seen.s /\ out'[xfer.dac] = seen.o
    BY <1>1, <1>2, DriveFacts
  <1>6. LOW # HIGH /\ Bit = {LOW, HIGH}
    BY DEF LOW, HIGH, Bit
  <1>7. PICK seen \in ChipSees(xfer.dac, pins, StepByte, shift[xfer.dac], out[xfer.dac]) :
          shift'[xfer.dac] = seen.s /\ out'[xfer.dac] = seen.o
    BY <1>5
  <1>8. /\ pins.sync[xfer.dac] \in Bit
        /\ pins.sync[xfer.dac] = HIGH => shift[xfer.dac] = EmptyShift
        /\ pins.sync[xfer.dac] = LOW =>
             \E v \in attempts[xfer.dac] : Takes(v, shift[xfer.dac], pins)
    BY <1>2 DEF IInv, Chips, Pins
  <1>9. \A v \in attempts[xfer.dac] : v \in Values
    BY <1>2 DEF IInv, TypeOK
  <1>10. PICK v \in Values : pins.sync[xfer.dac] = LOW => Takes(v, shift[xfer.dac], pins)
    BY <1>2, <1>8, <1>9
  <1>11. /\ StepByte.sync[xfer.dac] # pins.sync[xfer.dac] => seen.s = EmptyShift
         /\ (StepByte.sync[xfer.dac] = pins.sync[xfer.dac]
             /\ ~(pins.sclk = HIGH /\ StepByte.sclk = LOW)) => seen.s = shift[xfer.dac]
         /\ ~(pins.sclk = HIGH /\ StepByte.sclk = LOW) => seen.o = out[xfer.dac]
    BY <1>2, <1>4, <1>7, <1>8, <1>10, ChipStep
  <1>12. xfer.pc \in {"sync0", "sdi", "clock1", "clock0", "sync1"} => pins = cache
    BY DEF IInv, Lines
  <1>13. CASE xfer.pc = "sclk0"
    <2>1. xfer' = [xfer EXCEPT !.pc = "sync0"]
      BY <1>1, <1>13 DEF AfterStep
    <2>2. /\ xfer'.pc = "sync0" /\ xfer'.dac = xfer.dac /\ xfer'.value = xfer.value
          /\ xfer'.i = xfer.i /\ xfer' = [xfer EXCEPT !.pc = xfer'.pc, !.i = xfer'.i]
      BY <1>3, <2>1
    <2>3. xfer.i = WordBits - 1
      BY <1>13 DEF IInv, Active
    <2>4. Lines'
      BY <1>1, <1>2, <1>4, <1>5, <1>13, <2>2 DEF Lines
    <2>5. Active'
      BY <2>2, <2>3 DEF Active
    <2> QED
      BY <1>2, <2>2, <2>4, <2>5 DEF Steps
  <1>14. CASE xfer.pc = "sync0"
    <2>1. xfer' = [xfer EXCEPT !.pc = "sdi"]
      BY <1>1, <1>14 DEF AfterStep
    <2>2. /\ xfer'.pc = "sdi" /\ xfer'.dac = xfer.dac /\ xfer'.value = xfer.value
          /\ xfer'.i = xfer.i /\ xfer' = [xfer EXCEPT !.pc = xfer'.pc, !.i = xfer'.i]
      BY <1>3, <2>1
    <2>3. xfer.i = WordBits - 1 /\ cache.sync[xfer.dac] # LOW
      BY <1>2, <1>14 DEF IInv, Active, Lines
    <2>4. shift'[xfer.dac] = EmptyShift
      BY <1>4, <1>7, <1>11, <1>12, <1>14, <2>3
    <2>5. WordBits - 1 - xfer.i = 0 /\ Prefix(xfer.value, 0) = 0
      BY <1>2, <2>3, PrefixFacts
    <2>6. Lines'
      BY <1>1, <1>2, <1>4, <1>5, <1>14, <2>2 DEF Lines
    <2>7. Active'
      BY <1>1, <1>4, <1>14, <2>2, <2>4, <2>5 DEF Active, EmptyShift
    <2> QED
      BY <1>2, <2>2, <2>6, <2>7 DEF Steps
  <1>15. CASE xfer.pc = "sdi"
    <2>1. xfer' = [xfer EXCEPT !.pc = "clock1"]
      BY <1>1, <1>15 DEF AfterStep
    <2>2. /\ xfer'.pc = "clock1" /\ xfer'.dac = xfer.dac /\ xfer'.value = xfer.value
          /\ xfer'.i = xfer.i /\ xfer' = [xfer EXCEPT !.pc = xfer'.pc, !.i = xfer'.i]
      BY <1>3, <2>1
    <2>3. /\ cache.sclk = LOW /\ cache.sync[xfer.dac] = LOW
          /\ shift[xfer.dac].n = WordBits - 1 - xfer.i
          /\ shift[xfer.dac].word = Prefix(xfer.value, WordBits - 1 - xfer.i)
      BY <1>15 DEF IInv, Active, Lines
    <2>4. shift'[xfer.dac] = shift[xfer.dac]
      BY <1>4, <1>6, <1>7, <1>11, <1>12, <1>15, <2>3
    <2>5. Lines'
      BY <1>1, <1>2, <1>4, <1>5, <1>15, <2>2 DEF Lines
    <2>6. Active'
      BY <1>1, <1>4, <1>15, <2>2, <2>3, <2>4 DEF Active
    <2> QED
      BY <1>2, <2>2, <2>5, <2>6 DEF Steps
  <1>16. CASE xfer.pc = "clock1"
    <2>1. xfer' = [xfer EXCEPT !.pc = "clock0"]
      BY <1>1, <1>16 DEF AfterStep
    <2>2. /\ xfer'.pc = "clock0" /\ xfer'.dac = xfer.dac /\ xfer'.value = xfer.value
          /\ xfer'.i = xfer.i /\ xfer' = [xfer EXCEPT !.pc = xfer'.pc, !.i = xfer'.i]
      BY <1>3, <2>1
    <2>3. /\ cache.sclk = LOW /\ cache.sync[xfer.dac] = LOW
          /\ shift[xfer.dac].n = WordBits - 1 - xfer.i
          /\ shift[xfer.dac].word = Prefix(xfer.value, WordBits - 1 - xfer.i)
          /\ cache.sdi = BitOf(WordOf(xfer.value), xfer.i)
      BY <1>16 DEF IInv, Active, Lines
    <2>4. shift'[xfer.dac] = shift[xfer.dac]
      BY <1>4, <1>6, <1>7, <1>11, <1>12, <1>16, <2>3
    <2>5. Lines'
      BY <1>1, <1>2, <1>4, <1>5, <1>16, <2>2 DEF Lines
    <2>6. Active'
      BY <1>1, <1>4, <1>16, <2>2, <2>3, <2>4 DEF Active
    <2> QED
      BY <1>2, <2>2, <2>5, <2>6 DEF Steps
  <1>17. CASE xfer.pc = "clock0"
    <2>1. /\ cache.sclk = HIGH /\ cache.sync[xfer.dac] = LOW
      BY <1>17 DEF IInv, Active
    <2>2. /\ Takes(xfer.value, shift[xfer.dac], pins)
          /\ shift[xfer.dac].n = WordBits - 1 - xfer.i
          /\ shift[xfer.dac].n < WordBits
      BY <1>17, ActiveTakes
    <2>3. /\ StepByte.sync[xfer.dac] = LOW /\ pins.sync[xfer.dac] = LOW
          /\ pins.sclk = HIGH /\ StepByte.sclk = LOW
      BY <1>4, <1>12, <1>17, <2>1
    <2>4. /\ Takes(xfer.value, seen.s, StepByte) /\ seen.s.n = shift[xfer.dac].n + 1
          /\ shift[xfer.dac].n = WordBits - 1 => seen.o = xfer.value
      BY <1>2, <1>4, <1>6, <1>7, <2>2, <2>3, ChipStep
    <2>5. seen.s.word = Prefix(xfer.value, seen.s.n)
      BY <2>4 DEF Takes
    <2>6. CASE xfer.i > 0
      <3>1. xfer' = [xfer EXCEPT !.pc = "sdi", !.i = xfer.i - 1]
        BY <1>1, <1>17, <2>6 DEF AfterStep, AfterBit
      <3>2. /\ xfer'.pc = "sdi" /\ xfer'.dac = xfer.dac /\ xfer'.value = xfer.value
            /\ xfer'.i = xfer.i - 1 /\ xfer' = [xfer EXCEPT !.pc = xfer'.pc, !.i = xfer'.i]
        BY <1>3, <3>1
      <3>3. xfer.i - 1 \in 0..(WordBits - 1) /\ WordBits - 1 - (xfer.i - 1) = seen.s.n
        BY <1>2, <2>2, <2>4, <2>6
      <3>4. Lines'
        BY <1>1, <1>2, <1>4, <1>5, <1>17, <3>2 DEF Lines
      <3>5. Active'
        BY <1>1, <1>7, <2>3, <2>5, <3>2, <3>3 DEF Active
      <3> QED
        BY <3>2, <3>3, <3>4, <3>5 DEF Steps
    <2>7. CASE ~(xfer.i > 0)
      <3>1. xfer' = [xfer EXCEPT !.pc = "sync1"]
        BY <1>1, <1>17, <2>7 DEF AfterStep, AfterBit
      <3>2. /\ xfer'.pc = "sync1" /\ xfer'.dac = xfer.dac /\ xfer'.value = xfer.value
            /\ xfer'.i = xfer.i /\ xfer' = [xfer EXCEPT !.pc = xfer'.pc, !.i = xfer'.i]
        BY <1>3, <3>1
      <3>3. out'[xfer.dac] = xfer.value
        BY <1>2, <1>7, <2>2, <2>4, <2>7
      <3>4. Lines'
        BY <1>1, <1>2, <1>4, <1>5, <1>17, <3>2 DEF Lines
      <3>5. Active'
        BY <1>1, <2>3, <3>2, <3>3 DEF Active
      <3> QED
        BY <1>2, <3>2, <3>4, <3>5 DEF Steps
    <2> QED
      BY <2>6, <2>7
  <1>18. CASE xfer.pc = "sync1"
    <2>1. xfer' = [xfer EXCEPT !.pc = "done"]
      BY <1>1, <1>18 DEF AfterStep
    <2>2. /\ xfer'.pc = "done" /\ xfer'.dac = xfer.dac /\ xfer'.value = xfer.value
          /\ xfer'.i = xfer.i /\ xfer' = [xfer EXCEPT !.pc = xfer'.pc, !.i = xfer'.i]
      BY <1>3, <2>1
    <2>3. cache.sclk = LOW /\ out[xfer.dac] = xfer.value
      BY <1>18 DEF IInv, Active, Lines
    <2>4. out'[xfer.dac] = xfer.value
      BY <1>6, <1>7, <1>11, <1>12, <1>18, <2>3
    <2>5. Lines'
      BY <1>1, <1>2, <1>4, <1>5, <1>18, <2>2 DEF Lines
    <2>6. Active'
      BY <1>1, <1>5, <2>2, <2>4 DEF Active
    <2> QED
      BY <1>2, <2>2, <2>5, <2>6 DEF Steps
  <1> QED
    BY <1>1, <1>13, <1>14, <1>15, <1>16, <1>17, <1>18

LEMMA TransferStepKeeps ==
  ASSUME IInv, NEW ok \in BOOLEAN, TransferStep(ok)
  PROVE  IInv'
  <1>1. /\ xfer.pc \in Writing
        /\ xfer.pc \in {"sclk0", "sync0", "sdi", "clock1", "clock0", "sync1"}
        /\ cache' = StepByte /\ (Drive(StepByte) \/ UNCHANGED <<pins, chips>>)
        /\ hv_dac' = hv_dac /\ lastAck' = lastAck /\ attempts' = attempts
    BY DEF TransferStep, MCP_pinWrite, Writing
  <1>2. /\ Chips' /\ SetPointWasRequested' /\ pins' \in Pins
        /\ shift' \in [Dacs -> ShiftType] /\ out' \in [Dacs -> Values]
    BY <1>1, ChipsKept
  <1>3. /\ StepByte \in Pins
        /\ xfer.pc # "clock1" => StepByte.sclk = LOW
        /\ \A d \in Dacs : StepByte.sync[d] = LOW => d = xfer.dac
    BY <1>1, StepByteFacts
  <1>4. xfer \in [pc : Steps, dac : Dacs \cup {"none"}, value : Values,
                  i : 0..(WordBits - 1), ok : BOOLEAN]
    BY DEF IInv, TypeOK
  <1>5. /\ (Lines /\ Active)'
        /\ xfer' \in [pc : Steps, dac : Dacs \cup {"none"}, value : Values,
                      i : 0..(WordBits - 1), ok : BOOLEAN]
    <2>1. CASE ok
      <3>1. ok = TRUE
        BY <2>1
      <3>2. TransferStep(TRUE)
        BY <3>1
      <3>3. /\ (Lines /\ Active)' /\ xfer'.pc \in Steps /\ xfer'.i \in 0..(WordBits - 1)
            /\ xfer' = [xfer EXCEPT !.pc = xfer'.pc, !.i = xfer'.i]
        BY <3>2, AcknowledgedStep
      <3> QED
        BY <1>4, <3>3
    <2>2. CASE ~ok
      <3>1. xfer' = [xfer EXCEPT !.pc = "idle_sclk", !.ok = FALSE]
        BY <2>2 DEF TransferStep, Failed
      <3>2. /\ xfer'.pc = "idle_sclk" /\ xfer'.dac = xfer.dac /\ xfer'.value = xfer.value
            /\ xfer'.i = xfer.i /\ xfer'.ok = FALSE
        BY <1>4, <3>1
      <3>3. xfer' \in [pc : Steps, dac : Dacs \cup {"none"}, value : Values,
                       i : 0..(WordBits - 1), ok : BOOLEAN]
        BY <1>4, <3>1 DEF Steps
      <3>4. xfer.dac \in Dacs /\ xfer.value \in attempts[xfer.dac]
        BY <1>1 DEF IInv, Lines
      <3>5. Lines'
        BY <1>1, <1>3, <3>2, <3>4 DEF Lines
      <3>6. Active'
        BY <3>2 DEF Active
      <3> QED
        BY <3>3, <3>5, <3>6
    <2> QED
      BY <2>1, <2>2
  <1>6. TypeOK'
    BY <1>1, <1>2, <1>3, <1>5 DEF IInv, TypeOK, ShiftType
  <1> QED
    BY <1>2, <1>5, <1>6 DEF IInv

LEMMA IdleStepKeeps ==
  ASSUME IInv, NEW ok \in BOOLEAN, IdleStep(ok)
  PROVE  IInv'
  <1>1. /\ xfer.pc \in Writing
        /\ xfer.pc \in {"idle_sclk", "idle_sync"}
        /\ cache' = StepByte /\ (Drive(StepByte) \/ UNCHANGED <<pins, chips>>)
        /\ hv_dac' = hv_dac /\ lastAck' = lastAck /\ attempts' = attempts
        /\ xfer' = [xfer EXCEPT !.pc = AfterIdle]
    BY DEF IdleStep, MCP_pinWrite, Writing
  <1>2. /\ Chips' /\ SetPointWasRequested' /\ pins' \in Pins
        /\ shift' \in [Dacs -> ShiftType] /\ out' \in [Dacs -> Values]
    BY <1>1, ChipsKept
  <1>3. /\ StepByte \in Pins /\ StepByte.sclk = LOW
        /\ \A d \in Dacs : StepByte.sync[d] = LOW => d = xfer.dac /\ xfer.pc = "idle_sclk"
    BY <1>1, StepByteFacts
  <1>4. xfer \in [pc : Steps, dac : Dacs \cup {"none"}, value : Values,
                  i : 0..(WordBits - 1), ok : BOOLEAN]
    BY DEF IInv, TypeOK
  <1>5. /\ xfer'.pc = (IF xfer.pc = "idle_sclk" THEN "idle_sync" ELSE "done")
        /\ xfer'.dac = xfer.dac /\ xfer'.value = xfer.value /\ xfer'.i = xfer.i
        /\ xfer'.ok = xfer.ok
    BY <1>1, <1>4 DEF AfterIdle
  <1>6. xfer' \in [pc : Steps, dac : Dacs \cup {"none"}, value : Values,
                   i : 0..(WordBits - 1), ok : BOOLEAN]
    BY <1>1, <1>4 DEF AfterIdle, Steps
  <1>7. /\ xfer.dac \in Dacs /\ xfer.value \in attempts[xfer.dac] /\ ~xfer.ok
    BY <1>1 DEF IInv, Lines
  <1>8. Lines'
    BY <1>1, <1>3, <1>5, <1>7 DEF Lines
  <1>9. Active'
    BY <1>5, <1>7 DEF Active
  <1>10. TypeOK'
    BY <1>1, <1>2, <1>3, <1>6 DEF IInv, TypeOK, ShiftType
  <1> QED
    BY <1>2, <1>8, <1>9, <1>10 DEF IInv

LEMMA SetKeeps ==
  ASSUME IInv, NEW d \in Dacs, NEW v \in Settings, set_hv_by_dac(d, v)
  PROVE  IInv'
  <1>1. /\ xfer.pc = "idle"
        /\ xfer' = [pc |-> "sclk0", dac |-> d, value |-> v, i |-> WordBits - 1, ok |-> TRUE]
        /\ attempts' = [attempts EXCEPT ![d] = @ \cup {v}]
        /\ UNCHANGED <<cache, pins, shift, out, hv_dac, lastAck>>
    BY DEF set_hv_by_dac, chips
  <1>2. v \in Values /\ WordBits \in Nat /\ WordBits >= 2
    BY Widths
  <1>3. attempts \in [Dacs -> SUBSET Values]
    BY DEF IInv, TypeOK
  <1>4. attempts' \in [Dacs -> SUBSET Values] /\ v \in attempts'[d]
        /\ \A e \in Dacs : attempts[e] \subseteq attempts'[e]
    BY <1>1, <1>2, <1>3
  <1>5. xfer' \in [pc : Steps, dac : Dacs \cup {"none"}, value : Values,
                   i : 0..(WordBits - 1), ok : BOOLEAN]
    BY <1>1, <1>2 DEF Steps
  <1>6. TypeOK'
    BY <1>1, <1>4, <1>5 DEF IInv, TypeOK
  <1>7. Lines'
    BY <1>1, <1>4 DEF IInv, Lines
  <1>8. Active'
    BY <1>1 DEF Active
  <1>9. Chips' /\ SetPointWasRequested'
    BY <1>1, <1>4 DEF IInv, Chips, SetPointWasRequested
  <1> QED
    BY <1>6, <1>7, <1>8, <1>9 DEF IInv

\* After a whole transfer every sync line is high, so no chip still depends on
\* the attempts that the acknowledgement clears.
LEMMA ReturnKeeps ==
  ASSUME IInv, i2c_dac_write_returns
  PROVE  IInv'
  <1>1. /\ xfer.pc = "done" /\ xfer' = Quiet
        /\ UNCHANGED <<cache, pins, shift, out>>
    BY DEF i2c_dac_write_returns, chips
  <1>2. /\ xfer.dac \in Dacs /\ xfer.value \in Values /\ cache.sclk = LOW
        /\ \A d \in Dacs : cache.sync[d] # LOW
    BY <1>1 DEF IInv, Lines, TypeOK
  <1>3. xfer'.pc = "idle" /\ xfer' \in [pc : Steps, dac : Dacs \cup {"none"},
                                        value : Values, i : 0..(WordBits - 1), ok : BOOLEAN]
    BY <1>1, Widths DEF Quiet, Steps
  <1>4. Lines' /\ Active'
    BY <1>1, <1>2, <1>3 DEF Lines, Active
  <1>5. CASE xfer.ok
    <2>1. /\ hv_dac' = [hv_dac EXCEPT ![xfer.dac] = xfer.value]
          /\ lastAck' = [lastAck EXCEPT ![xfer.dac] = xfer.value]
          /\ attempts' = [attempts EXCEPT ![xfer.dac] = {}]
      BY <1>5 DEF i2c_dac_write_returns
    <2>2. pins = cache /\ out[xfer.dac] = xfer.value
      BY <1>1, <1>5 DEF IInv, Active
    <2>3. TypeOK'
      BY <1>1, <1>2, <1>3, <2>1 DEF IInv, TypeOK
    <2>4. Chips'
      BY <1>1, <1>2, <2>2 DEF IInv, Chips
    <2>5. SetPointWasRequested'
      BY <1>1, <1>2, <2>1, <2>2 DEF IInv, SetPointWasRequested, TypeOK
    <2> QED
      BY <1>4, <2>3, <2>4, <2>5 DEF IInv
  <1>6. CASE ~xfer.ok
    <2>1. UNCHANGED <<hv_dac, lastAck, attempts>>
      BY <1>6 DEF i2c_dac_write_returns
    <2>2. TypeOK'
      BY <1>1, <1>3, <2>1 DEF IInv, TypeOK
    <2>3. Chips' /\ SetPointWasRequested'
      BY <1>1, <2>1 DEF IInv, Chips, SetPointWasRequested
    <2> QED
      BY <1>4, <2>2, <2>3 DEF IInv
  <1> QED
    BY <1>5, <1>6

\* A chip that loads at a restart had all but the spare bit of its word.
LEMMA RestartKeeps ==
  ASSUME IInv, Restart
  PROVE  IInv'
  <1>1. /\ cache' = IdlePins /\ pins' = IdlePins /\ xfer' = Quiet
        /\ shift' = [d \in Dacs |-> EmptyShift] /\ hv_dac' = [d \in Dacs |-> 0]
        /\ lastAck' = lastAck /\ attempts' = attempts
    BY DEF Restart
  <1>2. PICK clocked \in SUBSET {d \in Dacs : pins.sync[d] = LOW /\ shift[d].n = WordBits - 1} :
          out' = [d \in Dacs |-> IF d \in clocked THEN shift[d].word ELSE out[d]]
    BY DEF Restart
  <1>3. ASSUME NEW d \in Dacs, pins.sync[d] = LOW, shift[d].n = WordBits - 1
        PROVE  shift[d].word \in attempts[d] /\ shift[d].word \in Values
    <2>1. PICK v \in attempts[d] : Takes(v, shift[d], pins)
      BY <1>3 DEF IInv, Chips
    <2>2. v \in Values
      BY DEF IInv, TypeOK
    <2>3. shift[d].word = Prefix(v, WordBits - 1)
      BY <1>3, <2>1 DEF Takes
    <2>4. Prefix(v, WordBits - 1) = v
      BY <2>2, PrefixFacts
    <2> QED
      BY <2>1, <2>2, <2>3, <2>4
  <1>4. \A d \in Dacs : out'[d] = out[d] \/ (out'[d] \in attempts[d] /\ out'[d] \in Values)
    BY <1>2, <1>3
  <1>5. out' \in [Dacs -> Values]
    <2>1. \A d \in Dacs : (IF d \in clocked THEN shift[d].word ELSE out[d]) \in Values
      BY <1>2, <1>3 DEF IInv, TypeOK
    <2> QED
      BY <1>2, <2>1
  <1>6. LOW \in Bit /\ HIGH \in Bit /\ LOW # HIGH
    BY DEF LOW, HIGH, Bit
  <1>7. IdlePins \in Pins /\ IdlePins.sclk = LOW /\ \A d \in Dacs : IdlePins.sync[d] = HIGH
    BY <1>6 DEF IdlePins, Pins
  <1>8. xfer'.pc = "idle" /\ xfer' \in [pc : Steps, dac : Dacs \cup {"none"},
                                        value : Values, i : 0..(WordBits - 1), ok : BOOLEAN]
    BY <1>1, Widths DEF Quiet, Steps
  <1>9. shift' \in [Dacs -> ShiftType] /\ hv_dac' \in [Dacs -> Values]
    <2>1. EmptyShift \in ShiftType
      BY Widths, PowerOfTwo DEF EmptyShift, ShiftType
    <2> QED
      BY <1>1, <2>1, Widths
  <1>10. TypeOK'
    BY <1>1, <1>5, <1>7, <1>8, <1>9 DEF IInv, TypeOK, ShiftType
  <1>11. Lines' /\ Active'
    BY <1>1, <1>6, <1>7, <1>8 DEF Lines, Active
  <1>12. Chips'
    BY <1>1, <1>6, <1>7 DEF Chips
  <1>13. SetPointWasRequested'
    BY <1>1, <1>4 DEF IInv, SetPointWasRequested
  <1> QED
    BY <1>10, <1>11, <1>12, <1>13 DEF IInv

LEMMA InitHolds == Init => IInv
  <1> SUFFICES ASSUME Init PROVE IInv
    OBVIOUS
  <1>1. LOW \in Bit /\ HIGH \in Bit /\ LOW # HIGH
    BY DEF LOW, HIGH, Bit
  <1>2. IdlePins \in Pins /\ IdlePins.sclk = LOW /\ \A d \in Dacs : IdlePins.sync[d] = HIGH
    BY <1>1 DEF IdlePins, Pins
  <1>3. EmptyShift \in ShiftType
    BY Widths, PowerOfTwo DEF EmptyShift, ShiftType
  <1>4. shift \in [Dacs -> ShiftType]
    BY <1>3 DEF Init
  <1>5. xfer.pc = "idle" /\ xfer \in [pc : Steps, dac : Dacs \cup {"none"},
                                      value : Values, i : 0..(WordBits - 1), ok : BOOLEAN]
    BY Widths DEF Init, Quiet, Steps
  <1>6. TypeOK
    BY <1>2, <1>4, <1>5, Widths DEF Init, TypeOK, ShiftType
  <1>7. Lines /\ Active
    BY <1>1, <1>2, <1>5 DEF Init, Lines, Active
  <1>8. Chips /\ SetPointWasRequested
    BY <1>1, <1>2 DEF Init, Chips, SetPointWasRequested
  <1> QED
    BY <1>6, <1>7, <1>8 DEF IInv

LEMMA StutterKeeps == ASSUME IInv, UNCHANGED vars PROVE IInv'
  BY DEF IInv, TypeOK, Lines, Active, Chips, SetPointWasRequested, vars

-----------------------------------------------------------------------------
(* The theorems. *)

LEMMA NextKeeps == ASSUME IInv, [Next]_vars PROVE IInv'
  <1>1. CASE \E d \in Dacs, v \in Settings : set_hv_by_dac(d, v)
    BY <1>1, SetKeeps
  <1>2. CASE \E ok \in BOOLEAN : TransferStep(ok)
    BY <1>2, TransferStepKeeps
  <1>3. CASE \E ok \in BOOLEAN : IdleStep(ok)
    BY <1>3, IdleStepKeeps
  <1>4. CASE i2c_dac_write_returns
    BY <1>4, ReturnKeeps
  <1>5. CASE Restart
    BY <1>5, RestartKeeps
  <1>6. CASE UNCHANGED vars
    BY <1>6, StutterKeeps
  <1> QED
    BY <1>1, <1>2, <1>3, <1>4, <1>5, <1>6 DEF Next

\* The inductive invariant: at every step of a transfer, on the shared lines
\* and in the chips, whatever failed before.
THEOREM HvInvariant == Spec => []IInv
  <1>1. Init => IInv
    BY InitHolds
  <1>2. IInv /\ [Next]_vars => IInv'
    BY NextKeeps
  <1> QED
    BY <1>1, <1>2, PTL DEF Spec

\* The types: a register never takes more than a word, and a word is never
\* wider than WordBits.
THEOREM HvTypeOK == Spec => []TypeOK
  <1>1. IInv => TypeOK
    BY DEF IInv
  <1> QED
    BY <1>1, HvInvariant, PTL

\* However DAC8164_write fails, and whatever lines it leaves behind, no chip
\* loads a word that was not asked of it.
THEOREM HvSetPointWasRequested == Spec => []SetPointWasRequested
  <1>1. IInv => SetPointWasRequested
    BY DEF IInv
  <1> QED
    BY <1>1, HvInvariant, PTL

\* When sclk rises, the sync lines of all chips but the addressed one are high.
LEMMA RiseIsAddressed ==
  ASSUME IInv, [Next]_vars, pins.sclk = LOW, pins'.sclk = HIGH,
         NEW d \in Dacs, pins'.sync[d] = LOW
  PROVE  d = xfer.dac
  <1>1. LOW # HIGH
    BY DEF LOW, HIGH
  <1>2. pins' # pins
    BY <1>1
  <1>3. ~Restart /\ ~i2c_dac_write_returns /\ ~UNCHANGED vars
        /\ \A e \in Dacs, v \in Settings : ~set_hv_by_dac(e, v)
    BY <1>1, <1>2 DEF Restart, IdlePins, i2c_dac_write_returns, set_hv_by_dac, vars
  <1>4. PICK ok \in BOOLEAN : TransferStep(ok) \/ IdleStep(ok)
    BY <1>3 DEF Next
  <1>5. xfer.pc \in Writing /\ (Drive(StepByte) \/ pins' = pins)
    BY <1>4 DEF TransferStep, IdleStep, MCP_pinWrite, Writing
  <1>6. pins' = StepByte
    BY <1>2, <1>5, DriveFacts
  <1> QED
    BY <1>5, <1>6, StepByteFacts

\* The shared clock rises for the addressed chip only, also after transfers to
\* other chips that failed half way.
THEOREM HvOneChipClocked == Spec => OneChipClocked
  <1>1. IInv /\ [Next]_vars =>
          [(pins.sclk = LOW /\ pins'.sclk = HIGH) =>
             \A d \in Dacs : pins'.sync[d] = LOW => d = xfer.dac]_vars
    BY RiseIsAddressed
  <1> QED
    BY <1>1, HvInvariant, PTL DEF Spec, OneChipClocked

=============================================================================
