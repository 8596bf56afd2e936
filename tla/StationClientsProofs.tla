-------------------------- MODULE StationClientsProofs --------------------------
(***************************************************************************)
(* StationClients: the archive is sound, what the clients tell is true and *)
(* a ramp writes no more than it may, for any set of processes, channels,  *)
(* hosts and ports, any steps and any bounds.                              *)
(*                                                                         *)
(* The parts share no variable, so each has an invariant of its own.       *)
(***************************************************************************)
EXTENDS StationClients, TLAPS

(* The archive *)

\* A batch that is handed to the thread of writer w.
Item(w) == [n : 1..Bound[w], chans : SUBSET Channels]
Ids == [Channels -> Batches \cup {NoId}]
WriterType(w) ==
  [queue : Seq(Item(w)), finished : BOOLEAN, batch : Item(w) \cup {NoBatch},
   pc : {"get", "connect", "lock", "resolve", "commit", "ended"}, ids : Ids, new : Ids]
TxType == [id : Batches, lock : BOOLEAN, sent : BOOLEAN, rows : SUBSET Rows,
           values : SUBSET [batch : Batches, chan : Channels, row : Batches]]
ReportType(w) == [made : 0..Bound[w], written : SUBSET (1..Bound[w]),
                  dropped : SUBSET (1..Bound[w]), early : 0..Bound[w]]

\* Of a writer w: its process a and its history r; of the database: the open
\* transactions T, the rows R, the samples V and the commits C.

\* Nobody has opened a transaction for the batch b.
Unopened(b, T, C) == C[b] = 0 /\ \A t \in T : t.id # b
InHand(w, a) == [of |-> w, n |-> a.batch.n]
ToResolve(a) == {c \in a.batch.chans : a.ids[c] = NoId /\ a.new[c] = NoId}
Row(c, b) == [chan |-> c, by |-> b]

\* Each batch that was made is queued, in hand or done with.
Placed(a, r) ==
  \A n \in 1..r.made : \/ \E i \in DOMAIN a.queue : a.queue[i].n = n
                       \/ n = a.batch.n \/ n \in r.written \cup r.dropped

\* A batch that is queued is so once, and is opened only when it has left the
\* queue.
Queued(w, a, r, T, C) ==
  \A i \in DOMAIN a.queue :
    /\ a.queue[i].n <= r.made /\ a.queue[i].n # a.batch.n
    /\ Unopened([of |-> w, n |-> a.queue[i].n], T, C)
    /\ \A j \in DOMAIN a.queue : a.queue[j].n = a.queue[i].n => j = i
Ahead(w, r, T, C) == \A n \in (r.made + 1)..Bound[w] : Unopened([of |-> w, n |-> n], T, C)

Settled(w, a, r, C) ==
  /\ a.batch.n <= r.made /\ r.early <= r.made
  /\ a.pc \in {"get", "ended"} <=> a.batch = NoBatch
  /\ \A n \in r.written : C[[of |-> w, n |-> n]] = 1
  /\ a.pc = "ended" => a.finished /\ 1..r.early \subseteq r.written \cup r.dropped
  /\ a.finished \/ r.early = 0

\* An id that a writer has found is committed, or is in its transaction, or its
\* transaction was rolled back.
Backed(w, a, c, T, R, C) ==
  \/ Row(c, a.new[c]) \in R
  \/ \E t \in T : t.id = InHand(w, a) /\ Row(c, a.new[c]) \in t.rows
  \/ a.pc = "commit" /\ Unopened(InHand(w, a), T, C)

\* The transaction of the batch in hand is where the thread is.
InStep(w, a, T, C) ==
  /\ a.pc = "connect" => Unopened(InHand(w, a), T, C)
  /\ a.pc \in {"lock", "resolve"} => \E t \in T : t.id = InHand(w, a)
  /\ \A t \in T : t.id = InHand(w, a) =>
       /\ a.pc \in {"lock", "resolve"} => ~t.sent /\ t.values = {}
       /\ a.pc = "lock" => t.rows = {} /\ ~t.lock
       /\ a.pc = "resolve" /\ w \in Registers /\ ToResolve(a) # {} => t.lock
       /\ a.pc = "commit" => t.sent
Known(w, a, T, R, C) ==
  /\ a.pc \in {"get", "ended", "connect", "lock"} => a.new = NoIds
  /\ \A c \in Channels : a.new[c] # NoId => Backed(w, a, c, T, R, C)
  /\ \A c \in Channels : a.ids[c] # NoId => Row(c, a.ids[c]) \in R

WriterInv(w, a, r, T, R, C) ==
  /\ a \in WriterType(w) /\ r \in ReportType(w) /\ Len(a.queue) <= QueueSize
  /\ Placed(a, r) /\ Queued(w, a, r, T, C) /\ Ahead(w, r, T, C) /\ Settled(w, a, r, C)
  /\ InStep(w, a, T, C) /\ Known(w, a, T, R, C)

\* One transaction for a batch, one that has the lock; rows are added only
\* under it.
Stored(T, R, V, C) ==
  /\ \A t, u \in T : t.id = u.id => t = u
  /\ \A t, u \in T : t.lock /\ u.lock => t = u
  /\ \A t \in T : C[t.id] = 0 /\ (t.rows # {} => t.lock)
  /\ \A t \in T : \A r \in t.rows : \A s \in R \cup t.rows : r.chan = s.chan => r = s
  /\ \A t \in T : \A v \in t.values : Row(v.chan, v.row) \in R \cup t.rows
  /\ \A b \in Batches : C[b] <= 1
  /\ \A r, s \in R : r.chan = s.chan => r = s
  /\ \A v \in V : Row(v.chan, v.row) \in R

ArchiveInv ==
  /\ arc = [w \in Writers |-> arc[w]] /\ report = [w \in Writers |-> report[w]]
  /\ txs \subseteq TxType /\ rows \subseteq Rows /\ commits \in [Batches -> Nat]
  /\ \A w \in Writers : WriterInv(w, arc[w], report[w], txs, rows, commits)
  /\ Stored(txs, rows, values, commits)

-----------------------------------------------------------------------------
(* The collectors *)

Wires == [to : Asked, on : BOOLEAN, kind : Kinds]
ColType ==
  [group : Groups,
   pc : {"begin", "ask", "wait", "inventory", "scan", "reading", "publish", "failed", "sleep", "ended"},
   link : BOOLEAN, wire : Seq(Wires), delay : 0..MaxDelay,
   gate : [powered : BOOLEAN, age : 0..GateAge], at : 1..7, n : 0..6, heard : SUBSET Answers,
   got : SUBSET Reads, todo : SUBSET Reads, panels : SUBSET Addresses,
   ok : BOOLEAN, success : {"none", "yes", "no", "disabled"}, off : 0..OffLong]

\* The question that the worker c is at; its first k questions were answered.
Asks(c) == Questions[c.group][c.at]
Heard(c, k) ==
  \A i \in DOMAIN Questions[c.group] :
    i <= k => \E x \in c.heard : x[1] = Questions[c.group][i] /\ x[2] = x[1]

\* What is on the connection is the answer to the question that was asked last.
WireInv(c, off) ==
  /\ InPlace(c.heard)
  /\ c.pc # "wait" => c.wire = <<>>
  /\ c.pc = "wait" => \E on \in BOOLEAN, kind \in Kinds :
                        /\ c.wire = <<[to |-> Asks(c), on |-> on, kind |-> kind]>>
                        /\ on => off <= c.delay + 1
  /\ c.pc = "wait" => Asks(c) # "health"

\* A list that a second block is appended to has six entries, or an error.
Follows(S, q, n) ==
  q \in DOMAIN Appended => n = 6 \/ \E y \in S : y[1] = Appended[q] /\ y[3] # "values"
PlaceInv(c) == c.pc \in {"ask", "wait"} => Follows(c.heard, Asks(c), c.n)

\* The power gate is as old as it says.
GateInv(c, off) == c.gate.powered /\ c.gate.age < GateAge => off <= c.gate.age + MaxDelay + 1

\* A cycle has done what it says: every parameter of every panel was read, is
\* still to be read or has failed.
CycleInv(c) ==
  /\ c.pc \in {"ask", "wait"} => c.at \in DOMAIN Questions[c.group] /\ Heard(c, c.at - 1)
  /\ c.pc \in {"inventory", "scan", "reading"} =>
       c.gate.powered /\ c.group = "rs485" /\ c.at = 1 /\ Heard(c, 1)
  /\ c.pc \in {"scan", "reading"} => c.panels # {}
  /\ c.pc \in {"ask", "wait", "inventory", "scan", "reading"} /\ c.ok =>
       c.panels \X {1, 2} \subseteq c.got \cup c.todo
  /\ c.pc = "reading" => c.off < GateAge + MaxDelay + 1
  /\ c.pc = "publish" /\ c.success = "yes" =>
       /\ Heard(c, Len(Questions[c.group]))
       /\ c.group = "rs485" => c.panels # {} /\ c.panels \X {1, 2} \subseteq c.got
  /\ c.pc = "publish" /\ c.success = "disabled" => ~c.gate.powered
  /\ c.group = "rs485" /\ c.pc \in {"ask", "wait", "inventory", "scan", "reading", "publish"} =>
       \A x \in c.heard : x[3] = "values"

WorkerInv(c, off) ==
  /\ c \in ColType /\ off \in 0..OffLong
  /\ WireInv(c, off) /\ GateInv(c, off) /\ CycleInv(c) /\ PlaceInv(c)
CollectInv == WorkerInv(col, v6)

\* The connection of hv-monitor carries at most the question of the loop that
\* has the lock, and what that loop has of the first block is in its place.
ViewType == [lock : Commands \cup {"free"}, open : BOOLEAN,
             pc : [Commands -> {"start", "locked", "sent", "log"}],
             at : 1..2, n : 0..6, got : SUBSET Answers, row : [Commands -> SUBSET Answers],
             wire : Seq([to : Asked, kind : Kinds])]
HolderInv(v) ==
  \A c \in Commands :
    /\ v.pc[c] \in {"locked", "sent"} <=> v.lock = c
    /\ v.lock = c /\ v.at = 2 => InPlace(v.got) /\ Follows(v.got, Blocks[c][2], v.n)
LineInv(v) ==
  /\ (\A c \in Commands : v.pc[c] # "sent") => v.wire = <<>>
  /\ \A c \in Commands : v.pc[c] = "sent" =>
       \E kind \in Kinds : v.wire = <<[to |-> Blocks[c][v.at], kind |-> kind]>>
RowsInv(v) == \A c \in Commands : InPlace(v.row[c])
ViewInv == view \in ViewType /\ HolderInv(view) /\ LineInv(view) /\ RowsInv(view)

\* The state that is shown follows the history.
SensorInv ==
  /\ SensorTypeOK
  /\ loop.pc \in {"start", "attempt", "reopen"} => loop.attempt <= Retries
  /\ shown.streak = truth.missed /\ shown.sample = truth.read
  /\ loop.pc = "sleep" => (shown.status = "ok") = (truth.missed = 0)
  /\ loop.sensor => loop.bus

\* The command line: a foreign listener on the port it uses has come there
\* after it looked.
TunnelInv ==
  /\ TunnelTypeOK
  /\ cli.pc \notin {"host", "end"} => cli.at <= Len(HostList)
  /\ cli.pc \in {"poll", "connect", "send"} => cli.left > 0 /\ cli.port \in Ports
  /\ cli.pc = "send" => cli.cached
  /\ cli.cached => cli.port \in Ports
  /\ cli.pc \notin {"finally", "end"} => cli.fails < MaxFailures
  /\ cli.port \in Ports /\ others[cli.port] # NoHost => raced
  /\ misled => raced
  /\ misled /\ cli.pc \in {"command", "poll", "connect", "send"} => cli.cached
  /\ cli.pc \in {"host", "end"} => ssh = "none"

-----------------------------------------------------------------------------
(* The ramps *)

Writing == {"set", "send", "sent"}

RampType ==
  [main : {"off", "locked", "run", "stopping", "closed"}, stop : BOOLEAN, link : BOOLEAN,
   pc : ThreadPcs \cup {"end"}, volt : {0} \cup Voltages, step : (-MaxStep)..MaxStep,
   goal : (-MaxTol)..(MaxDac + MaxTol), size : {0, MinReadback, MedReadback, MaxReadback},
   left : 0..MaxReadback \cup 0..MedReadback \cup 0..MinReadback,
   cur : Dacs, set : Dacs, then : {"end", "outer", "steps", "measure"}]

\* The process t with its history m, where the DAC is d, the cache c, the trip
\* is tr and od is odd: a write that is under way raises the output by one step
\* at most, since the cache knows of no more than there is while the ramp has
\* the channel to itself; and after the one write that a stop or a trip has
\* missed there is no other.
ProcInv(t, m, d, c, tr, od) ==
  /\ t.main \in {"off", "locked"} => t.pc = "end" /\ ~t.stop
  /\ m.stop <= 1 /\ m.trip <= 1
  /\ m.stop = 1 => t.pc \notin {"begin", "send", "sent"} /\ (t.stop \/ t.main = "off")
  /\ ~tr => m.trip = 0
  /\ m.trip = 1 /\ t.pc \in Writing => t.set = 0
  /\ t.pc \in Writing /\ t.then = "steps" => t.cur = t.set
  /\ od = "no" /\ t.pc # "end" => c <= d
  /\ od = "no" /\ t.pc = "steps" /\ ~t.stop => t.cur <= d
  /\ od = "no" /\ t.pc \in Writing => t.set <= d + MaxStep

\* One process at a time, which has the lock l or has lost it.
Alone(R, l) ==
  \A p \in Procs : R[p].main # "off" =>
    l \in {p, Lost} /\ \A q \in Procs : R[q].main # "off" => q = p

RampInv ==
  /\ RampTypeOK /\ Alone(ramp, locked)
  /\ \A p \in Procs : ProcInv(ramp[p], more[p], dac, cache, trip, odd)

-----------------------------------------------------------------------------
(* The sensor server *)

LoopType == [pc : {"start", "attempt", "reopen", "noData", "sleep", "ended"},
             attempt : 0..(Retries + 1), bus : BOOLEAN, sensor : BOOLEAN]
ShownType == [status : {"starting", "ok", "no-data", "error"}, error : BOOLEAN,
              sample : BOOLEAN, streak : 0..StreakTrigger]
TruthType == [missed : 0..StreakTrigger, read : BOOLEAN]

\* The thread l, and what is shown against what is true.
LoopInv(l) ==
  /\ l \in LoopType /\ (l.sensor => l.bus)
  /\ l.pc \in {"start", "attempt", "reopen"} => l.attempt <= Retries
Shows(s, t) ==
  s \in ShownType /\ t \in TruthType /\ s.streak = t.missed /\ s.sample = t.read

LEMMA SensorParts ==
  SensorInv <=> /\ LoopInv(loop) /\ Shows(shown, truth)
                /\ loop.pc = "sleep" => (shown.status = "ok") = (truth.missed = 0)
  BY DEF SensorInv, SensorTypeOK, LoopInv, Shows, LoopType, ShownType, TruthType

LEMMA SensorKept ==
  ASSUME LoopInv(loop'), Shows(shown', truth'),
         loop'.pc = "sleep" => (shown'.status = "ok") = (truth'.missed = 0)
  PROVE  SensorInv'
  BY DEF SensorInv, SensorTypeOK, LoopInv, Shows, LoopType, ShownType, TruthType

LEMMA SensorFacts ==
  /\ Retries \in Nat /\ StreakTrigger \in Nat /\ StreakTrigger > 0
  /\ 0 \in 0..(Retries + 1) /\ 0 \in 0..StreakTrigger /\ 0 <= Retries
  BY SensorServerAssumption

LEMMA FreshFacts ==
  ASSUME NEW pc \in {"start", "ended"}
  PROVE  LoopInv([Fresh EXCEPT !.pc = pc]) /\ Fresh = [Fresh EXCEPT !.pc = "start"]
  <1> DEFINE l == [Fresh EXCEPT !.pc = pc]
  <1>1. Fresh \in LoopType /\ Fresh.attempt = 0 /\ Fresh.sensor = FALSE
    BY SensorFacts DEF Fresh, LoopType
  <1>2. l \in LoopType /\ l.attempt = 0 /\ l.sensor = FALSE
    BY <1>1 DEF LoopType
  <1> HIDE DEF l
  <1>3. LoopInv(l)
    BY <1>2, SensorFacts DEF LoopInv
  <1>4. Fresh = [Fresh EXCEPT !.pc = "start"]
    BY DEF Fresh
  <1> QED
    BY <1>3, <1>4 DEF l

\* open_sensor leaves a loop whose sensor has its bus.
LEMMA OpenFacts ==
  ASSUME LoopInv(loop), NEW l \in open_sensor
  PROVE  l \in LoopType /\ l.pc = loop.pc /\ l.attempt = loop.attempt /\ (l.sensor => l.bus)
  <1>1. PICK b \in {loop.bus, TRUE}, s \in {loop.sensor, TRUE} :
          l = [loop EXCEPT !.bus = b, !.sensor = s]
    BY DEF open_sensor, Opens
  <1>2. loop \in LoopType /\ loop.bus \in BOOLEAN /\ loop.sensor \in BOOLEAN
    BY DEF LoopInv, LoopType
  <1>3. b \in BOOLEAN /\ s \in BOOLEAN
    BY <1>1, <1>2
  <1>4. l \in LoopType /\ l.pc = loop.pc /\ l.attempt = loop.attempt
    BY <1>1, <1>2, <1>3 DEF LoopType
  <1>5. l.sensor => l.bus
    BY DEF open_sensor
  <1> QED
    BY <1>4, <1>5

\* The loop moves on with what open_sensor left.
LEMMA MovesOn ==
  ASSUME LoopInv(loop), NEW l \in open_sensor, loop.pc \in {"start", "attempt", "reopen"},
         NEW pc \in {"attempt", "noData", "sleep"}
  PROVE  LoopInv([l EXCEPT !.pc = pc]) /\ [l EXCEPT !.pc = pc].pc = pc
  <1> DEFINE m == [l EXCEPT !.pc = pc]
  <1>1. l \in LoopType /\ l.attempt = loop.attempt /\ (l.sensor => l.bus)
    BY OpenFacts
  <1>2. m \in LoopType /\ m.pc = pc /\ m.attempt = l.attempt /\ m.sensor = l.sensor /\ m.bus = l.bus
    BY <1>1 DEF LoopType
  <1> HIDE DEF m
  <1>3. LoopInv(m)
    BY <1>1, <1>2 DEF LoopInv
  <1> QED
    BY <1>2, <1>3 DEF m

LEMMA SetErrorFacts ==
  ASSUME Shows(shown, truth)
  PROVE  Shows(_set_error, truth)
  <1>1. shown \in ShownType
    BY DEF Shows
  <1>2. _set_error \in ShownType /\ _set_error.streak = shown.streak
        /\ _set_error.sample = shown.sample
    BY <1>1 DEF _set_error, ShownType
  <1> QED
    BY <1>2 DEF Shows

LEMMA SensorKeeps ==
  ASSUME SensorInv, SensorNext \/ UNCHANGED sensorVars
  PROVE  SensorInv'
  <1>1. /\ LoopInv(loop) /\ Shows(shown, truth) /\ loop \in LoopType
        /\ loop.pc = "sleep" => (shown.status = "ok") = (truth.missed = 0)
    BY SensorParts DEF LoopInv
  <1>2. CASE SensorStart
    <2>1. PICK l \in open_sensor :
            /\ loop' = [l EXCEPT !.pc = "attempt"]
            /\ shown' \in {_set_error} \cup (IF l.sensor THEN {shown} ELSE {})
      BY <1>2 DEF SensorStart
    <2>2. loop.pc = "start" /\ truth' = truth /\ shown' \in {_set_error, shown}
      BY <1>2, <2>1 DEF SensorStart
    <2>3. LoopInv(loop') /\ loop'.pc = "attempt"
      BY <1>1, <2>1, <2>2, MovesOn
    <2> QED
      BY <1>1, <2>2, <2>3, SetErrorFacts, SensorKept
  <1>3. CASE ReadOk
    <2>1. PICK l \in open_sensor : loop' = [l EXCEPT !.pc = "sleep"]
      BY <1>3 DEF ReadOk
    <2>2. /\ loop.pc = "attempt" /\ truth' = [missed |-> 0, read |-> TRUE]
          /\ shown' = [status |-> "ok", error |-> FALSE, sample |-> TRUE, streak |-> 0]
      BY <1>3 DEF ReadOk
    <2>3. LoopInv(loop')
      BY <1>1, <2>1, <2>2, MovesOn
    <2>4. Shows(shown', truth') /\ shown'.status = "ok" /\ truth'.missed = 0
      BY <2>2, SensorFacts DEF Shows, ShownType, TruthType
    <2> QED
      BY <2>3, <2>4, SensorKept
  <1>4. CASE ReadNone
    <2>1. PICK l \in open_sensor : loop' = [l EXCEPT !.pc = "noData"]
      BY <1>4 DEF ReadNone
    <2>2. loop.pc = "attempt" /\ truth' = truth /\ shown' = shown
      BY <1>4 DEF ReadNone
    <2>3. LoopInv(loop') /\ loop'.pc = "noData"
      BY <1>1, <2>1, <2>2, MovesOn
    <2> QED
      BY <1>1, <2>2, <2>3, SensorKept
  <1>5. CASE BusError
    <2>1. /\ loop.pc = "attempt" /\ truth' = truth /\ shown' = shown
          /\ loop' = [loop EXCEPT !.pc = "reopen", !.bus = FALSE, !.sensor = FALSE]
      BY <1>5 DEF BusError
    <2>2. loop' \in LoopType /\ loop'.pc = "reopen" /\ loop'.attempt = loop.attempt
          /\ loop'.sensor = FALSE
      BY <1>1, <2>1 DEF LoopType
    <2>3. LoopInv(loop')
      BY <1>1, <2>1, <2>2 DEF LoopInv
    <2> QED
      BY <1>1, <2>1, <2>2, <2>3, SensorKept
  <1>6. CASE Reopened
    <2> DEFINE pc == IF loop.attempt < Retries THEN "attempt" ELSE "noData"
    <2>1. PICK l \in open_sensor :
            /\ loop' = [l EXCEPT !.attempt = @ + 1, !.pc = pc]
            /\ shown' \in {_set_error} \cup (IF l.sensor THEN {shown} ELSE {})
      BY <1>6 DEF Reopened
    <2>2. loop.pc = "reopen" /\ truth' = truth /\ shown' \in {_set_error, shown}
      BY <1>6, <2>1 DEF Reopened
    <2>3. l \in LoopType /\ l.attempt = loop.attempt /\ (l.sensor => l.bus)
      BY <1>1, OpenFacts
    <2>4. loop.attempt \in Nat /\ loop.attempt <= Retries
      BY <1>1, <2>2, SensorFacts DEF LoopInv, LoopType
    <2>5. l.attempt + 1 \in 0..(Retries + 1) /\ pc \in {"attempt", "noData"}
          /\ (pc = "attempt" => l.attempt + 1 <= Retries)
      BY <2>3, <2>4, SensorFacts
    <2> HIDE DEF pc
    <2>6. loop' \in LoopType /\ loop'.pc = pc /\ loop'.attempt = l.attempt + 1
          /\ loop'.sensor = l.sensor /\ loop'.bus = l.bus
      BY <2>1, <2>3, <2>5 DEF LoopType
    <2>7. LoopInv(loop')
      BY <2>3, <2>5, <2>6 DEF LoopInv
    <2> QED
      BY <1>1, <2>2, <2>5, <2>6, <2>7, SetErrorFacts, SensorKept
  <1>7. CASE OtherError
    <2>1. PICK l \in open_sensor : loop' = [l EXCEPT !.pc = "noData"]
      BY <1>7 DEF OtherError
    <2>2. loop.pc = "attempt" /\ truth' = truth /\ shown' = _set_error
      BY <1>7 DEF OtherError
    <2>3. LoopInv(loop') /\ loop'.pc = "noData"
      BY <1>1, <2>1, <2>2, MovesOn
    <2> QED
      BY <1>1, <2>2, <2>3, SetErrorFacts, SensorKept
  <1>8. CASE NoData
    <2>1. /\ loop' = [loop EXCEPT !.pc = "sleep"]
          /\ shown' = [shown EXCEPT !.status = "no-data", !.streak = Capped(shown.streak + 1)]
          /\ truth' = [truth EXCEPT !.missed = Capped(truth.missed + 1)]
      BY <1>8 DEF NoData, Recorded
    <2>2. shown \in ShownType /\ truth \in TruthType /\ shown.streak = truth.missed
          /\ shown.sample = truth.read
      BY <1>1 DEF Shows
    <2>3. truth.missed \in 0..StreakTrigger
      BY <2>2 DEF TruthType
    <2>4. Capped(truth.missed + 1) \in 0..StreakTrigger /\ Capped(truth.missed + 1) # 0
      BY <2>3, SensorFacts DEF Capped
    <2>5. loop' \in LoopType /\ loop'.pc = "sleep" /\ loop'.sensor = loop.sensor
          /\ loop'.bus = loop.bus
      BY <1>1, <2>1 DEF LoopType
    <2>6. LoopInv(loop')
      BY <1>1, <2>5 DEF LoopInv
    <2>7. shown' \in ShownType /\ shown'.status = "no-data"
          /\ shown'.streak = Capped(truth.missed + 1) /\ shown'.sample = shown.sample
      BY <2>1, <2>2, <2>4 DEF ShownType
    <2>8. truth' \in TruthType /\ truth'.missed = Capped(truth.missed + 1)
          /\ truth'.read = truth.read
      BY <2>1, <2>2, <2>4 DEF TruthType
    <2>9. Shows(shown', truth')
      BY <2>2, <2>7, <2>8 DEF Shows
    <2> QED
      BY <2>4, <2>6, <2>7, <2>8, <2>9, SensorKept
  <1>9. CASE Sleep
    <2>1. /\ loop' = [loop EXCEPT !.pc = "attempt", !.attempt = 0]
          /\ shown' = shown /\ truth' = truth
      BY <1>9 DEF Sleep
    <2>2. loop' \in LoopType /\ loop'.pc = "attempt" /\ loop'.attempt = 0
          /\ loop'.sensor = loop.sensor /\ loop'.bus = loop.bus
      BY <1>1, <2>1, SensorFacts DEF LoopType
    <2>3. LoopInv(loop')
      BY <1>1, <2>2, SensorFacts DEF LoopInv
    <2> QED
      BY <1>1, <2>1, <2>2, <2>3, SensorKept
  <1>10. CASE SensorStops
    <2>1. loop' = [Fresh EXCEPT !.pc = "ended"] /\ shown' = shown /\ truth' = truth
      BY <1>10 DEF SensorStops
    <2>2. loop'.pc = "ended"
      BY <2>1 DEF Fresh
    <2> QED
      BY <1>1, <2>1, <2>2, FreshFacts, SensorKept
  <1>11. CASE SensorRestart
    <2>1. /\ loop' = Fresh /\ truth' = [missed |-> 0, read |-> FALSE]
          /\ shown' = [status |-> "starting", error |-> FALSE, sample |-> FALSE, streak |-> 0]
      BY <1>11 DEF SensorRestart
    <2>2. loop'.pc = "start" /\ LoopInv(loop')
      BY <2>1, FreshFacts DEF Fresh
    <2>3. Shows(shown', truth')
      BY <2>1, SensorFacts DEF Shows, ShownType, TruthType
    <2> QED
      BY <2>2, <2>3, SensorKept
  <1>12. CASE UNCHANGED sensorVars
    BY <1>1, <1>12, SensorKept DEF sensorVars
  <1> QED
    BY <1>2, <1>3, <1>4, <1>5, <1>6, <1>7, <1>8, <1>9, <1>10, <1>11, <1>12 DEF SensorNext

LEMMA SensorInitHolds == ASSUME SensorInit PROVE SensorInv
  <1>1. /\ loop = Fresh /\ truth = [missed |-> 0, read |-> FALSE]
        /\ shown = [status |-> "starting", error |-> FALSE, sample |-> FALSE, streak |-> 0]
    BY DEF SensorInit
  <1>2. loop.pc = "start" /\ LoopInv(loop)
    BY <1>1, FreshFacts DEF Fresh
  <1>3. Shows(shown, truth)
    BY <1>1, SensorFacts DEF Shows, ShownType, TruthType
  <1> QED
    BY <1>2, <1>3, SensorParts

-----------------------------------------------------------------------------
(* hv-monitor *)

LEMMA AppendedFacts ==
  /\ DOMAIN Appended = {"vhv6", "ihv6"} /\ Appended["vhv6"] = "vhv0" /\ Appended["ihv6"] = "ihv0"
  BY DEF Appended

\* One more answer, taken for its question.
LEMMA InPlaceGrows ==
  ASSUME NEW S, InPlace(S), NEW x, x[1] = x[2],
         x[4] = First(x[1]) \/ \E y \in S : y[1] = Appended[x[1]] /\ y[3] # "values"
  PROVE  InPlace(S \cup {x})
  BY DEF InPlace

\* What an answer becomes when it is taken.
LEMMA TakenFacts ==
  ASSUME NEW S, InPlace(S), NEW q \in Asked, NEW n \in 0..6, Follows(S, q, n), NEW a,
         a.to = q, a.kind \in Kinds
  PROVE  InPlace(S \cup {Taken(q, a, n)}) /\ Taken(q, a, n) \in Answers
  <1> DEFINE at == IF q \in DOMAIN Appended THEN n ELSE 0
             x == Taken(q, a, n)
  <1>1. x = <<q, q, a.kind, at>> /\ at \in 0..6
    BY DEF Taken
  <1> HIDE DEF x
  <1>2. x[1] = q /\ x[2] = q /\ x[3] = a.kind /\ x[4] = at /\ x \in Answers
    BY <1>1 DEF Answers
  <1>3. x[4] = First(x[1]) \/ \E y \in S : y[1] = Appended[x[1]] /\ y[3] # "values"
    BY <1>2 DEF Follows, First
  <1> QED
    BY <1>2, <1>3, InPlaceGrows DEF x

LEMMA KindFacts ==
  /\ \A q : KindsOf(q) \subseteq Kinds
  /\ \A kind \in Kinds : Width[kind] \in 0..6 /\ (kind = "values" => Width[kind] = 6)
  BY DEF KindsOf, Kinds, Width

LEMMA BlockFacts ==
  ASSUME NEW c \in Commands
  PROVE  /\ Blocks[c][1] \in Asked /\ Blocks[c][2] \in Asked /\ c # "free"
         /\ Blocks[c][1] \notin DOMAIN Appended /\ Appended[Blocks[c][2]] = Blocks[c][1]
  <1>1. CASE c = "get_vhv"
    <2>1. Blocks[c] = <<"vhv0", "vhv6">>
      BY <1>1 DEF Blocks
    <2> QED
      BY <1>1, <2>1, AppendedFacts DEF Asked
  <1>2. CASE c = "get_ihv"
    <2>1. Blocks[c] = <<"ihv0", "ihv6">>
      BY <1>2 DEF Blocks
    <2> QED
      BY <1>2, <2>1, AppendedFacts DEF Asked
  <1> QED
    BY <1>1, <1>2 DEF Commands

LEMMA ViewFields ==
  ASSUME NEW v \in ViewType
  PROVE  /\ v.pc \in [Commands -> {"start", "locked", "sent", "log"}] /\ v.at \in 1..2 /\ v.n \in 0..6
         /\ v.row \in [Commands -> SUBSET Answers] /\ v.got \in SUBSET Answers
         /\ v.wire \in Seq([to : Asked, kind : Kinds])
         /\ <<>> \in Seq([to : Asked, kind : Kinds]) /\ {} \in SUBSET Answers
         /\ 1 \in 1..2 /\ 2 \in 1..2 /\ 0 \in 0..6
  BY DEF ViewType

\* Nobody has the lock, and the connection is quiet.
LEMMA Unlocked ==
  ASSUME NEW v, v.lock = "free", v.wire = <<>>, RowsInv(v),
         \A c \in Commands : v.pc[c] \notin {"locked", "sent"}
  PROVE  HolderInv(v) /\ LineInv(v) /\ RowsInv(v)
  BY BlockFacts DEF HolderInv, LineInv

LEMMA BlankRow == InPlace({})
  BY DEF InPlace

LEMMA OpenedFacts == Opened \in ViewType /\ HolderInv(Opened) /\ LineInv(Opened) /\ RowsInv(Opened)
  <1>1. <<>> \in Seq([to : Asked, kind : Kinds]) /\ {} \in SUBSET Answers
    OBVIOUS
  <1>2. /\ Opened \in ViewType /\ Opened.lock = "free" /\ Opened.wire = <<>>
        /\ \A c \in Commands : Opened.pc[c] = "start" /\ Opened.row[c] = {}
    BY <1>1 DEF Opened, ViewType
  <1>3. RowsInv(Opened)
    BY <1>2, BlankRow DEF RowsInv
  <1> QED
    BY <1>2, <1>3, Unlocked

\* The answer that the loop c takes is to its own question.
LEMMA ViewHears ==
  ASSUME ViewInv, NEW c \in Commands, view.pc[c] = "sent"
  PROVE  /\ view.lock = c /\ Tail(view.wire) = <<>>
         /\ Head(view.wire).to = Blocks[c][view.at] /\ Head(view.wire).kind \in Kinds
         /\ Width[Head(view.wire).kind] \in 0..6
         /\ Head(view.wire).kind = "values" => Width[Head(view.wire).kind] = 6
  <1>1. PICK kind \in Kinds : view.wire = <<[to |-> Blocks[c][view.at], kind |-> kind]>>
    BY DEF ViewInv, LineInv
  <1>2. /\ Tail(view.wire) = <<>> /\ Head(view.wire) = [to |-> Blocks[c][view.at], kind |-> kind]
    BY <1>1
  <1>3. Head(view.wire).to = Blocks[c][view.at] /\ Head(view.wire).kind = kind
    BY <1>2
  <1>4. view.lock = c
    BY DEF ViewInv, HolderInv
  <1> QED
    BY <1>2, <1>3, <1>4, KindFacts

LEMMA HearFirstKeeps ==
  ASSUME ViewInv, NEW c \in Commands, HearFirst(c)
  PROVE  ViewInv'
  <1> DEFINE x == Taken(Blocks[c][1], Head(view.wire), 0)
             w == Width[Head(view.wire).kind]
  <1>1. /\ view.pc[c] = "sent" /\ view.at = 1
        /\ view' = [view EXCEPT !.pc[c] = "locked", !.wire = Tail(@), !.at = 2, !.n = w, !.got = {x}]
    BY DEF HearFirst
  <1>2. /\ view.lock = c /\ Tail(view.wire) = <<>> /\ Head(view.wire).to = Blocks[c][1]
        /\ Head(view.wire).kind \in Kinds /\ w \in 0..6
        /\ Head(view.wire).kind = "values" => w = 6
    BY <1>1, ViewHears
  <1>3. /\ InPlace({} \cup {x}) /\ x \in Answers /\ x[1] = Blocks[c][1]
        /\ x[3] = Head(view.wire).kind
    <2>1. Follows({}, Blocks[c][1], 0) /\ 0 \in 0..6
      BY BlockFacts DEF Follows
    <2>2. Blocks[c][1] \in Asked
      BY BlockFacts
    <2>3. InPlace({} \cup {x}) /\ x \in Answers
      BY <1>2, <2>1, <2>2, BlankRow, TakenFacts
    <2>4. x[1] = Blocks[c][1] /\ x[3] = Head(view.wire).kind
      BY DEF Taken
    <2> QED
      BY <2>3, <2>4
  <1> HIDE DEF x, w
  <1>4. Follows({x}, Blocks[c][2], w)
    BY <1>2, <1>3, BlockFacts DEF Follows
  <1>5. /\ view \in ViewType /\ view.pc \in [Commands -> {"start", "locked", "sent", "log"}]
        /\ <<>> \in Seq([to : Asked, kind : Kinds]) /\ 2 \in 1..2
    BY ViewFields DEF ViewInv
  <1>6. /\ view' \in ViewType /\ view'.pc = [view.pc EXCEPT ![c] = "locked"] /\ view'.lock = c
        /\ view'.row = view.row /\ view'.wire = <<>> /\ view'.got = {x} /\ view'.n = w
    BY <1>1, <1>2, <1>3, <1>5 DEF ViewType
  <1>7. \A d \in Commands : d # c => view.pc[d] \notin {"locked", "sent"}
    BY <1>2 DEF ViewInv, HolderInv
  <1>8. \A d \in Commands : /\ view'.pc[d] = IF d = c THEN "locked" ELSE view.pc[d]
                            /\ view'.pc[d] # "sent"
    BY <1>5, <1>6, <1>7
  <1>9. InPlace({x})
    BY <1>3
  <1>10. HolderInv(view')
    BY <1>4, <1>6, <1>7, <1>8, <1>9 DEF HolderInv
  <1>11. LineInv(view') /\ RowsInv(view')
    BY <1>6, <1>8 DEF ViewInv, LineInv, RowsInv
  <1> QED
    BY <1>6, <1>10, <1>11 DEF ViewInv

LEMMA HearSecondKeeps ==
  ASSUME ViewInv, NEW c \in Commands, HearSecond(c)
  PROVE  ViewInv'
  <1> DEFINE x == Taken(Blocks[c][2], Head(view.wire), view.n)
             S == view.got \cup {x}
  <1>1. /\ view.pc[c] = "sent" /\ view.at = 2
        /\ view' = [view EXCEPT !.pc[c] = "log", !.lock = "free", !.wire = Tail(@), !.at = 1, !.n = 0,
                                !.got = {}, !.row[c] = S]
    BY DEF HearSecond
  <1>2. /\ view.lock = c /\ Tail(view.wire) = <<>> /\ Head(view.wire).to = Blocks[c][2]
        /\ Head(view.wire).kind \in Kinds
    BY <1>1, ViewHears
  <1>3. InPlace(view.got) /\ Follows(view.got, Blocks[c][2], view.n)
    BY <1>1, <1>2 DEF ViewInv, HolderInv
  <1>4. /\ view \in ViewType /\ view.pc \in [Commands -> {"start", "locked", "sent", "log"}]
        /\ view.n \in 0..6 /\ view.row \in [Commands -> SUBSET Answers] /\ view.got \subseteq Answers
        /\ <<>> \in Seq([to : Asked, kind : Kinds]) /\ 1 \in 1..2 /\ 0 \in 0..6 /\ {} \in SUBSET Answers
    BY ViewFields DEF ViewInv
  <1>5. InPlace(S) /\ x \in Answers
    BY <1>2, <1>3, <1>4, BlockFacts, TakenFacts
  <1> HIDE DEF x
  <1>6. S \in SUBSET Answers
    BY <1>4, <1>5
  <1> HIDE DEF S
  <1>7. /\ view' \in ViewType /\ view'.pc = [view.pc EXCEPT ![c] = "log"] /\ view'.lock = "free"
        /\ view'.row = [view.row EXCEPT ![c] = S] /\ view'.wire = <<>>
    BY <1>1, <1>2, <1>4, <1>6 DEF ViewType
  <1>8. \A d \in Commands : view'.pc[d] \notin {"locked", "sent"}
    BY <1>2, <1>4, <1>7 DEF ViewInv, HolderInv
  <1>9. RowsInv(view')
    BY <1>4, <1>5, <1>7 DEF ViewInv, RowsInv
  <1> QED
    BY <1>7, <1>8, <1>9, Unlocked DEF ViewInv

LEMMA ViewKeeps ==
  ASSUME ViewInv, ViewNext \/ UNCHANGED view
  PROVE  ViewInv'
  <1>1. view \in ViewType /\ HolderInv(view) /\ LineInv(view) /\ RowsInv(view)
    BY DEF ViewInv
  <1>2. /\ view.pc \in [Commands -> {"start", "locked", "sent", "log"}] /\ view.at \in 1..2
        /\ view.n \in 0..6 /\ view.row \in [Commands -> SUBSET Answers]
        /\ view.got \in SUBSET Answers /\ view.wire \in Seq([to : Asked, kind : Kinds])
        /\ <<>> \in Seq([to : Asked, kind : Kinds]) /\ {} \in SUBSET Answers
        /\ 1 \in 1..2 /\ 2 \in 1..2 /\ 0 \in 0..6
    BY <1>1, ViewFields
  <1>3. ASSUME view' \in ViewType, HolderInv(view'), LineInv(view'), RowsInv(view')
        PROVE  ViewInv'
    BY <1>3 DEF ViewInv
  <1>4. ASSUME NEW c \in Commands, LockSupply(c)
        PROVE  ViewInv'
    <2>1. /\ view.lock = "free"
          /\ view' = [view EXCEPT !.pc[c] = "locked", !.lock = c, !.row[c] = {},
                                  !.at = 1, !.n = 0, !.got = {}]
      BY <1>4 DEF LockSupply, LockFor
    <2>2. /\ view' \in ViewType /\ view'.pc = [view.pc EXCEPT ![c] = "locked"] /\ view'.lock = c
          /\ view'.row = [view.row EXCEPT ![c] = {}] /\ view'.wire = view.wire /\ view'.at = 1
      BY <1>1, <1>2, <2>1 DEF ViewType
    <2>3. \A d \in Commands : view.pc[d] \notin {"locked", "sent"}
      BY <1>1, <2>1, BlockFacts DEF HolderInv
    <2>4. \A d \in Commands : view'.pc[d] = IF d = c THEN "locked" ELSE view.pc[d]
      BY <1>2, <2>2
    <2>5. HolderInv(view')
      BY <2>2, <2>3, <2>4 DEF HolderInv
    <2>6. LineInv(view')
      BY <1>1, <2>2, <2>3, <2>4 DEF LineInv
    <2>7. RowsInv(view')
      BY <1>1, <1>2, <2>2, BlankRow DEF RowsInv
    <2> QED
      BY <1>3, <2>2, <2>5, <2>6, <2>7
  <1>5. ASSUME NEW c \in Commands, AskSupply(c)
        PROVE  ViewInv'
    <2>1. PICK kind \in Kinds :
            view' = [view EXCEPT !.pc[c] = "sent",
                                 !.wire = Append(@, [to |-> Blocks[c][view.at], kind |-> kind])]
      BY <1>5 DEF AskSupply
    <2> DEFINE m == [to |-> Blocks[c][view.at], kind |-> kind]
    <2>2. view.pc[c] = "locked" /\ view.lock = c
      BY <1>1, <1>5 DEF AskSupply, HolderInv
    <2>3. \A d \in Commands : view.pc[d] # "sent" /\ (d # c => view.pc[d] \notin {"locked", "sent"})
      BY <1>1, <2>2 DEF HolderInv
    <2>4. m \in [to : Asked, kind : Kinds]
      <3>1. view.at = 1 \/ view.at = 2
        BY <1>2
      <3> QED
        BY <2>1, <3>1, BlockFacts
    <2>5. view' = [view EXCEPT !.pc[c] = "sent", !.wire = Append(@, m)]
      BY <2>1
    <2>6. \E k \in Kinds : m = [to |-> Blocks[c][view.at], kind |-> k]
      OBVIOUS
    <2> HIDE DEF m
    <2>7. Append(view.wire, m) = <<m>> /\ <<m>> \in Seq([to : Asked, kind : Kinds])
      <3>1. view.wire = <<>>
        BY <1>1, <2>3 DEF LineInv
      <3> QED
        BY <2>4, <3>1
    <2>8. /\ view' \in ViewType /\ view'.pc = [view.pc EXCEPT ![c] = "sent"]
          /\ view'.lock = view.lock /\ view'.row = view.row /\ view'.wire = <<m>>
          /\ view'.at = view.at /\ view'.n = view.n /\ view'.got = view.got
      BY <1>1, <2>5, <2>7 DEF ViewType
    <2>9. \A d \in Commands : view'.pc[d] = IF d = c THEN "sent" ELSE view.pc[d]
      BY <1>2, <2>8
    <2>10. HolderInv(view') /\ RowsInv(view')
      BY <1>1, <2>2, <2>3, <2>8, <2>9 DEF HolderInv, RowsInv
    <2>11. LineInv(view')
      BY <2>3, <2>6, <2>8, <2>9 DEF LineInv
    <2> QED
      BY <1>3, <2>8, <2>10, <2>11
  <1>6. ASSUME NEW c \in Commands, SupplyFails(c)
        PROVE  ViewInv'
    <2>1. /\ view.pc[c] \in {"locked", "sent"}
          /\ view' = [view EXCEPT !.pc[c] = "log", !.lock = "free", !.open = FALSE, !.wire = <<>>,
                                  !.at = 1, !.n = 0, !.got = {}]
      BY <1>6 DEF SupplyFails
    <2>2. view.lock = c
      BY <1>1, <2>1 DEF HolderInv
    <2>3. /\ view' \in ViewType /\ view'.pc = [view.pc EXCEPT ![c] = "log"]
          /\ view'.lock = "free" /\ view'.row = view.row /\ view'.wire = <<>>
      BY <1>1, <1>2, <2>1 DEF ViewType
    <2>4. \A d \in Commands : view'.pc[d] \notin {"locked", "sent"}
      BY <1>1, <1>2, <2>2, <2>3 DEF HolderInv
    <2>5. RowsInv(view')
      BY <1>1, <2>3 DEF RowsInv
    <2> QED
      BY <1>3, <2>3, <2>4, <2>5, Unlocked
  <1>7. ASSUME NEW c \in Commands, LogRow(c)
        PROVE  ViewInv'
    <2>1. view.pc[c] = "log" /\ view' = [view EXCEPT !.pc[c] = "start"]
      BY <1>7 DEF LogRow
    <2>2. /\ view' \in ViewType /\ view'.pc = [view.pc EXCEPT ![c] = "start"]
          /\ view'.lock = view.lock /\ view'.row = view.row /\ view'.wire = view.wire
          /\ view'.at = view.at /\ view'.n = view.n /\ view'.got = view.got
      BY <1>1, <2>1 DEF ViewType
    <2>3. \A d \in Commands : view'.pc[d] = IF d = c THEN "start" ELSE view.pc[d]
      BY <1>2, <2>2
    <2>4. HolderInv(view') /\ RowsInv(view')
      BY <1>1, <2>1, <2>2, <2>3 DEF HolderInv, RowsInv
    <2>5. LineInv(view')
      BY <1>1, <2>1, <2>2, <2>3 DEF LineInv
    <2> QED
      BY <1>3, <2>2, <2>4, <2>5
  <1>8. ASSUME Reopen
        PROVE  ViewInv'
    <2>1. view' = Opened
      BY <1>8 DEF Reopen
    <2> QED
      BY <1>3, <2>1, OpenedFacts
  <1>9. CASE UNCHANGED view
    BY <1>1, <1>9 DEF ViewInv
  <1> QED
    BY <1>4, <1>5, <1>6, <1>7, <1>8, <1>9, HearFirstKeeps, HearSecondKeeps DEF ViewNext

LEMMA ViewInitHolds == ASSUME ViewInit PROVE ViewInv
  BY OpenedFacts DEF ViewInit, ViewInv

-----------------------------------------------------------------------------
(* The command line *)

CliType == [pc : {"host", "command", "poll", "connect", "send", "finally", "end"},
            at : 1..(Len(HostList) + 1), left : 0..Lines, port : Ports \cup {NoPort},
            cached : BOOLEAN, via : {"nothing", "own"} \cup Hosts, fails : 0..MaxFailures]
InHost == {"command", "poll", "connect", "send"}

CliInv(c) ==
  /\ c \in CliType
  /\ c.pc \notin {"host", "end"} => c.at <= Len(HostList)
  /\ c.pc \in {"poll", "connect", "send"} => c.left > 0 /\ c.port \in Ports
  /\ c.pc = "send" => c.cached
  /\ c.cached => c.port \in Ports
  /\ c.pc \notin {"finally", "end"} => c.fails < MaxFailures

\* The process c, its ssh s, the foreign listeners o, and the history.
PortInv(c, s, o, r, m) ==
  /\ s \in {"none", "starting", "up"} /\ o \in [Ports -> Hosts \cup {NoHost}]
  /\ r \in BOOLEAN /\ m \in BOOLEAN
  /\ c.port \in Ports /\ o[c.port] # NoHost => r
  /\ m => r
  /\ m /\ c.pc \in InHost => c.cached
  /\ c.pc \in {"host", "end"} => s = "none"

LEMMA TunnelParts ==
  TunnelInv <=> call \in Calls /\ CliInv(cli) /\ PortInv(cli, ssh, others, raced, misled)
  BY DEF TunnelInv, TunnelTypeOK, CliInv, PortInv, CliType, InHost

LEMMA TunnelKept ==
  ASSUME call' \in Calls, CliInv(cli'), PortInv(cli', ssh', others', raced', misled')
  PROVE  TunnelInv'
  BY DEF TunnelInv, TunnelTypeOK, CliInv, PortInv, CliType, InHost

LEMMA TunnelFacts ==
  /\ Len(HostList) \in Nat /\ Len(HostList) > 0 /\ DOMAIN HostList = 1..Len(HostList)
  /\ NoPort \notin Ports /\ DefaultPort \in Ports
  /\ MaxFailures \in Nat /\ MaxFailures > 0 /\ Lines \in Nat /\ Lines > 0
  /\ 1 \in 1..(Len(HostList) + 1) /\ 0 \in 0..Lines /\ 0 \in 0..MaxFailures /\ Lines \in 0..Lines
  <1>1. /\ Len(HostList) \in Nat /\ Len(HostList) > 0 /\ DOMAIN HostList = 1..Len(HostList)
    BY TunnelsAssumption
  <1>2. NoPort \notin Ports /\ DefaultPort \in Ports
    BY TunnelsAssumption DEF NoPort
  <1>3. MaxFailures \in Nat /\ MaxFailures > 0 /\ Lines \in Nat /\ Lines > 0
    BY TunnelsAssumption
  <1> QED
    BY <1>1, <1>2, <1>3

LEMMA CliFields ==
  ASSUME NEW c, CliInv(c)
  PROVE  /\ c \in CliType /\ c.at \in Nat /\ c.at >= 1 /\ c.left \in Nat /\ c.left <= Lines
         /\ c.fails \in Nat /\ c.fails <= MaxFailures
         /\ c.pc \in {"host", "command", "poll", "connect", "send", "finally", "end"}
         /\ c.port \in Ports \cup {NoPort} /\ c.cached \in BOOLEAN
         /\ c.via \in {"nothing", "own"} \cup Hosts
  <1>1. /\ c \in CliType /\ c.at \in 1..(Len(HostList) + 1) /\ c.left \in 0..Lines
        /\ c.fails \in 0..MaxFailures
        /\ c.pc \in {"host", "command", "poll", "connect", "send", "finally", "end"}
        /\ c.port \in Ports \cup {NoPort} /\ c.cached \in BOOLEAN
        /\ c.via \in {"nothing", "own"} \cup Hosts
    BY DEF CliInv, CliType
  <1> QED
    BY <1>1, TunnelFacts

\* A process that starts, or begins with a host, has no port yet.
LEMMA ShellFacts ==
  ASSUME NEW pc \in {"host", "command", "end"}, NEW at \in 1..(Len(HostList) + 1),
         NEW left \in 0..Lines, NEW fails \in 0..MaxFailures,
         pc = "command" => at <= Len(HostList), pc # "end" => fails < MaxFailures
  PROVE  LET c == [Shell EXCEPT !.pc = pc, !.at = at, !.left = left, !.fails = fails]
         IN  CliInv(c) /\ c.pc = pc /\ c.port \notin Ports
  <1> DEFINE c == [Shell EXCEPT !.pc = pc, !.at = at, !.left = left, !.fails = fails]
  <1>1. Shell \in CliType /\ Shell.port = NoPort /\ Shell.cached = FALSE
    BY TunnelFacts DEF Shell, CliType
  <1>2. /\ c \in CliType /\ c.pc = pc /\ c.at = at /\ c.fails = fails /\ c.port = NoPort
        /\ c.cached = FALSE
    BY <1>1 DEF CliType
  <1> HIDE DEF c
  <1>3. CliInv(c)
    BY <1>2 DEF CliInv
  <1> QED
    BY <1>2, <1>3, TunnelFacts DEF c

LEMMA ShellItself ==
  CliInv(Shell) /\ Shell.pc = "host" /\ Shell.port \notin Ports
  <1>1. /\ Shell \in CliType /\ Shell.port = NoPort /\ Shell.pc = "host" /\ Shell.fails = 0
        /\ Shell.cached = FALSE
    BY TunnelFacts DEF Shell, CliType
  <1>2. CliInv(Shell)
    BY <1>1, TunnelFacts DEF CliInv
  <1> QED
    BY <1>1, <1>2, TunnelFacts

\* The place moves, and what the connection is stays.
LEMMA AfterFacts ==
  ASSUME CliInv(cli), cli.pc \in {"poll", "connect", "send"}, NEW exc
  PROVE  \A c \in {NextLine(cli), After(exc)} :
           /\ CliInv(c) /\ c.pc \in {"command", "finally"}
           /\ c.port = cli.port /\ c.cached = cli.cached
  <1>1. /\ cli \in CliType /\ cli.left \in Nat /\ cli.left > 0 /\ cli.left <= Lines
        /\ cli.at <= Len(HostList) /\ cli.fails \in Nat /\ cli.fails < MaxFailures
        /\ cli.port \in Ports
    BY CliFields DEF CliInv
  <1>2. cli.left - 1 \in 0..Lines /\ cli.fails + 1 \in 0..MaxFailures /\ cli.fails \in 0..MaxFailures
    BY <1>1, TunnelFacts
  <1>3. /\ NextLine(cli) \in CliType /\ NextLine(cli).pc = "command"
        /\ NextLine(cli).at = cli.at /\ NextLine(cli).fails = cli.fails
        /\ NextLine(cli).port = cli.port /\ NextLine(cli).cached = cli.cached
    BY <1>1, <1>2 DEF NextLine, CliType
  <1>4. CliInv(NextLine(cli))
    BY <1>1, <1>3 DEF CliInv
  <1>5. CASE Reported(exc)
    BY <1>3, <1>4, <1>5 DEF After
  <1>6. CASE ~Reported(exc)
    <2> DEFINE f == IF exc = "tunnel" /\ ~call.interactive THEN cli.fails + 1 ELSE cli.fails
    <2>1. After(exc) = [cli EXCEPT !.pc = "finally", !.fails = f]
      BY <1>6 DEF After
    <2>2. f \in 0..MaxFailures
      BY <1>2
    <2> HIDE DEF f
    <2>3. /\ After(exc) \in CliType /\ After(exc).pc = "finally" /\ After(exc).at = cli.at
          /\ After(exc).port = cli.port /\ After(exc).cached = cli.cached
      BY <1>1, <2>1, <2>2 DEF CliType
    <2>4. CliInv(After(exc))
      BY <1>1, <2>3 DEF CliInv
    <2> QED
      BY <1>3, <1>4, <2>3, <2>4
  <1> QED
    BY <1>5, <1>6

\* A process that keeps its port and its cache keeps what is known of them.
LEMMA SamePort ==
  ASSUME NEW c, PortInv(cli, ssh, others, raced, misled), c.port = cli.port,
         c.cached = cli.cached, c.pc \notin {"host", "end"}, cli.pc \in InHost
  PROVE  /\ PortInv(c, ssh, others, raced, misled)
         /\ PortInv(c, "none", others, raced, misled)
  BY DEF PortInv

\* A process without a port, and without an ssh.
LEMMA NoPortYet ==
  ASSUME NEW c, c.port \notin Ports, NEW o \in [Ports -> Hosts \cup {NoHost}],
         NEW r \in BOOLEAN, NEW m \in BOOLEAN, m => r, m => c.pc \notin InHost
  PROVE  PortInv(c, "none", o, r, m)
  BY DEF PortInv

LEMMA TunnelKeeps ==
  ASSUME TunnelInv, TunnelNext \/ UNCHANGED tunnelVars
  PROVE  TunnelInv'
  <1>1. call \in Calls /\ CliInv(cli) /\ PortInv(cli, ssh, others, raced, misled)
    BY TunnelParts
  <1>2. /\ ssh \in {"none", "starting", "up"} /\ others \in [Ports -> Hosts \cup {NoHost}]
        /\ raced \in BOOLEAN /\ misled \in BOOLEAN /\ (misled => raced)
        /\ cli.port \in Ports /\ others[cli.port] # NoHost => raced
    BY <1>1 DEF PortInv
  <1>3. /\ cli.pc \in {"host", "end"} => ssh = "none"
        /\ misled /\ cli.pc \in InHost => cli.cached
    BY <1>1 DEF PortInv
  <1>4. /\ cli \in CliType /\ cli.at \in Nat /\ cli.at >= 1 /\ cli.left \in Nat
        /\ cli.left <= Lines /\ cli.fails \in Nat /\ cli.fails <= MaxFailures
        /\ cli.pc \in {"host", "command", "poll", "connect", "send", "finally", "end"}
        /\ cli.via \in {"nothing", "own"} \cup Hosts /\ cli.cached \in BOOLEAN
    BY <1>1, CliFields
  <1>5. /\ cli.pc \notin {"host", "end"} => cli.at <= Len(HostList)
        /\ cli.pc \in {"poll", "connect", "send"} => cli.left > 0 /\ cli.port \in Ports
        /\ (cli.pc = "send" => cli.cached) /\ (cli.cached => cli.port \in Ports)
        /\ cli.pc \notin {"finally", "end"} => cli.fails < MaxFailures
    BY <1>1 DEF CliInv
  <1>6. CASE BeginHost
    <2>1. /\ cli.pc = "host" /\ cli.at <= Len(HostList)
          /\ cli' = [Shell EXCEPT !.pc = "command", !.at = cli.at, !.left = Lines, !.fails = cli.fails]
          /\ raced' = FALSE /\ misled' = FALSE /\ call' = call /\ ssh' = ssh /\ others' = others
      BY <1>6 DEF BeginHost
    <2>2. cli.at \in 1..(Len(HostList) + 1) /\ cli.fails \in 0..MaxFailures
      BY <1>4, <2>1, TunnelFacts
    <2>3. CliInv(cli') /\ cli'.port \notin Ports
      BY <1>5, <2>1, <2>2, ShellFacts, TunnelFacts
    <2>4. PortInv(cli', "none", others, FALSE, FALSE)
      BY <1>2, <2>3, NoPortYet
    <2> QED
      BY <1>1, <1>3, <2>1, <2>3, <2>4, TunnelKept
  <1>7. CASE HostDone
    <2>1. /\ cli.pc = "command" /\ cli' = [cli EXCEPT !.pc = "finally", !.fails = 0]
          /\ UNCHANGED <<call, ssh, others, raced, misled>>
      BY <1>7 DEF HostDone
    <2>2. /\ cli' \in CliType /\ cli'.pc = "finally" /\ cli'.at = cli.at
          /\ cli'.port = cli.port /\ cli'.cached = cli.cached
      BY <1>4, <2>1, TunnelFacts DEF CliType
    <2>3. CliInv(cli')
      BY <1>5, <2>1, <2>2 DEF CliInv
    <2>4. PortInv(cli', ssh, others, raced, misled)
      BY <1>1, <2>1, <2>2, SamePort DEF InHost
    <2> QED
      BY <1>1, <2>1, <2>3, <2>4, TunnelKept
  <1>8. CASE CloseAll
    <2> DEFINE pc == IF call.interactive \/ cli.fails >= MaxFailures THEN "end" ELSE "host"
    <2>1. /\ cli.pc = "finally" /\ ssh' = "none"
          /\ UNCHANGED <<call, others, raced, misled>>
          /\ cli' = [Shell EXCEPT !.pc = pc, !.at = cli.at + 1, !.fails = cli.fails]
      BY <1>8 DEF CloseAll
    <2>2. pc \in {"host", "end"} /\ (pc # "end" => cli.fails < MaxFailures)
      BY <1>4, TunnelFacts
    <2>3. cli.at + 1 \in 1..(Len(HostList) + 1) /\ cli.fails \in 0..MaxFailures
      BY <1>4, <1>5, <2>1, TunnelFacts
    <2> HIDE DEF pc
    <2>4. CliInv(cli') /\ cli'.port \notin Ports /\ cli'.pc = pc
      <3>1. Shell \in CliType /\ Shell.port = NoPort /\ Shell.cached = FALSE
        BY TunnelFacts DEF Shell, CliType
      <3>2. /\ cli' \in CliType /\ cli'.pc = pc /\ cli'.fails = cli.fails /\ cli'.port = NoPort
            /\ cli'.cached = FALSE
        BY <2>1, <2>2, <2>3, <3>1 DEF CliType
      <3> QED
        BY <2>2, <3>2, TunnelFacts DEF CliInv
    <2>5. PortInv(cli', "none", others, raced, misled)
      BY <1>2, <2>2, <2>4, NoPortYet DEF InHost
    <2> QED
      BY <1>1, <2>1, <2>4, <2>5, TunnelKept
  <1>9. CASE CallAgain
    <2>1. /\ cli.pc \in {"end", "host"} /\ cli' = Shell /\ call' \in Calls
          /\ UNCHANGED <<ssh, others, raced, misled>>
      BY <1>9 DEF CallAgain
    <2>2. PortInv(cli', "none", others, raced, misled)
      BY <1>2, <2>1, ShellItself, NoPortYet DEF InHost
    <2> QED
      BY <1>3, <2>1, <2>2, ShellItself, TunnelKept
  <1>10. CASE KillShell
    <2>1. /\ ssh # "none" /\ cli' = Shell /\ ssh' = "none" /\ call' = call
          /\ others' = IF ssh = "up" THEN [others EXCEPT ![cli.port] = current_host] ELSE others
          /\ raced' = FALSE /\ misled' = FALSE
      BY <1>10 DEF KillShell
    <2>2. cli.at \in DOMAIN HostList
      BY <1>3, <1>4, <1>5, <2>1, TunnelFacts
    <2>3. current_host \in Hosts
      BY <2>2 DEF current_host, Hosts
    <2>4. others' \in [Ports -> Hosts \cup {NoHost}]
      BY <1>2, <2>1, <2>3
    <2>5. PortInv(cli', "none", others', FALSE, FALSE)
      BY <2>1, <2>4, ShellItself, NoPortYet
    <2> QED
      BY <1>1, <2>1, <2>5, ShellItself, TunnelKept
  <1>11. CASE UseCached
    <2>1. /\ cli.pc = "command" /\ cli.left > 0 /\ cli.cached /\ cli' = [cli EXCEPT !.pc = "send"]
          /\ UNCHANGED <<call, ssh, others, raced, misled>>
      BY <1>11 DEF UseCached
    <2>2. /\ cli' \in CliType /\ cli'.pc = "send" /\ cli'.at = cli.at /\ cli'.left = cli.left
          /\ cli'.port = cli.port /\ cli'.cached = cli.cached /\ cli'.fails = cli.fails
      BY <1>4, <2>1 DEF CliType
    <2>3. CliInv(cli')
      BY <1>5, <2>1, <2>2 DEF CliInv
    <2>4. PortInv(cli', ssh, others, raced, misled)
      BY <1>1, <2>1, <2>2, SamePort DEF InHost
    <2> QED
      BY <1>1, <2>1, <2>3, <2>4, TunnelKept
  <1>12. CASE StartSsh
    <2>1. /\ cli.pc = "command" /\ cli.left > 0 /\ ~cli.cached
          /\ ssh' = "starting" /\ raced' = FALSE /\ UNCHANGED <<call, others, misled>>
      BY <1>12 DEF StartSsh
    <2>2. PICK n \in LocalPorts : cli' = [cli EXCEPT !.pc = "poll", !.port = n]
      BY <1>12 DEF StartSsh
    <2>3. n \in Ports /\ others[n] = NoHost
      BY TunnelFacts DEF LocalPorts, local_port_open
    <2>4. /\ cli' \in CliType /\ cli'.pc = "poll" /\ cli'.at = cli.at /\ cli'.left = cli.left
          /\ cli'.port = n /\ cli'.cached = cli.cached /\ cli'.fails = cli.fails
      BY <1>4, <2>2, <2>3 DEF CliType
    <2>5. CliInv(cli')
      BY <1>5, <2>1, <2>3, <2>4 DEF CliInv
    <2>6. misled = FALSE
      BY <1>2, <1>3, <2>1 DEF InHost
    <2>7. PortInv(cli', "starting", others, FALSE, FALSE)
      BY <1>2, <2>3, <2>4 DEF PortInv
    <2> QED
      BY <1>1, <2>1, <2>5, <2>6, <2>7, TunnelKept
  <1>13. CASE PollSsh
    <2>1. cli.pc = "poll" /\ UNCHANGED <<call, ssh, others, raced, misled>>
      BY <1>13 DEF PollSsh
    <2>2. CASE cli' = After("tunnel")
      <3>1. CliInv(cli') /\ PortInv(cli', ssh, others, raced, misled)
        BY <1>1, <2>1, <2>2, AfterFacts, SamePort DEF InHost
      <3> QED
        BY <1>1, <2>1, <3>1, TunnelKept
    <2>3. CASE cli' = [cli EXCEPT !.pc = "connect"]
      <3>1. /\ cli' \in CliType /\ cli'.pc = "connect" /\ cli'.at = cli.at /\ cli'.left = cli.left
            /\ cli'.port = cli.port /\ cli'.cached = cli.cached /\ cli'.fails = cli.fails
        BY <1>4, <2>3 DEF CliType
      <3>2. CliInv(cli')
        BY <1>5, <2>1, <3>1 DEF CliInv
      <3>3. PortInv(cli', ssh, others, raced, misled)
        BY <1>1, <2>1, <3>1, SamePort DEF InHost
      <3> QED
        BY <1>1, <2>1, <3>2, <3>3, TunnelKept
    <2> QED
      BY <1>13, <2>2, <2>3 DEF PollSsh
  <1>14. CASE PollTimesOut
    <2>1. /\ cli.pc = "poll" /\ cli' = After("tunnel") /\ ssh' = "none"
          /\ UNCHANGED <<call, others, raced, misled>>
      BY <1>14 DEF PollTimesOut
    <2>2. CliInv(cli') /\ PortInv(cli', "none", others, raced, misled)
      BY <1>1, <2>1, AfterFacts, SamePort DEF InHost
    <2> QED
      BY <1>1, <2>1, <2>2, TunnelKept
  <1>15. CASE OpenConnection
    <2>1. cli.pc = "connect" /\ UNCHANGED <<call, ssh, others, raced, misled>>
      BY <1>15 DEF OpenConnection
    <2>2. CASE cli' = After("OSError")
      <3>1. CliInv(cli') /\ PortInv(cli', ssh, others, raced, misled)
        BY <1>1, <2>1, <2>2, AfterFacts, SamePort DEF InHost
      <3> QED
        BY <1>1, <2>1, <3>1, TunnelKept
    <2>3. ASSUME NEW via \in {"nothing", "own"} \cup Hosts,
                 cli' = [cli EXCEPT !.pc = "send", !.cached = TRUE, !.via = via]
          PROVE  TunnelInv'
      <3>1. /\ cli' \in CliType /\ cli'.pc = "send" /\ cli'.at = cli.at /\ cli'.left = cli.left
            /\ cli'.port = cli.port /\ cli'.cached = TRUE /\ cli'.fails = cli.fails
        BY <1>4, <2>3 DEF CliType
      <3>2. CliInv(cli')
        BY <1>5, <2>1, <3>1 DEF CliInv
      <3>3. PortInv(cli', ssh, others, raced, misled)
        BY <1>1, <2>1, <3>1 DEF PortInv
      <3> QED
        BY <1>1, <2>1, <3>2, <3>3, TunnelKept
    <2>4. CASE cli' = [cli EXCEPT !.pc = "send", !.cached = TRUE]
      <3>1. cli' = [cli EXCEPT !.pc = "send", !.cached = TRUE, !.via = cli.via]
        BY <1>4, <2>4 DEF CliType
      <3> QED
        BY <1>4, <2>3, <3>1
    <2>5. CASE /\ local_port_open(cli.port)
               /\ cli' = [cli EXCEPT !.pc = "send", !.cached = TRUE, !.via = Listener]
      <3>1. Listener \in {"nothing", "own"} \cup Hosts
        BY <1>2, <1>5, <2>1, <2>5 DEF Listener, local_port_open
      <3> QED
        BY <2>3, <2>5, <3>1
    <2> QED
      BY <1>15, <2>2, <2>4, <2>5 DEF OpenConnection
  <1>16. CASE SendLine
    <2>1. /\ cli.pc = "send" /\ local_port_open(cli.port) /\ cli' = NextLine(cli)
          /\ misled' = (misled \/ Listener \notin {"own", current_host})
          /\ UNCHANGED <<call, ssh, others, raced>>
      BY <1>16 DEF SendLine
    <2>2. CliInv(cli') /\ cli'.pc \in {"command", "finally"} /\ cli'.port = cli.port /\ cli'.cached
      BY <1>1, <1>5, <2>1, AfterFacts
    <2>3. Listener # "own" => raced
      BY <1>2, <1>5, <2>1 DEF Listener, local_port_open
    <2>4. misled' \in BOOLEAN /\ (misled' => raced)
      <3>1. CASE misled
        BY <1>2, <2>1, <3>1
      <3>2. CASE ~misled
        BY <1>2, <2>1, <2>3, <3>2
      <3> QED
        BY <3>1, <3>2
    <2>5. PortInv(cli', ssh, others, raced, misled')
      BY <1>2, <2>2, <2>4 DEF PortInv
    <2> QED
      BY <1>1, <2>1, <2>2, <2>5, TunnelKept
  <1>17. CASE SendFails
    <2>1. /\ cli.pc = "send" /\ UNCHANGED <<call, ssh, others, raced, misled>>
          /\ cli' = After(IF call.service = "lvhv" THEN "OSError" ELSE "RuntimeError")
      BY <1>17 DEF SendFails
    <2>2. CliInv(cli') /\ PortInv(cli', ssh, others, raced, misled)
      BY <1>1, <2>1, AfterFacts, SamePort DEF InHost
    <2> QED
      BY <1>1, <2>1, <2>2, TunnelKept
  <1>18. ASSUME NEW s \in {"none", "up"}, ssh # "none", ssh' = s,
                NEW via \in {"nothing", "own"} \cup Hosts, cli' = [cli EXCEPT !.via = via],
                UNCHANGED <<call, others, raced, misled>>
         PROVE  TunnelInv'
    <2>1. /\ cli' \in CliType /\ cli'.pc = cli.pc /\ cli'.at = cli.at /\ cli'.left = cli.left
          /\ cli'.port = cli.port /\ cli'.cached = cli.cached /\ cli'.fails = cli.fails
      BY <1>4, <1>18 DEF CliType
    <2>2. CliInv(cli')
      BY <1>5, <2>1 DEF CliInv
    <2>3. PortInv(cli', s, others, raced, misled)
      BY <1>1, <1>18, <2>1 DEF PortInv
    <2> QED
      BY <1>1, <1>18, <2>2, <2>3, TunnelKept
  <1>19. cli = [cli EXCEPT !.via = cli.via]
    BY <1>4 DEF CliType
  <1>20. CASE SshUp
    BY <1>4, <1>18, <1>19, <1>20 DEF SshUp
  <1>21. CASE SshEnds
    <2>1. CASE cli.via = "own"
      BY <1>18, <1>21, <2>1 DEF SshEnds
    <2>2. CASE cli.via # "own"
      BY <1>4, <1>18, <1>19, <1>21, <2>2 DEF SshEnds
    <2> QED
      BY <2>1, <2>2
  <1>22. CASE OthersChange
    <2>1. ASSUME NEW n \in Ports, NEW h \in Hosts, others' = [others EXCEPT ![n] = h],
                 raced' = (raced \/ n = cli.port), UNCHANGED <<call, cli, ssh, misled>>
          PROVE  TunnelInv'
      <3>1. others' \in [Ports -> Hosts \cup {NoHost}] /\ (raced => raced')
            /\ (n = cli.port => raced') /\ raced' \in BOOLEAN
        BY <1>2, <2>1
      <3>2. cli.port \in Ports /\ others'[cli.port] # NoHost => raced'
        BY <1>2, <2>1, <3>1
      <3>3. PortInv(cli, ssh, others', raced', misled)
        BY <1>2, <1>3, <3>1, <3>2 DEF PortInv
      <3> QED
        BY <1>1, <2>1, <3>3, TunnelKept
    <2>2. ASSUME NEW n \in Ports, others' = [others EXCEPT ![n] = NoHost],
                 NEW via \in {"nothing", "own"} \cup Hosts, cli' = [cli EXCEPT !.via = via],
                 UNCHANGED <<call, ssh, raced, misled>>
          PROVE  TunnelInv'
      <3>1. /\ cli' \in CliType /\ cli'.pc = cli.pc /\ cli'.at = cli.at /\ cli'.left = cli.left
            /\ cli'.port = cli.port /\ cli'.cached = cli.cached /\ cli'.fails = cli.fails
        BY <1>4, <2>2 DEF CliType
      <3>2. CliInv(cli')
        BY <1>5, <3>1 DEF CliInv
      <3>3. others' \in [Ports -> Hosts \cup {NoHost}]
            /\ (cli.port \in Ports /\ others'[cli.port] # NoHost => raced)
        BY <1>2, <2>2
      <3>4. PortInv(cli', ssh, others', raced, misled)
        BY <1>2, <1>3, <3>1, <3>3 DEF PortInv
      <3> QED
        BY <1>1, <2>2, <3>2, <3>4, TunnelKept
    <2>3. CASE \E n \in Ports, h \in Hosts :
                 /\ ~local_port_open(n)
                 /\ others' = [others EXCEPT ![n] = h]
                 /\ raced' = (raced \/ n = cli.port)
                 /\ UNCHANGED <<call, cli, ssh, misled>>
      BY <2>1, <2>3
    <2>4. CASE \E n \in Ports :
                 /\ others[n] # NoHost
                 /\ others' = [others EXCEPT ![n] = NoHost]
                 /\ cli' = IF n = cli.port /\ cli.via \in Hosts THEN [cli EXCEPT !.via = "nothing"]
                           ELSE cli
                 /\ UNCHANGED <<call, ssh, raced, misled>>
      <3>1. PICK n \in Ports :
              /\ others' = [others EXCEPT ![n] = NoHost]
              /\ cli' = IF n = cli.port /\ cli.via \in Hosts THEN [cli EXCEPT !.via = "nothing"]
                        ELSE cli
              /\ UNCHANGED <<call, ssh, raced, misled>>
        BY <2>4
      <3>2. \E via \in {"nothing", "own"} \cup Hosts : cli' = [cli EXCEPT !.via = via]
        BY <1>4, <1>19, <3>1
      <3> QED
        BY <2>2, <3>1, <3>2
    <2> QED
      BY <1>22, <2>3, <2>4 DEF OthersChange
  <1>23. CASE UNCHANGED tunnelVars
    BY <1>1, <1>23, TunnelKept DEF tunnelVars
  <1> QED
    BY <1>6, <1>7, <1>8, <1>9, <1>10, <1>11, <1>12, <1>13, <1>14, <1>15, <1>16, <1>17,
       <1>20, <1>21, <1>22, <1>23 DEF TunnelNext

LEMMA TunnelInitHolds == ASSUME TunnelInit PROVE TunnelInv
  <1>1. /\ call \in Calls /\ cli = Shell /\ ssh = "none" /\ raced = FALSE /\ misled = FALSE
        /\ others \in [Ports -> Hosts \cup {NoHost}]
    BY DEF TunnelInit
  <1>2. PortInv(cli, "none", others, FALSE, FALSE)
    BY <1>1, ShellItself, NoPortYet
  <1> QED
    BY <1>1, <1>2, ShellItself, TunnelParts

-----------------------------------------------------------------------------
(* The collectors *)

ColPcs == {"begin", "ask", "wait", "inventory", "scan", "reading", "publish", "failed", "sleep",
           "ended"}

\* The first block is asked for right before the second.
LEMMA QuestionFacts ==
  ASSUME NEW g \in Groups
  PROVE  /\ Questions[g] \in Seq(Asked) /\ Len(Questions[g]) \in 1..6
         /\ DOMAIN Questions[g] = 1..Len(Questions[g])
         /\ \A i \in DOMAIN Questions[g] : Questions[g][i] \in Asked
         /\ \A i \in DOMAIN Questions[g] :
              Questions[g][i] = "health" => i = Len(Questions[g]) /\ g # "rs485"
         /\ g = "rs485" => Len(Questions[g]) = 1
         /\ Questions[g][1] \notin DOMAIN Appended
         /\ \A i \in DOMAIN Questions[g] : i + 1 \in DOMAIN Questions[g]
              /\ Questions[g][i + 1] \in DOMAIN Appended
              => Appended[Questions[g][i + 1]] = Questions[g][i]
  <1>1. CASE g = "hv"
    <2>1. Questions[g] = <<"vhv0", "vhv6", "ihv0", "ihv6">>
      BY <1>1 DEF Questions
    <2>2. Questions[g] \in Seq(Asked) /\ Len(Questions[g]) = 4
      BY <2>1 DEF Asked
    <2>3. /\ Questions[g][1] = "vhv0" /\ Questions[g][2] = "vhv6" /\ Questions[g][3] = "ihv0"
          /\ Questions[g][4] = "ihv6" /\ DOMAIN Questions[g] = 1..4
      BY <2>1, <2>2
    <2>4. \A i \in 1..4 : i \in {1, 2, 3, 4}
      OBVIOUS
    <2>5. \A i \in 1..4 : Questions[g][i] \in Asked /\ Questions[g][i] # "health"
      BY <2>3, <2>4 DEF Asked
    <2>6. \A i \in 1..4 : i + 1 \in 1..4 /\ Questions[g][i + 1] \in DOMAIN Appended
                          => Appended[Questions[g][i + 1]] = Questions[g][i]
      BY <2>3, <2>4, AppendedFacts
    <2> QED
      BY <1>1, <2>2, <2>3, <2>5, <2>6, AppendedFacts
  <1>2. CASE g = "slow"
    <2>1. Questions[g] = <<"v48", "i48", "v6", "i6", "temp", "health">>
      BY <1>2 DEF Questions
    <2>2. Questions[g] \in Seq(Asked) /\ Len(Questions[g]) = 6
      BY <2>1 DEF Asked
    <2>3. \A i \in 1..6 : i = 6 \/ Questions[g][i] # "health"
      BY <2>1
    <2>4. \A i \in 1..6 : Questions[g][i] \notin {"vhv6", "ihv6"}
      BY <2>1
    <2> QED
      BY <1>2, <2>1, <2>2, <2>3, <2>4, AppendedFacts DEF Asked
  <1>3. CASE g = "rs485"
    <2>1. Questions[g] = <<"v6">>
      BY <1>3 DEF Questions
    <2>2. Questions[g] \in Seq(Asked) /\ Len(Questions[g]) = 1
      BY <2>1 DEF Asked
    <2> QED
      BY <1>3, <2>1, <2>2, AppendedFacts DEF Asked
  <1> QED
    BY <1>1, <1>2, <1>3 DEF Groups

LEMMA ColFields ==
  ASSUME NEW c \in ColType
  PROVE  /\ c.group \in Groups /\ c.pc \in ColPcs /\ c.link \in BOOLEAN
         /\ c.wire \in Seq(Wires) /\ c.delay \in 0..MaxDelay
         /\ c.gate \in [powered : BOOLEAN, age : 0..GateAge] /\ c.at \in 1..7 /\ c.n \in 0..6
         /\ c.heard \subseteq Answers /\ c.got \subseteq Reads /\ c.todo \subseteq Reads
         /\ c.panels \subseteq Addresses /\ c.ok \in BOOLEAN
         /\ c.success \in {"none", "yes", "no", "disabled"} /\ c.off \in 0..OffLong
  BY DEF ColType, ColPcs

LEMMA CollectFacts ==
  /\ GateAge \in Nat /\ GateAge > 0 /\ MaxDelay \in Nat /\ OffLong \in Nat
  /\ OffLong = GateAge + MaxDelay + 1
  /\ 0 \in 0..MaxDelay /\ 0 \in 0..OffLong /\ 1 \in 0..OffLong /\ 0 \in 0..GateAge
  /\ GateAge \in 0..GateAge /\ 1 \in 1..7 /\ 0 \in 0..6
  BY CollectorsAssumption DEF OffLong

\* A worker that starts is at rest, whatever the power does.
LEMMA NewCycleFacts ==
  ASSUME NEW g \in Groups, NEW off \in 0..OffLong, NEW pc \in {"begin", "ended"}
  PROVE  WorkerInv([NewCycle(g) EXCEPT !.pc = pc], off) /\ WorkerInv(NewCycle(g), off)
  <1>1. NoGate \in [powered : BOOLEAN, age : 0..GateAge] /\ NoGate.powered = FALSE
    BY CollectFacts DEF NoGate
  <1>2. /\ <<>> \in Seq(Wires) /\ {} \in SUBSET Answers
        /\ {} \in SUBSET Reads /\ {} \in SUBSET Addresses
    OBVIOUS
  <1>3. NewCycle(g) \in ColType
    BY <1>1, <1>2, CollectFacts DEF NewCycle, ColType
  <1>4. /\ NewCycle(g).pc = "begin" /\ NewCycle(g).wire = <<>> /\ NewCycle(g).gate = NoGate
        /\ NewCycle(g).heard = {}
    BY DEF NewCycle
  <1>5. /\ [NewCycle(g) EXCEPT !.pc = pc] \in ColType /\ [NewCycle(g) EXCEPT !.pc = pc].pc = pc
        /\ [NewCycle(g) EXCEPT !.pc = pc].wire = <<>> /\ [NewCycle(g) EXCEPT !.pc = pc].gate = NoGate
        /\ [NewCycle(g) EXCEPT !.pc = pc].heard = {}
    BY <1>3, <1>4 DEF ColType
  <1>6. ASSUME NEW c \in ColType, c.pc \in {"begin", "ended"}, c.wire = <<>>, c.gate = NoGate,
               c.heard = {}
        PROVE  WorkerInv(c, off)
    <2>1. c.pc \in {"begin", "ended"} /\ c.wire = <<>> /\ c.gate = NoGate /\ c.heard = {}
      BY <1>6
    <2>2. WireInv(c, off) /\ PlaceInv(c)
      BY <2>1 DEF WireInv, PlaceInv, InPlace
    <2>3. GateInv(c, off)
      BY <1>1, <2>1 DEF GateInv
    <2>4. CycleInv(c)
      BY <2>1 DEF CycleInv
    <2> QED
      BY <2>1, <2>2, <2>3, <2>4 DEF WorkerInv
  <1> QED
    BY <1>3, <1>4, <1>5, <1>6

LEMMA CollectInitHolds == ASSUME CollectInit PROVE CollectInv
  <1>1. PICK g \in Groups : col = NewCycle(g)
    BY DEF CollectInit
  <1>2. v6 \in 0..OffLong
    BY CollectFacts DEF CollectInit
  <1> QED
    BY <1>1, <1>2, NewCycleFacts DEF CollectInv

\* A worker that has nothing on its connection and claims nothing of its cycle.
LEMMA QuietFacts ==
  ASSUME WorkerInv(col, v6), NEW c \in ColType, c.pc \in {"begin", "sleep", "failed", "publish"},
         c.pc = "publish" => c.success \in {"no", "none"}, c.wire = <<>>,
         InPlace(c.heard), c.pc = "publish" => c.heard = col.heard /\ c.group = col.group,
         c.pc = "publish" => col.pc \in {"inventory", "scan"},
         c.gate = col.gate \/ c.gate.powered = FALSE
  PROVE  WorkerInv(c, v6)
  <1>1. WireInv(c, v6) /\ PlaceInv(c)
    BY DEF WireInv, PlaceInv
  <1>2. GateInv(c, v6)
    BY DEF GateInv, WorkerInv
  <1>3. CycleInv(c)
    BY DEF CycleInv, WorkerInv
  <1> QED
    BY <1>1, <1>2, <1>3 DEF WorkerInv

LEMMA CollectKeeps ==
  ASSUME CollectInv, CollectNext \/ UNCHANGED collectVars
  PROVE  CollectInv'
  <1>1. /\ WorkerInv(col, v6) /\ col \in ColType /\ v6 \in 0..OffLong
        /\ WireInv(col, v6) /\ GateInv(col, v6) /\ CycleInv(col) /\ PlaceInv(col)
        /\ InPlace(col.heard)
    BY DEF CollectInv, WorkerInv, WireInv
  <1>2. /\ col.group \in Groups /\ col.pc \in ColPcs /\ col.link \in BOOLEAN
        /\ col.wire \in Seq(Wires) /\ col.delay \in 0..MaxDelay
        /\ col.gate \in [powered : BOOLEAN, age : 0..GateAge] /\ col.at \in 1..7 /\ col.n \in 0..6
        /\ col.heard \subseteq Answers /\ col.got \subseteq Reads /\ col.todo \subseteq Reads
        /\ col.panels \subseteq Addresses /\ col.ok \in BOOLEAN
        /\ col.success \in {"none", "yes", "no", "disabled"} /\ col.off \in 0..OffLong
    BY <1>1, ColFields
  <1>3. col.gate.powered \in BOOLEAN /\ col.gate.age \in 0..GateAge
    BY <1>2
  <1>4. ASSUME WorkerInv(col', v6') PROVE CollectInv'
    BY <1>4 DEF CollectInv
  <1>5. ASSUME NEW c, WorkerInv(c, v6), col' = c, v6' = v6 PROVE CollectInv'
    BY <1>4, <1>5
  <1>6. CASE BeginCollect
    <2>1. /\ col.pc = "begin" /\ v6' = v6
          /\ col' = [col EXCEPT !.pc = "ask", !.link = TRUE, !.wire = IF col.link THEN @ ELSE <<>>,
                        !.at = 1, !.n = 0, !.heard = {}, !.got = {}, !.todo = {}, !.panels = {},
                        !.ok = TRUE, !.success = "none", !.off = 0]
      BY <1>6 DEF BeginCollect
    <2>2. col.wire = <<>>
      BY <1>1, <2>1 DEF WireInv
    <2>3. /\ col' \in ColType /\ col'.pc = "ask" /\ col'.wire = <<>> /\ col'.at = 1
          /\ col'.heard = {} /\ col'.panels = {} /\ col'.gate = col.gate /\ col'.group = col.group
      BY <1>1, <2>1, <2>2, CollectFacts DEF ColType
    <2>4. WireInv(col', v6)
      BY <2>3 DEF WireInv, InPlace
    <2>7. PlaceInv(col')
      BY <1>2, <2>3, QuestionFacts DEF PlaceInv, Follows, Asks
    <2>5. GateInv(col', v6)
      BY <1>1, <2>3 DEF GateInv
    <2>6. CycleInv(col')
      <3>1. col'.at \in DOMAIN Questions[col'.group]
        BY <1>2, <2>3, QuestionFacts
      <3>2. Heard(col', col'.at - 1)
        BY <1>2, <2>3, QuestionFacts DEF Heard
      <3>3. col'.panels \X {1, 2} = {}
        BY <2>3
      <3> QED
        BY <2>3, <3>1, <3>2, <3>3 DEF CycleInv
    <2> QED
      BY <1>1, <1>4, <2>1, <2>3, <2>4, <2>5, <2>6, <2>7 DEF WorkerInv
  <1>7. CASE Ask
    <2>0. PICK kind \in KindsOf(Question) :
            col' = [col EXCEPT !.pc = "wait", !.delay = 0,
                        !.wire = Append(@, [to |-> Question, on |-> v6 = 0, kind |-> kind])]
      BY <1>7 DEF Ask
    <2> DEFINE answer == [to |-> Question, on |-> v6 = 0, kind |-> kind]
    <2>1. /\ col.pc = "ask" /\ Question # "health" /\ v6' = v6
          /\ col' = [col EXCEPT !.pc = "wait", !.delay = 0, !.wire = Append(@, answer)]
      BY <1>7, <2>0 DEF Ask
    <2>12. kind \in Kinds
      BY <2>0, KindFacts
    <2>2. col.wire = <<>> /\ col.at \in DOMAIN Questions[col.group] /\ Heard(col, col.at - 1)
      BY <1>1, <2>1 DEF WireInv, CycleInv
    <2>3. Question \in Asked
      BY <1>2, <2>2, QuestionFacts DEF Question
    <2>4. (v6 = 0) \in BOOLEAN
      OBVIOUS
    <2>5. answer \in Wires
      BY <2>3, <2>4, <2>12 DEF Wires
    <2> HIDE DEF answer
    <2>6. Append(col.wire, answer) = <<answer>> /\ <<answer>> \in Seq(Wires)
      <3>1. Append(<<>>, answer) = <<answer>> /\ <<answer>> \in Seq(Wires)
        BY <2>5
      <3> QED
        BY <2>2, <3>1
    <2>7. /\ col' \in ColType /\ col'.pc = "wait" /\ col'.wire = <<answer>> /\ col'.delay = 0
          /\ col'.at = col.at /\ col'.heard = col.heard /\ col'.gate = col.gate
          /\ col'.group = col.group /\ col'.panels = col.panels /\ col'.ok = col.ok
          /\ col'.got = col.got /\ col'.todo = col.todo /\ col'.n = col.n
      BY <1>1, <2>1, <2>6, CollectFacts DEF ColType
    <2>8. Asks(col') = Question
      BY <2>7 DEF Asks, Question
    <2>9. WireInv(col', v6)
      <3>1. (v6 = 0) => v6 <= col'.delay + 1
        BY <2>7
      <3>2. \E on \in BOOLEAN, k \in Kinds :
              /\ col'.wire = <<[to |-> Asks(col'), on |-> on, kind |-> k]>>
              /\ on => v6 <= col'.delay + 1
        BY <2>4, <2>7, <2>8, <2>12, <3>1 DEF answer
      <3> QED
        BY <1>1, <2>1, <2>7, <2>8, <3>2 DEF WireInv
    <2>10. GateInv(col', v6)
      BY <1>1, <2>7 DEF GateInv
    <2>11. CycleInv(col')
      BY <1>1, <2>1, <2>2, <2>7 DEF CycleInv, Heard
    <2>13. PlaceInv(col')
      BY <1>1, <2>1, <2>7 DEF PlaceInv, Asks
    <2> QED
      BY <1>1, <1>4, <2>1, <2>7, <2>9, <2>10, <2>11, <2>13 DEF WorkerInv
  <1>8. CASE AskHealth
    <2>1. /\ col.pc = "ask" /\ Question = "health" /\ v6' = v6
          /\ col' = [col EXCEPT !.pc = "publish", !.success = "yes",
                                !.heard = @ \cup {<<"health", "health", "values", 0>>}]
      BY <1>8 DEF AskHealth
    <2>2. col.wire = <<>> /\ col.at \in DOMAIN Questions[col.group] /\ Heard(col, col.at - 1)
      BY <1>1, <2>1 DEF WireInv, CycleInv
    <2> DEFINE x == <<"health", "health", "values", 0>>
    <2>3. /\ x \in Answers /\ x[1] = "health" /\ x[2] = "health" /\ x[3] = "values"
          /\ x[4] = First(x[1])
      BY AppendedFacts DEF Asked, Answers, Kinds, First
    <2>4. col.heard \cup {x} \in SUBSET Answers
      BY <1>2, <2>3
    <2>5. /\ col' \in ColType /\ col'.pc = "publish" /\ col'.success = "yes" /\ col'.wire = col.wire
          /\ col'.heard = col.heard \cup {x} /\ col'.gate = col.gate
          /\ col'.group = col.group
      BY <1>1, <2>1, <2>4 DEF ColType
    <2> HIDE DEF x
    <2>11. InPlace(col.heard \cup {x})
      BY <1>1, <2>3, InPlaceGrows
    <2>6. WireInv(col', v6) /\ PlaceInv(col')
      BY <2>2, <2>5, <2>11 DEF WireInv, PlaceInv
    <2>7. GateInv(col', v6)
      BY <1>1, <2>5 DEF GateInv
    <2>8. col.at = Len(Questions[col.group]) /\ col.group # "rs485"
      BY <1>2, <2>1, <2>2, QuestionFacts DEF Question
    <2>9. Heard(col', Len(Questions[col'.group]))
      <3>1. \A i \in DOMAIN Questions[col.group] : i <= col.at - 1 \/ i = col.at
        BY <1>2, <2>2, <2>8, QuestionFacts
      <3>2. Questions[col.group][col.at] = "health"
        BY <2>1 DEF Question
      <3> QED
        BY <2>2, <2>3, <2>5, <3>1, <3>2 DEF Heard
    <2>10. CycleInv(col')
      BY <2>5, <2>8, <2>9 DEF CycleInv
    <2> QED
      BY <1>1, <1>4, <2>1, <2>5, <2>6, <2>7, <2>10 DEF WorkerInv
  <1>9. CASE Receive
    <2> DEFINE a == Head(col.wire)
               x == Taken(Question, a, col.n)
               c == [col EXCEPT !.wire = Tail(@), !.n = Width[a.kind], !.heard = @ \cup {x}]
    <2>1. /\ col.pc = "wait" /\ v6' = v6
          /\ col' = IF col.group # "rs485" THEN Answered(c)
                    ELSE IF a.kind = "values" THEN Gated(c, a.on) ELSE Broken(c)
      BY <1>9 DEF Receive
    <2>2. PICK on \in BOOLEAN, kind \in Kinds :
            /\ col.wire = <<[to |-> Asks(col), on |-> on, kind |-> kind]>>
            /\ on => v6 <= col.delay + 1
      BY <1>1, <2>1 DEF WireInv
    <2>3. a = [to |-> Asks(col), on |-> on, kind |-> kind] /\ Tail(col.wire) = <<>>
      <3> DEFINE b == [to |-> Asks(col), on |-> on, kind |-> kind]
      <3>1. col.wire = <<b>>
        BY <2>2
      <3> HIDE DEF b
      <3>2. Head(<<b>>) = b /\ Tail(<<b>>) = <<>>
        OBVIOUS
      <3>3. Head(col.wire) = b /\ Tail(col.wire) = <<>>
        BY <3>1, <3>2
      <3> QED
        BY <3>3 DEF b
    <2> HIDE DEF a
    <2>4. a.to = Question /\ a.on = on /\ a.kind = kind
      BY <2>3 DEF Asks, Question
    <2>5. col.at \in DOMAIN Questions[col.group] /\ Heard(col, col.at - 1)
      BY <1>1, <2>1 DEF CycleInv
    <2>6. Question \in Asked /\ Question = Questions[col.group][col.at]
      BY <1>2, <2>5, QuestionFacts DEF Question
    <2>14. Follows(col.heard, Question, col.n)
      BY <1>1, <2>1 DEF PlaceInv, Asks, Question
    <2>15. /\ InPlace(col.heard \cup {x}) /\ x \in Answers /\ x[1] = Question /\ x[2] = Question
           /\ x[3] = kind
      <3>1. a.kind \in Kinds /\ a.to = Question
        BY <2>2, <2>4
      <3>2. InPlace(col.heard) /\ col.n \in 0..6 /\ Question \in Asked
        BY <1>1, <1>2, <2>6
      <3>3. InPlace(col.heard \cup {x}) /\ x \in Answers
        BY <2>14, <3>1, <3>2, TakenFacts
      <3>4. x[1] = Question /\ x[2] = Question /\ x[3] = kind
        BY <2>4 DEF Taken
      <3> QED
        BY <3>3, <3>4
    <2> HIDE DEF x
    <2>7. /\ col.heard \cup {x} \in SUBSET Answers /\ <<>> \in Seq(Wires)
          /\ Width[kind] \in 0..6 /\ (kind = "values" => Width[kind] = 6)
      BY <1>2, <2>2, <2>15, KindFacts
    <2>8. /\ c \in ColType /\ c.wire = <<>> /\ c.heard = col.heard \cup {x}
          /\ c.group = col.group /\ c.at = col.at /\ c.panels = col.panels /\ c.ok = col.ok
          /\ c.got = col.got /\ c.todo = col.todo /\ c.gate = col.gate /\ c.n = Width[kind]
      BY <1>1, <2>3, <2>4, <2>7 DEF ColType
    <2>9. InPlace(c.heard)
      BY <2>8, <2>15
    <2> HIDE DEF c
    <2>10. Heard(c, col.at)
      <3>1. \A i \in DOMAIN Questions[col.group] : i <= col.at => i <= col.at - 1 \/ i = col.at
        BY <1>2, <2>5, QuestionFacts
      <3>2. ASSUME NEW i \in DOMAIN Questions[col.group], i <= col.at
            PROVE  \E y \in c.heard : y[1] = Questions[col.group][i] /\ y[2] = y[1]
        <4>1. CASE i <= col.at - 1
          BY <2>5, <2>8, <4>1 DEF Heard
        <4>2. CASE i = col.at
          BY <2>6, <2>8, <2>15, <4>2
        <4> QED
          BY <3>1, <3>2, <4>1, <4>2
      <3> QED
        BY <2>8, <3>2 DEF Heard
    <2>16. CASE col.group = "rs485" /\ kind # "values"
      <3>1. col' = Broken(c)
        BY <2>1, <2>4, <2>16
      <3>2. NoGate \in [powered : BOOLEAN, age : 0..GateAge] /\ NoGate.powered = FALSE
        BY CollectFacts DEF NoGate
      <3>3. /\ col' \in ColType /\ col'.pc = "failed" /\ col'.wire = <<>> /\ col'.heard = c.heard
            /\ col'.gate = NoGate
        BY <2>7, <2>8, <3>1, <3>2 DEF Broken, ColType
      <3> QED
        BY <1>1, <1>5, <2>1, <2>9, <3>2, <3>3, QuietFacts
    <2>11. CASE col.group = "rs485" /\ kind = "values"
      <3> DEFINE gate == [powered |-> on, age |-> 0]
                 pc == IF ~on THEN "publish" ELSE IF c.panels = {} THEN "inventory" ELSE "scan"
                 success == IF ~on THEN "disabled" ELSE c.success
      <3>1. Len(Questions[col.group]) = 1 /\ col.at = 1
        BY <1>2, <2>5, <2>11, QuestionFacts
      <3>2. /\ gate \in [powered : BOOLEAN, age : 0..GateAge] /\ gate.powered = on /\ gate.age = 0
        BY CollectFacts
      <3>3. pc \in {"publish", "inventory", "scan"} /\ success \in {"none", "yes", "no", "disabled"}
        BY <2>8, ColFields
      <3>4. col' = Gated(c, on)
        BY <2>1, <2>4, <2>11
      <3>5. /\ col' \in ColType /\ col'.pc = pc /\ col'.success = success /\ col'.gate = gate
            /\ col'.wire = <<>> /\ col'.heard = c.heard /\ col'.group = col.group /\ col'.at = 1
            /\ col'.panels = col.panels /\ col'.ok = col.ok /\ col'.got = col.got
            /\ col'.todo = col.todo
        <4>1. CASE on
          BY <2>8, <3>1, <3>2, <3>3, <3>4, <4>1 DEF Gated, ColType
        <4>2. CASE ~on
          BY <2>8, <3>1, <3>2, <3>3, <3>4, <4>2 DEF Gated, ColType
        <4> QED
          BY <4>1, <4>2
      <3>6. /\ on => pc = (IF col.panels = {} THEN "inventory" ELSE "scan")
            /\ ~on => pc = "publish" /\ success = "disabled"
        BY <2>8
      <3> HIDE DEF gate, pc, success
      <3>7. WireInv(col', v6) /\ PlaceInv(col')
        BY <2>9, <3>3, <3>5 DEF WireInv, PlaceInv
      <3>8. GateInv(col', v6)
        <4>1. on => v6 <= MaxDelay + 1
          BY <1>1, <1>2, <2>2, CollectFacts
        <4>2. col'.gate.powered = on /\ col'.gate.age = 0
          BY <3>2, <3>5
        <4> QED
          BY <1>1, <4>1, <4>2, CollectFacts DEF GateInv
      <3>9. Heard(col', 1)
        BY <2>8, <2>10, <3>1, <3>5 DEF Heard
      <3>10. CycleInv(col')
        <4>1. col.ok => col.panels \X {1, 2} \subseteq col.got \cup col.todo
          BY <1>1, <2>1 DEF CycleInv
        <4>4. \A y \in col'.heard : y[3] = "values"
          BY <1>1, <2>1, <2>8, <2>11, <2>15, <3>5 DEF CycleInv
        <4>2. CASE on
          BY <2>11, <3>2, <3>5, <3>6, <3>9, <4>1, <4>2, <4>4 DEF CycleInv
        <4>3. CASE ~on
          BY <2>11, <3>2, <3>5, <3>6, <4>3, <4>4 DEF CycleInv
        <4> QED
          BY <4>2, <4>3
      <3> QED
        BY <1>1, <1>4, <2>1, <3>5, <3>7, <3>8, <3>10 DEF WorkerInv
    <2>12. CASE col.group # "rs485" /\ c.at < Len(Questions[c.group])
      <3>1. col' = [c EXCEPT !.pc = "ask", !.at = c.at + 1]
        BY <2>1, <2>12 DEF Answered
      <3>2. c.at + 1 \in 1..7 /\ c.at + 1 \in DOMAIN Questions[col.group] /\ c.at + 1 - 1 = col.at
        <4> DEFINE n == Len(Questions[col.group])
        <4>1. n \in 1..6 /\ DOMAIN Questions[col.group] = 1..n
          BY <1>2, QuestionFacts
        <4>2. c.at = col.at /\ col.at \in 1..n /\ c.at < n
          BY <2>5, <2>8, <2>12, <4>1
        <4> HIDE DEF n
        <4> QED
          BY <4>1, <4>2
      <3>3. /\ col' \in ColType /\ col'.pc = "ask" /\ col'.at = c.at + 1 /\ col'.gate = col.gate
            /\ col'.wire = <<>> /\ col'.heard = c.heard /\ col'.group = col.group
            /\ col'.panels = col.panels /\ col'.ok = col.ok /\ col'.got = col.got
            /\ col'.todo = col.todo /\ col'.n = Width[kind]
        BY <2>8, <3>1, <3>2 DEF ColType
      <3>4. WireInv(col', v6)
        BY <2>9, <3>3 DEF WireInv
      <3>8. PlaceInv(col')
        <4> DEFINE next == Questions[col.group][col.at + 1]
        <4>1. Asks(col') = next /\ col.at + 1 \in DOMAIN Questions[col.group]
          BY <2>8, <3>2, <3>3 DEF Asks
        <4>2. next \in DOMAIN Appended => Appended[next] = Question
          BY <1>2, <2>5, <2>6, <4>1, QuestionFacts
        <4> HIDE DEF next
        <4>3. Follows(col'.heard, next, col'.n)
          <5>1. CASE kind = "values"
            BY <2>7, <3>3, <5>1 DEF Follows
          <5>2. CASE kind # "values"
            BY <2>8, <2>15, <3>3, <4>2, <5>2 DEF Follows
          <5> QED
            BY <5>1, <5>2
        <4> QED
          BY <4>1, <4>3 DEF PlaceInv
      <3>5. GateInv(col', v6)
        BY <1>1, <3>3 DEF GateInv
      <3>6. Heard(col', col'.at - 1)
        <4>1. col'.at - 1 = col.at
          BY <1>2, <2>8, <3>3
        <4>2. Heard(col', col.at)
          BY <2>8, <2>10, <3>3 DEF Heard
        <4> QED
          BY <4>1, <4>2
      <3>7. CycleInv(col')
        BY <1>1, <2>1, <2>12, <3>2, <3>3, <3>6 DEF CycleInv
      <3> QED
        BY <1>1, <1>4, <2>1, <3>3, <3>4, <3>5, <3>7, <3>8 DEF WorkerInv
    <2>13. CASE col.group # "rs485" /\ ~(c.at < Len(Questions[c.group]))
      <3>1. col' = [c EXCEPT !.pc = "publish", !.success = "yes"]
        BY <2>1, <2>13 DEF Answered
      <3>2. /\ col' \in ColType /\ col'.pc = "publish" /\ col'.success = "yes" /\ col'.gate = col.gate
            /\ col'.wire = <<>> /\ col'.heard = c.heard /\ col'.group = col.group
        BY <2>8, <3>1 DEF ColType
      <3>3. col.at = Len(Questions[col.group])
        BY <1>2, <2>5, <2>8, <2>13, QuestionFacts
      <3>4. WireInv(col', v6) /\ PlaceInv(col')
        BY <2>9, <3>2 DEF WireInv, PlaceInv
      <3>5. GateInv(col', v6)
        BY <1>1, <3>2 DEF GateInv
      <3>6. Heard(col', Len(Questions[col'.group]))
        BY <2>8, <2>10, <3>2, <3>3 DEF Heard
      <3>7. CycleInv(col')
        BY <2>13, <3>2, <3>6 DEF CycleInv
      <3> QED
        BY <1>1, <1>4, <2>1, <3>2, <3>4, <3>5, <3>7 DEF WorkerInv
    <2> QED
      BY <2>2, <2>11, <2>12, <2>13, <2>16
  <1>10. CASE Inventory
    <2>1. col.pc = "inventory" /\ v6' = v6
      BY <1>10 DEF Inventory
    <2>2. PICK found \in SUBSET Addresses :
            col' = [col EXCEPT !.panels = found, !.todo = found \X {1, 2},
                          !.ok = found # {}, !.pc = IF found = {} THEN "publish" ELSE "scan",
                          !.success = IF found = {} THEN "no" ELSE "none"]
      BY <1>10 DEF Inventory
    <2>3. found \X {1, 2} \in SUBSET Reads /\ (found # {}) \in BOOLEAN
      BY DEF Reads
    <2>4. col.wire = <<>>
      BY <1>1, <2>1 DEF WireInv
    <2>5. /\ col' \in ColType /\ col'.pc = (IF found = {} THEN "publish" ELSE "scan")
          /\ col'.success = (IF found = {} THEN "no" ELSE "none") /\ col'.wire = <<>>
          /\ col'.heard = col.heard /\ col'.gate = col.gate /\ col'.group = col.group
          /\ col'.panels = found /\ col'.todo = found \X {1, 2} /\ col'.at = col.at
      BY <1>1, <2>2, <2>3, <2>4 DEF ColType
    <2>6. CASE found = {}
      BY <1>1, <1>5, <2>1, <2>5, <2>6, QuietFacts
    <2>7. CASE found # {}
      <3>1. WireInv(col', v6) /\ PlaceInv(col')
        BY <1>1, <2>5, <2>7 DEF WireInv, PlaceInv
      <3>2. GateInv(col', v6)
        BY <1>1, <2>5 DEF GateInv
      <3>3. CycleInv(col')
        BY <1>1, <2>1, <2>5, <2>7 DEF CycleInv, Heard
      <3> QED
        BY <1>1, <1>4, <2>1, <2>5, <3>1, <3>2, <3>3 DEF WorkerInv
    <2> QED
      BY <2>6, <2>7
  <1>11. CASE ScanNext
    <2>1. /\ col.pc = "scan" /\ col.todo # {} /\ v6' = v6
          /\ col' = IF GateStale THEN [col EXCEPT !.pc = "ask"]
                    ELSE [col EXCEPT !.pc = "reading", !.off = v6]
      BY <1>11 DEF ScanNext
    <2>2. /\ col.wire = <<>> /\ col.gate.powered /\ col.group = "rs485" /\ col.at = 1
          /\ Heard(col, 1) /\ col.panels # {}
      BY <1>1, <2>1 DEF WireInv, CycleInv
    <2>3. /\ col' \in ColType /\ col'.pc = (IF GateStale THEN "ask" ELSE "reading")
          /\ col'.wire = <<>> /\ col'.heard = col.heard /\ col'.gate = col.gate
          /\ col'.group = col.group /\ col'.panels = col.panels /\ col'.todo = col.todo
          /\ col'.got = col.got /\ col'.ok = col.ok /\ col'.at = col.at
          /\ ~GateStale => col'.off = v6
      BY <1>1, <2>1, <2>2 DEF ColType
    <2>4. WireInv(col', v6) /\ PlaceInv(col')
      <3>1. col'.pc = "ask" => Asks(col') \notin DOMAIN Appended
        BY <1>2, <2>2, <2>3, QuestionFacts DEF Asks
      <3> QED
        BY <1>1, <2>3, <3>1 DEF WireInv, PlaceInv, Follows
    <2>5. GateInv(col', v6)
      BY <1>1, <2>3 DEF GateInv
    <2>6. ~GateStale => v6 < GateAge + MaxDelay + 1
      BY <1>1, <1>3, <2>2, CollectFacts DEF GateInv, GateStale
    <2>7. col'.at \in DOMAIN Questions[col'.group] /\ Heard(col', col'.at - 1)
      BY <1>2, <2>2, <2>3, QuestionFacts DEF Heard
    <2>8. CycleInv(col')
      <3>1. CASE GateStale
        BY <1>1, <2>1, <2>3, <2>7, <3>1 DEF CycleInv
      <3>2. CASE ~GateStale
        BY <1>1, <2>1, <2>2, <2>3, <2>6, <3>2 DEF CycleInv, Heard
      <3> QED
        BY <3>1, <3>2
    <2> QED
      BY <1>1, <1>4, <2>1, <2>3, <2>4, <2>5, <2>8 DEF WorkerInv
  <1>12. CASE Read
    <2>1. col.pc = "reading" /\ v6' = v6
      BY <1>12 DEF Read
    <2>2. PICK r \in col.todo :
            \/ col' = [col EXCEPT !.pc = "scan", !.todo = @ \ {r}, !.got = @ \cup {r}]
            \/ col' = [col EXCEPT !.pc = "scan", !.todo = @ \ {r}, !.ok = FALSE]
      BY <1>12 DEF Read
    <2>3. col.todo \ {r} \in SUBSET Reads /\ col.got \cup {r} \in SUBSET Reads
      BY <1>2
    <2>4. /\ col' \in ColType /\ col'.pc = "scan" /\ col'.wire = col.wire
          /\ col'.heard = col.heard /\ col'.gate = col.gate /\ col'.at = col.at
          /\ col'.group = col.group /\ col'.panels = col.panels /\ col'.todo = col.todo \ {r}
          /\ (col'.ok => col.ok /\ col'.got = col.got \cup {r})
      <3>1. CASE col' = [col EXCEPT !.pc = "scan", !.todo = @ \ {r}, !.got = @ \cup {r}]
        <4>1. col'.ok = col.ok
          BY <1>1, <3>1 DEF ColType
        <4> QED
          BY <1>1, <2>3, <3>1, <4>1 DEF ColType
      <3>2. CASE col' = [col EXCEPT !.pc = "scan", !.todo = @ \ {r}, !.ok = FALSE]
        <4>1. col'.ok = FALSE
          BY <1>1, <3>2 DEF ColType
        <4> QED
          BY <1>1, <2>3, <3>2, <4>1 DEF ColType
      <3> QED
        BY <2>2, <3>1, <3>2
    <2>5. WireInv(col', v6) /\ PlaceInv(col')
      BY <1>1, <2>1, <2>4 DEF WireInv, PlaceInv
    <2>6. GateInv(col', v6)
      BY <1>1, <2>4 DEF GateInv
    <2>7. col'.ok => col'.panels \X {1, 2} \subseteq col'.got \cup col'.todo
      <3>1. col.ok => col.panels \X {1, 2} \subseteq col.got \cup col.todo
        BY <1>1, <2>1 DEF CycleInv
      <3> QED
        BY <2>4, <3>1
    <2>8. CycleInv(col')
      BY <1>1, <2>1, <2>4, <2>7 DEF CycleInv, Heard
    <2> QED
      BY <1>1, <1>4, <2>1, <2>4, <2>5, <2>6, <2>8 DEF WorkerInv
  <1>13. CASE ScanDone
    <2>1. /\ col.pc = "scan" /\ col.todo = {} /\ v6' = v6
          /\ col' = [col EXCEPT !.pc = "publish", !.success = IF col.ok THEN "yes" ELSE "no"]
      BY <1>13 DEF ScanDone
    <2>2. /\ col.wire = <<>> /\ col.group = "rs485" /\ Heard(col, 1) /\ col.panels # {}
          /\ col.ok => col.panels \X {1, 2} \subseteq col.got
      BY <1>1, <2>1 DEF WireInv, CycleInv
    <2>3. /\ col' \in ColType /\ col'.pc = "publish" /\ col'.success = (IF col.ok THEN "yes" ELSE "no")
          /\ col'.wire = <<>> /\ col'.heard = col.heard /\ col'.gate = col.gate
          /\ col'.group = col.group /\ col'.panels = col.panels /\ col'.got = col.got
      BY <1>1, <2>1, <2>2 DEF ColType
    <2>4. WireInv(col', v6) /\ PlaceInv(col')
      BY <1>1, <2>3 DEF WireInv, PlaceInv
    <2>5. GateInv(col', v6)
      BY <1>1, <2>3 DEF GateInv
    <2>6. Len(Questions[col'.group]) = 1
      BY <1>2, <2>2, <2>3, QuestionFacts
    <2>7. CycleInv(col')
      BY <1>1, <1>2, <2>1, <2>2, <2>3, <2>6 DEF CycleInv, Heard
    <2> QED
      BY <1>1, <1>4, <2>1, <2>3, <2>4, <2>5, <2>7 DEF WorkerInv
  <1>14. CASE Publish \/ PublishFailure \/ NextCycle
    <2>1. PICK pc \in {"sleep", "begin"} : col' = [col EXCEPT !.pc = pc]
      BY <1>14 DEF Publish, PublishFailure, NextCycle
    <2>2. col.pc # "wait" /\ v6' = v6
      BY <1>14 DEF Publish, PublishFailure, NextCycle
    <2>3. /\ col' \in ColType /\ col'.pc = pc /\ col'.wire = col.wire /\ col'.heard = col.heard
          /\ col'.gate = col.gate
      BY <1>1, <2>1 DEF ColType
    <2>4. col.wire = <<>>
      BY <1>1, <2>2 DEF WireInv
    <2> QED
      BY <1>1, <1>5, <2>2, <2>3, <2>4, QuietFacts
  <1>15. CASE CycleFails
    <2>1. col' = Broken(col) /\ v6' = v6
      BY <1>15 DEF CycleFails
    <2>2. NoGate \in [powered : BOOLEAN, age : 0..GateAge] /\ NoGate.powered = FALSE
      BY CollectFacts DEF NoGate
    <2>3. <<>> \in Seq(Wires)
      OBVIOUS
    <2>4. /\ col' \in ColType /\ col'.pc = "failed" /\ col'.wire = <<>> /\ col'.heard = col.heard
          /\ col'.gate = NoGate
      BY <1>1, <2>1, <2>2, <2>3 DEF Broken, ColType
    <2> QED
      BY <1>1, <1>5, <2>1, <2>2, <2>4, QuietFacts
  <1>16. CASE StopCollect
    <2>1. CASE col.pc = "scan" /\ col' = [col EXCEPT !.pc = "publish", !.success = "no"] /\ v6' = v6
      <3>1. /\ col' \in ColType /\ col'.pc = "publish" /\ col'.success = "no"
            /\ col'.wire = col.wire /\ col'.heard = col.heard /\ col'.gate = col.gate
            /\ col'.group = col.group
        BY <1>1, <2>1 DEF ColType
      <3>2. col.wire = <<>>
        BY <1>1, <2>1 DEF WireInv
      <3> QED
        BY <1>1, <1>5, <2>1, <3>1, <3>2, QuietFacts
    <2>2. CASE col' = [NewCycle(col.group) EXCEPT !.pc = "ended"] /\ v6' = v6
      BY <1>1, <1>2, <1>5, <2>2, NewCycleFacts
    <2>3. CASE col' = NewCycle(col.group) /\ v6' = v6
      BY <1>1, <1>2, <1>5, <2>3, NewCycleFacts
    <2> QED
      BY <1>16, <2>1, <2>2, <2>3 DEF StopCollect
  <1>17. CASE CollectTick
    <2> DEFINE age == IF col.gate.age < GateAge THEN col.gate.age + 1 ELSE col.gate.age
               delay == IF col.pc = "wait" THEN col.delay + 1 ELSE col.delay
               gate == [col.gate EXCEPT !.age = age]
    <2>1. /\ col.pc = "wait" => col.delay < MaxDelay
          /\ v6' = IF v6 \in 1..(OffLong - 1) THEN v6 + 1 ELSE v6
          /\ col' = [col EXCEPT !.gate = gate, !.delay = delay]
      BY <1>17 DEF CollectTick
    <2>2. v6' \in 0..OffLong /\ v6' <= v6 + 1 /\ (v6 = 0 => v6' = 0)
      BY <1>1, <2>1, CollectFacts
    <2>3. age \in 0..GateAge /\ delay \in 0..MaxDelay /\ (col.pc = "wait" => delay = col.delay + 1)
          /\ (age < GateAge => col.gate.age < GateAge /\ age = col.gate.age + 1)
      BY <1>2, <1>3, <2>1, CollectFacts
    <2> HIDE DEF age, delay
    <2>4. /\ gate \in [powered : BOOLEAN, age : 0..GateAge] /\ gate.age = age
          /\ gate.powered = col.gate.powered
      BY <1>2, <2>3
    <2> HIDE DEF gate
    <2>5. /\ col' \in ColType /\ col'.gate = gate /\ col'.delay = delay /\ col'.pc = col.pc
          /\ col'.wire = col.wire /\ col'.heard = col.heard /\ col'.group = col.group
          /\ col'.at = col.at /\ col'.panels = col.panels /\ col'.ok = col.ok
          /\ col'.got = col.got /\ col'.todo = col.todo /\ col'.off = col.off
          /\ col'.success = col.success /\ col'.n = col.n
      BY <1>1, <2>1, <2>3, <2>4 DEF ColType
    <2>6. Asks(col') = Asks(col)
      BY <2>5 DEF Asks
    <2>7. WireInv(col', v6')
      <3>1. ASSUME col.pc = "wait", NEW on \in BOOLEAN, on => v6 <= col.delay + 1
            PROVE  on => v6' <= col'.delay + 1
        BY <1>1, <1>2, <2>2, <2>3, <2>5, <3>1, CollectFacts
      <3>2. col.pc = "wait" => \E on \in BOOLEAN, kind \in Kinds :
                                 /\ col.wire = <<[to |-> Asks(col), on |-> on, kind |-> kind]>>
                                 /\ on => v6' <= col'.delay + 1
        BY <1>1, <3>1 DEF WireInv
      <3> QED
        BY <1>1, <2>5, <2>6, <3>2 DEF WireInv
    <2>8. GateInv(col', v6')
      BY <1>1, <1>3, <2>2, <2>3, <2>4, <2>5, CollectFacts DEF GateInv
    <2>9. CycleInv(col')
      BY <1>1, <2>4, <2>5 DEF CycleInv, Heard
    <2>10. PlaceInv(col')
      BY <1>1, <2>5, <2>6 DEF PlaceInv
    <2> QED
      BY <1>4, <2>2, <2>5, <2>7, <2>8, <2>9, <2>10 DEF WorkerInv
  <1>18. CASE PowerChanges
    <2>1. v6' = (IF v6 = 0 THEN 1 ELSE 0) /\ col' = col
      BY <1>18 DEF PowerChanges
    <2>2. v6' \in 0..OffLong /\ v6' <= 1 /\ v6' \in Nat
      BY <2>1, CollectFacts
    <2>3. WireInv(col, v6')
      <3>1. v6' <= col.delay + 1
        BY <1>2, <2>2, CollectFacts
      <3> QED
        BY <1>1, <3>1 DEF WireInv
    <2>4. GateInv(col, v6')
      BY <1>3, <2>2, CollectFacts DEF GateInv
    <2> QED
      BY <1>1, <1>4, <2>1, <2>2, <2>3, <2>4 DEF WorkerInv
  <1>19. CASE UNCHANGED collectVars
    BY <1>1, <1>4, <1>19 DEF collectVars
  <1> QED
    BY <1>6, <1>7, <1>8, <1>9, <1>10, <1>11, <1>12, <1>13, <1>14, <1>15, <1>16, <1>17, <1>18,
       <1>19 DEF CollectNext

-----------------------------------------------------------------------------
(* The ramps *)

MoreType == [stop : Nat, trip : Nat]

LEMMA RampFacts ==
  /\ MaxDac \in Nat /\ MaxDac > 0 /\ 0 \in Dacs /\ Dacs = 0..MaxDac /\ Voltages \subseteq 0..MaxDac
  /\ MinStep \in Nat /\ MedStep \in Nat /\ MaxStep \in Nat /\ MinStep <= MaxStep /\ MedStep <= MaxStep
  /\ MinReadback \in Nat /\ MedReadback \in Nat /\ MaxReadback \in Nat
  /\ MedTol \in Nat /\ MaxTol \in Nat /\ MedTol <= MaxTol
  /\ Nobody \notin Procs
  <1>1. /\ MaxDac \in Nat /\ MaxDac > 0 /\ 0 \in Dacs /\ Dacs = 0..MaxDac
        /\ Voltages \subseteq 0..MaxDac /\ Nobody \notin Procs
    BY HvRampAssumption DEF Dacs, Nobody
  <1>2. /\ MinStep \in Nat /\ MedStep \in Nat /\ MaxStep \in Nat
        /\ MinReadback \in Nat /\ MedReadback \in Nat /\ MaxReadback \in Nat
        /\ MedTol \in Nat /\ MaxTol \in Nat
    BY HvRampAssumption
  <1> QED
    BY <1>1, <1>2, HvRampAssumption

LEMMA LockFacts == Nobody \notin Procs /\ Lost \notin Procs /\ Nobody # Lost
  BY HvRampAssumption DEF Nobody, Lost

LEMMA VoltFacts == Volts \subseteq Int
  BY HvRampAssumption DEF Volts

LEMMA RampParts ==
  RampInv => /\ ramp \in [Procs -> RampType] /\ more \in [Procs -> MoreType]
             /\ locked \in Procs \cup {Nobody, Lost} /\ dac \in Dacs /\ cache \in Dacs
             /\ trip \in BOOLEAN /\ odd \in {"no", "yes"}
            
             /\ Alone(ramp, locked)
        /\ \A p \in Procs : ProcInv(ramp[p], more[p], dac, cache, trip, odd)
  BY DEF RampInv, RampTypeOK, RampType, MoreType

LEMMA RampKept ==
  ASSUME ramp' \in [Procs -> RampType], more' \in [Procs -> MoreType],
         locked' \in Procs \cup {Nobody, Lost}, dac' \in Dacs, cache' \in Dacs,
         trip' \in BOOLEAN, odd' \in {"no", "yes"},
         Alone(ramp', locked'),
         \A p \in Procs : ProcInv(ramp'[p], more'[p], dac', cache', trip', odd')
  PROVE  RampInv'
  BY DEF RampInv, RampTypeOK, RampType, MoreType

LEMMA RampFields ==
  ASSUME NEW t \in RampType
  PROVE  /\ t.main \in {"off", "locked", "run", "stopping", "closed"} /\ t.stop \in BOOLEAN
         /\ t.link \in BOOLEAN /\ t.pc \in ThreadPcs \cup {"end"} /\ t.volt \in 0..MaxDac
         /\ t.step \in Int /\ -MaxStep <= t.step /\ t.step <= MaxStep /\ t.goal \in Int
         /\ t.size \in {0, MinReadback, MedReadback, MaxReadback}
         /\ t.left \in 0..MaxReadback \cup 0..MedReadback \cup 0..MinReadback
         /\ t.cur \in Dacs /\ t.set \in Dacs /\ t.then \in {"end", "outer", "steps", "measure"}
  <1>1. /\ t.main \in {"off", "locked", "run", "stopping", "closed"} /\ t.stop \in BOOLEAN
        /\ t.link \in BOOLEAN /\ t.pc \in ThreadPcs \cup {"end"} /\ t.volt \in {0} \cup Voltages
        /\ t.step \in (-MaxStep)..MaxStep /\ t.goal \in (-MaxTol)..(MaxDac + MaxTol)
        /\ t.size \in {0, MinReadback, MedReadback, MaxReadback}
        /\ t.left \in 0..MaxReadback \cup 0..MedReadback \cup 0..MinReadback
        /\ t.cur \in Dacs /\ t.set \in Dacs /\ t.then \in {"end", "outer", "steps", "measure"}
    BY DEF RampType
  <1>2. t.volt \in 0..MaxDac
    BY <1>1, RampFacts
  <1>3. /\ t.step \in Int /\ -MaxStep <= t.step /\ t.step <= MaxStep /\ t.goal \in Int
    BY <1>1, RampFacts
  <1> QED
    BY <1>1, <1>2, <1>3

LEMMA RestFacts ==
  /\ Rest \in RampType /\ Rest.main = "off" /\ Rest.stop = FALSE /\ Rest.pc = "end"
  <1>1. /\ 0 \in (-MaxStep)..MaxStep /\ 0 \in (-MaxTol)..(MaxDac + MaxTol)
        /\ 0 \in 0..MaxReadback \cup 0..MedReadback \cup 0..MinReadback /\ 0 \in Dacs
    BY RampFacts
  <1>2. Rest \in RampType
    BY <1>1 DEF Rest, RampType
  <1> QED
    BY <1>2 DEF Rest

\* At keeps the process, and of the thread what it needs at pc.
LEMMA AtFacts ==
  ASSUME NEW p \in Procs, ramp \in [Procs -> RampType], NEW pc \in ThreadPcs \cup {"end"}
  PROVE  /\ At(p, pc) \in RampType /\ At(p, pc).pc = pc /\ At(p, pc).main = ramp[p].main
         /\ At(p, pc).stop = ramp[p].stop /\ At(p, pc).volt = ramp[p].volt
         /\ pc = "steps" => At(p, pc).cur = ramp[p].cur
         /\ pc \in Writing => /\ At(p, pc).cur = ramp[p].cur /\ At(p, pc).set = ramp[p].set
                              /\ At(p, pc).then = ramp[p].then
  <1> DEFINE t == ramp[p]
             b == [Rest EXCEPT !.main = t.main, !.stop = t.stop, !.link = t.link, !.volt = t.volt,
                               !.pc = pc]
             w == [b EXCEPT !.step = t.step, !.goal = t.goal, !.size = t.size]
             s == [w EXCEPT !.cur = t.cur, !.left = t.left]
             o == [t EXCEPT !.pc = pc]
  <1>1. t \in RampType
    OBVIOUS
  <1> HIDE DEF t
  <1>2. b \in RampType /\ b.pc = pc /\ b.main = t.main /\ b.stop = t.stop /\ b.volt = t.volt
    BY <1>1, RestFacts DEF RampType
  <1> HIDE DEF b
  <1>3. w \in RampType /\ w.pc = pc /\ w.main = t.main /\ w.stop = t.stop /\ w.volt = t.volt
    BY <1>1, <1>2 DEF RampType
  <1> HIDE DEF w
  <1>4. /\ s \in RampType /\ s.pc = pc /\ s.main = t.main /\ s.stop = t.stop /\ s.volt = t.volt
        /\ s.cur = t.cur
    BY <1>1, <1>3 DEF RampType
  <1> HIDE DEF s
  <1>5. /\ o \in RampType /\ o.pc = pc /\ o.main = t.main /\ o.stop = t.stop /\ o.volt = t.volt
        /\ o.cur = t.cur /\ o.set = t.set /\ o.then = t.then
    BY <1>1 DEF RampType
  <1> HIDE DEF o
  <1>6. At(p, pc) = CASE pc \in {"end", "begin", "outer"} -> b
                      [] pc \in {"walk", "loop", "measure"} -> w
                      [] pc = "steps" -> s
                      [] OTHER -> o
    BY DEF At, t, b, w, s, o
  <1>7. CASE pc \in {"end", "begin", "outer"}
    BY <1>2, <1>6, <1>7 DEF Writing, t
  <1>8. CASE pc \in {"walk", "loop", "measure"}
    BY <1>3, <1>6, <1>8 DEF Writing, t
  <1>9. CASE pc = "steps"
    BY <1>4, <1>6, <1>9 DEF Writing, t
  <1>10. CASE pc \in Writing
    BY <1>5, <1>6, <1>10 DEF Writing, t
  <1> QED
    BY <1>7, <1>8, <1>9, <1>10 DEF ThreadPcs, Writing

\* A step of the thread of p alone.
LEMMA OneThread ==
  ASSUME RampInv, NEW p \in Procs, NEW t \in RampType, ProcInv(t, more[p], dac, cache, trip, odd),
         t.main = ramp[p].main, ramp' = [ramp EXCEPT ![p] = t],
         UNCHANGED <<locked, dac, cache, trip, more, odd>>
  PROVE  RampInv'
  <1>1. /\ ramp \in [Procs -> RampType] /\ more \in [Procs -> MoreType]
        /\ locked \in Procs \cup {Nobody, Lost} /\ dac \in Dacs /\ cache \in Dacs
        /\ trip \in BOOLEAN /\ odd \in {"no", "yes"}
        /\ Alone(ramp, locked)
        /\ \A q \in Procs : ProcInv(ramp[q], more[q], dac, cache, trip, odd)
    BY RampParts
  <1>2. ramp' \in [Procs -> RampType] /\ ramp'[p] = t /\ \A q \in Procs : q # p => ramp'[q] = ramp[q]
    BY <1>1
  <1>3. \A q \in Procs : ProcInv(ramp'[q], more'[q], dac', cache', trip', odd')
    BY <1>1, <1>2
  <1>4. \A q \in Procs : ramp'[q].main = ramp[q].main
    BY <1>2
  <1>5. Alone(ramp', locked')
    BY <1>1, <1>4 DEF Alone
  <1> QED
    BY <1>1, <1>2, <1>3, <1>5, RampKept

\* The thread of p goes to a place where it neither writes nor takes steps.
LEMMA ToQuiet ==
  ASSUME RampInv, NEW p \in Procs, NEW pc \in {"end", "outer", "walk", "loop", "measure"},
         ramp[p].pc # "end" \/ pc = "end"
  PROVE  ProcInv(At(p, pc), more[p], dac, cache, trip, odd) /\ At(p, pc) \in RampType
         /\ At(p, pc).main = ramp[p].main
  <1>1. ramp \in [Procs -> RampType] /\ ProcInv(ramp[p], more[p], dac, cache, trip, odd)
    BY RampParts
  <1>2. /\ At(p, pc) \in RampType /\ At(p, pc).pc = pc /\ At(p, pc).main = ramp[p].main
        /\ At(p, pc).stop = ramp[p].stop
    BY <1>1, AtFacts DEF ThreadPcs
  <1>3. ProcInv(At(p, pc), more[p], dac, cache, trip, odd)
    BY <1>1, <1>2 DEF ProcInv, Writing
  <1> QED
    BY <1>2, <1>3

\* The write of a zero.
LEMMA ZeroWrite ==
  ASSUME RampInv, NEW p \in Procs, NEW how \in {"set", "send"}, NEW then \in {"end", "outer", "measure"},
         ramp[p].pc # "end", how = "send" => ~(more[p].stop = 1),
         Write(p, how, 0, then), UNCHANGED <<locked, station>>
  PROVE  RampInv'
  <1> DEFINE a == At(p, IF then = "measure" THEN "loop" ELSE "end")
             t == [a EXCEPT !.pc = how, !.set = 0, !.then = then]
  <1>1. ramp \in [Procs -> RampType] /\ ProcInv(ramp[p], more[p], dac, cache, trip, odd)
        /\ dac \in Dacs
    BY RampParts
  <1>2. a \in RampType /\ a.main = ramp[p].main /\ a.stop = ramp[p].stop
    BY <1>1, AtFacts DEF ThreadPcs
  <1> HIDE DEF a
  <1>3. /\ t \in RampType /\ t.pc = how /\ t.set = 0 /\ t.then = then /\ t.main = ramp[p].main
        /\ t.stop = ramp[p].stop
    <2>1. 0 \in Dacs /\ how \in ThreadPcs
      BY RampFacts DEF ThreadPcs
    <2> QED
      BY <1>2, <2>1 DEF RampType
  <1>4. ramp' = [ramp EXCEPT ![p] = t]
    BY DEF Write, a
  <1> HIDE DEF t
  <1>5. 0 <= dac + MaxStep
    BY <1>1, RampFacts
  <1>6. ProcInv(t, more[p], dac, cache, trip, odd)
    BY <1>1, <1>3, <1>5 DEF ProcInv
  <1> QED
    BY <1>1, <1>3, <1>4, <1>6, OneThread DEF station

\* The thread only walks on.
LEMMA QuietStep ==
  ASSUME RampInv, NEW p \in Procs, NEW pc \in {"end", "outer", "walk", "loop", "measure"},
         ramp[p].pc # "end" \/ pc = "end", To(p, pc), UNCHANGED <<locked, station>>
  PROVE  RampInv'
  BY ToQuiet, OneThread DEF To, station

LEMMA MacroFacts ==
  ASSUME NEW volt \in 0..MaxDac, NEW v \in Int
  PROVE  LET m == Macro(volt, v)
         IN  /\ m.step \in (-MaxStep)..MaxStep /\ m.size \in {0, MinReadback, MedReadback, MaxReadback}
             /\ m.goal \in (-MaxTol)..(MaxDac + MaxTol)
  <1> DEFINE sign == IF volt < v THEN -1 ELSE 1
             away == IF volt < v THEN v - volt ELSE volt - v
             m == Macro(volt, v)
  <1>1. \/ m = [step |-> MinStep, size |-> MinReadback, goal |-> volt]
        \/ m = [step |-> MedStep, size |-> MedReadback, goal |-> volt - sign * MedTol]
        \/ m = [step |-> MaxStep, size |-> MaxReadback, goal |-> volt - sign * MaxTol]
    BY DEF Macro
  <1>2. /\ MinStep \in (-MaxStep)..MaxStep /\ MedStep \in (-MaxStep)..MaxStep
        /\ MaxStep \in (-MaxStep)..MaxStep
    BY RampFacts
  <1>3. /\ volt \in (-MaxTol)..(MaxDac + MaxTol)
        /\ volt - sign * MedTol \in (-MaxTol)..(MaxDac + MaxTol)
        /\ volt - sign * MaxTol \in (-MaxTol)..(MaxDac + MaxTol)
    <2>1. /\ volt - MedTol \in (-MaxTol)..(MaxDac + MaxTol)
          /\ volt + MedTol \in (-MaxTol)..(MaxDac + MaxTol)
          /\ volt - MaxTol \in (-MaxTol)..(MaxDac + MaxTol)
          /\ volt + MaxTol \in (-MaxTol)..(MaxDac + MaxTol)
          /\ volt \in (-MaxTol)..(MaxDac + MaxTol)
      BY RampFacts
    <2>2. sign = 1 \/ sign = -1
      OBVIOUS
    <2> HIDE DEF sign
    <2>3. /\ sign = 1 => volt - sign * MedTol = volt - MedTol /\ volt - sign * MaxTol = volt - MaxTol
          /\ sign = -1 => volt - sign * MedTol = volt + MedTol /\ volt - sign * MaxTol = volt + MaxTol
      BY RampFacts
    <2> QED
      BY <2>1, <2>2, <2>3
  <1> HIDE DEF m, sign, away
  <1>4. /\ m.step \in {MinStep, MedStep, MaxStep} /\ m.size \in {MinReadback, MedReadback, MaxReadback}
        /\ m.goal \in {volt, volt - sign * MedTol, volt - sign * MaxTol}
    BY <1>1
  <1> QED
    BY <1>2, <1>3, <1>4 DEF m

LEMMA ThreadKeeps ==
  ASSUME RampInv, NEW p \in Procs, ThreadStep(p)
  PROVE  RampInv'
  <1> DEFINE r == ramp[p]
  <1>1. /\ ramp \in [Procs -> RampType] /\ more \in [Procs -> MoreType] /\ dac \in Dacs
        /\ cache \in Dacs
        /\ ProcInv(r, more[p], dac, cache, trip, odd) /\ r \in RampType
    BY RampParts
  <1>2. /\ r.stop \in BOOLEAN /\ r.pc \in ThreadPcs \cup {"end"} /\ r.volt \in 0..MaxDac
        /\ r.step \in Int /\ -MaxStep <= r.step /\ r.step <= MaxStep /\ r.goal \in Int
        /\ r.size \in {0, MinReadback, MedReadback, MaxReadback}
        /\ r.left \in 0..MaxReadback \cup 0..MedReadback \cup 0..MinReadback
        /\ r.cur \in Dacs /\ r.set \in Dacs /\ r.then \in {"end", "outer", "steps", "measure"}
    BY <1>1, RampFields
  <1>3. UNCHANGED <<locked, station>> /\ r.pc # "end"
    BY DEF ThreadStep, Sees, Thread, Begin, Outer, Walk, Loop, Steps, Measure, TimedSet, Send
  <1>4. r.main \notin {"off", "locked"} /\ (more[p].stop = 1 => r.stop)
    BY <1>1, <1>3 DEF ProcInv
  <1>5. \A v \in Volts : v \in Int
    BY VoltFacts
  <1>6. ASSUME NEW t \in RampType, ProcInv(t, more[p], dac, cache, trip, odd), t.main = r.main,
               ramp' = [ramp EXCEPT ![p] = t]
        PROVE  RampInv'
    BY <1>1, <1>3, <1>6, OneThread DEF station
  <1>7. CASE Begin(p)
    <2>1. r.pc = "begin" /\ more[p].stop # 1
      BY <1>1, <1>7 DEF Begin, ProcInv
    <2>2. \/ To(p, "outer") \/ To(p, "end") \/ Write(p, "send", 0, "end")
      BY <1>7 DEF Begin
    <2> QED
      BY <1>3, <2>1, <2>2, QuietStep, ZeroWrite
  <1>8. ASSUME NEW v \in Volts, Outer(p, v)
        PROVE  RampInv'
    <2>1. CASE AtZero(p) \/ r.stop
      BY <1>3, <1>8, <2>1, QuietStep DEF Outer
    <2>2. CASE ~(AtZero(p) \/ r.stop) /\ trip
      <3>1. To(p, "end") \/ Write(p, "send", 0, "end")
        BY <1>8, <2>2 DEF Outer
      <3> QED
        BY <1>3, <1>4, <2>2, <3>1, QuietStep, ZeroWrite
    <2>3. CASE ~(AtZero(p) \/ r.stop) /\ ~trip
      <3>1. IF Near(r.volt, v) THEN To(p, "end")
            ELSE LET m == Macro(r.volt, v)
                 IN  ramp' = [ramp EXCEPT ![p].pc = "walk", ![p].step = m.step,
                                          ![p].size = m.size, ![p].goal = m.goal]
        BY <1>8, <2>3 DEF Outer
      <3>2. CASE Near(r.volt, v)
        BY <1>3, <3>1, <3>2, QuietStep
      <3>3. CASE ~Near(r.volt, v)
        <4> DEFINE m == Macro(r.volt, v)
                   t == [r EXCEPT !.pc = "walk", !.step = m.step, !.size = m.size, !.goal = m.goal]
        <4>1. /\ m.step \in (-MaxStep)..MaxStep /\ m.size \in {0, MinReadback, MedReadback, MaxReadback}
              /\ m.goal \in (-MaxTol)..(MaxDac + MaxTol)
          BY <1>2, <1>5, MacroFacts
        <4>2. ramp' = [ramp EXCEPT ![p] = t]
          BY <1>1, <3>1, <3>3
        <4> HIDE DEF m
        <4>3. t \in RampType /\ t.pc = "walk" /\ t.main = r.main /\ t.stop = r.stop
          BY <1>1, <4>1 DEF RampType, ThreadPcs
        <4> HIDE DEF t
        <4>4. ProcInv(t, more[p], dac, cache, trip, odd)
          BY <1>1, <1>3, <1>4, <4>3 DEF ProcInv, Writing
        <4> QED
          BY <1>6, <4>2, <4>3, <4>4
      <3> QED
        BY <3>2, <3>3
    <2> QED
      BY <2>1, <2>2, <2>3
  <1>9. ASSUME NEW v \in Volts, Walk(p, v)
        PROVE  RampInv'
    <2>1. CASE r.stop
      BY <1>3, <1>9, <2>1, QuietStep DEF Walk
    <2>2. CASE ~r.stop
      <3>1. ramp' = [ramp EXCEPT ![p].pc = "loop",
                                 ![p].step = IF ramp[p].goal < v THEN -@ ELSE @]
        BY <1>9, <2>2 DEF Walk
      <3> DEFINE step == IF r.goal < v THEN -r.step ELSE r.step
                 t == [r EXCEPT !.pc = "loop", !.step = step]
      <3>2. step \in (-MaxStep)..MaxStep
        BY <1>2, RampFacts
      <3>3. ramp' = [ramp EXCEPT ![p] = t]
        BY <1>1, <3>1
      <3> HIDE DEF step
      <3>4. t \in RampType /\ t.pc = "loop" /\ t.main = r.main /\ t.stop = r.stop
        BY <1>1, <3>2 DEF RampType, ThreadPcs
      <3> HIDE DEF t
      <3>5. ProcInv(t, more[p], dac, cache, trip, odd)
        BY <1>1, <1>3, <1>4, <3>4 DEF ProcInv, Writing
      <3> QED
        BY <1>6, <3>3, <3>4, <3>5
    <2> QED
      BY <2>1, <2>2
  <1>10. ASSUME NEW back \in {"outer", "measure"}, Tripped(p, back)
         PROVE  RampInv'
    <2>1. To(p, "end") \/ Write(p, "set", 0, back)
      BY <1>10 DEF Tripped
    <2> QED
      BY <1>3, <2>1, QuietStep, ZeroWrite
  <1>11. CASE Loop(p)
    <2>1. CASE r.stop
      BY <1>3, <1>11, <2>1, QuietStep DEF Loop
    <2>2. CASE ~r.stop /\ trip
      BY <1>10, <1>11, <2>2 DEF Loop
    <2>3. CASE ~r.stop /\ ~trip
      <3> DEFINE t == [r EXCEPT !.pc = "steps", !.cur = cache, !.left = r.size]
      <3>1. ramp' = [ramp EXCEPT ![p] = t]
        BY <1>1, <1>11, <2>3 DEF Loop
      <3>2. r.size \in 0..MaxReadback \cup 0..MedReadback \cup 0..MinReadback
        BY <1>2, RampFacts
      <3>3. t \in RampType /\ t.pc = "steps" /\ t.main = r.main /\ t.stop = r.stop /\ t.cur = cache
        BY <1>1, <3>2 DEF RampType, ThreadPcs
      <3> HIDE DEF t
      <3>4. ProcInv(t, more[p], dac, cache, trip, odd)
        BY <1>1, <1>3, <1>4, <3>3 DEF ProcInv, Writing
      <3> QED
        BY <1>6, <3>1, <3>3, <3>4
    <2> QED
      BY <2>1, <2>2, <2>3
  <1>12. CASE Steps(p)
    <2> DEFINE next == r.cur + r.step
    <2>1. CASE r.left = 0 \/ r.stop
      BY <1>3, <1>12, <2>1, QuietStep DEF Steps
    <2>2. CASE ~(r.left = 0 \/ r.stop) /\ trip
      BY <1>10, <1>12, <2>2 DEF Steps
    <2>3. CASE ~(r.left = 0 \/ r.stop) /\ ~trip
      <3>1. CASE next < 0
        BY <1>3, <1>12, <2>3, <3>1, ZeroWrite DEF Steps
      <3>2. CASE ~(next < 0) /\ next > MaxDac
        BY <1>3, <1>12, <2>3, <3>2, QuietStep DEF Steps
      <3>3. CASE ~(next < 0) /\ ~(next > MaxDac)
        <4> DEFINE t == [r EXCEPT !.pc = "set", !.set = next, !.then = "steps", !.cur = next,
                                  !.left = r.left - 1]
        <4>1. ramp' = [ramp EXCEPT ![p] = t]
          BY <1>1, <1>12, <2>3, <3>3 DEF Steps
        <4>2. next \in Dacs
          BY <1>2, <3>3, RampFacts
        <4>3. r.left - 1 \in 0..MaxReadback \cup 0..MedReadback \cup 0..MinReadback
          BY <1>2, <2>3, RampFacts
        <4>4. r.pc = "steps" /\ ~r.stop /\ (odd = "no" => r.cur <= dac)
          BY <1>1, <1>12, <2>3 DEF Steps, ProcInv
        <4>5. odd = "no" => next <= dac + MaxStep
          BY <1>1, <1>2, <4>4, RampFacts
        <4> HIDE DEF next
        <4>6. /\ t \in RampType /\ t.pc = "set" /\ t.main = r.main /\ t.stop = r.stop /\ t.cur = next
              /\ t.set = next
          BY <1>1, <4>2, <4>3 DEF RampType, ThreadPcs
        <4> HIDE DEF t
        <4>7. more[p].trip # 1
          BY <1>1, <2>3 DEF ProcInv
        <4>8. ProcInv(t, more[p], dac, cache, trip, odd)
          BY <1>1, <1>4, <4>4, <4>5, <4>6, <4>7 DEF ProcInv
        <4> QED
          BY <1>6, <4>1, <4>6, <4>8
      <3> QED
        BY <3>1, <3>2, <3>3
    <2> QED
      BY <2>1, <2>2, <2>3
  <1>13. ASSUME NEW v \in Volts, Measure(p, v)
         PROVE  RampInv'
    <2>1. To(p, "outer") \/ To(p, "loop")
      BY <1>13 DEF Measure
    <2> QED
      BY <1>3, <2>1, QuietStep
  <1>14. ASSUME NEW pc \in {"send", "sent"}, r.pc \in {"set", "send"}, ~r.stop \/ r.pc = "send",
                To(p, pc)
         PROVE  RampInv'
    <2>1. /\ At(p, pc) \in RampType /\ At(p, pc).pc = pc /\ At(p, pc).main = r.main
          /\ At(p, pc).stop = r.stop /\ At(p, pc).cur = r.cur /\ At(p, pc).set = r.set
          /\ At(p, pc).then = r.then
      BY <1>1, <1>14, AtFacts DEF ThreadPcs, Writing
    <2>2. more[p].stop # 1
      BY <1>1, <1>4, <1>14 DEF ProcInv
    <2>3. ProcInv(At(p, pc), more[p], dac, cache, trip, odd)
      BY <1>1, <1>4, <1>14, <2>1, <2>2 DEF ProcInv, Writing
    <2> QED
      BY <1>6, <1>14, <2>1, <2>3 DEF To
  <1>15. CASE TimedSet(p)
    <2>1. r.pc = "set" /\ To(p, IF r.stop THEN r.then ELSE "send")
      BY <1>15 DEF TimedSet
    <2>2. CASE ~r.stop
      BY <1>14, <2>1, <2>2
    <2>3. CASE r.stop /\ r.then # "steps"
      <3>1. r.then \in {"end", "outer", "measure"}
        BY <1>2, <2>3
      <3> QED
        BY <1>3, <2>1, <2>3, <3>1, QuietStep
    <2>4. CASE r.stop /\ r.then = "steps"
      <3>1. /\ At(p, "steps") \in RampType /\ At(p, "steps").pc = "steps"
            /\ At(p, "steps").main = r.main /\ At(p, "steps").stop = r.stop
        BY <1>1, AtFacts DEF ThreadPcs
      <3>2. ProcInv(At(p, "steps"), more[p], dac, cache, trip, odd)
        BY <1>1, <1>3, <2>4, <3>1 DEF ProcInv, Writing
      <3> QED
        BY <1>6, <2>1, <2>4, <3>1, <3>2 DEF To
    <2> QED
      BY <2>2, <2>3, <2>4
  <1>16. CASE Send(p)
    BY <1>14, <1>16 DEF Send
  <1> QED
    BY <1>7, <1>8, <1>9, <1>11, <1>12, <1>13, <1>15, <1>16 DEF ThreadStep, Sees

LEMMA MainKeeps ==
  ASSUME RampInv, NEW p \in Procs, MainStep(p)
  PROVE  RampInv'
  <1> DEFINE r == ramp[p]
  <1>1. /\ ramp \in [Procs -> RampType] /\ more \in [Procs -> MoreType] /\ dac \in Dacs
        /\ cache \in Dacs /\ trip \in BOOLEAN /\ odd \in {"no", "yes"}
        /\ locked \in Procs \cup {Nobody, Lost}
        /\ Alone(ramp, locked)
        /\ \A q \in Procs : ProcInv(ramp[q], more[q], dac, cache, trip, odd)
    BY RampParts
  <1>2. r \in RampType /\ ProcInv(r, more[p], dac, cache, trip, odd)
    BY <1>1
  <1>3. Nobody \notin Procs /\ Lost \notin Procs /\ Nobody # Lost
    BY LockFacts
  <1>4. ASSUME NEW t \in RampType, ramp' = [ramp EXCEPT ![p] = t], locked' \in Procs \cup {Nobody, Lost},
               more' \in [Procs -> MoreType], \A q \in Procs : q # p => more'[q] = more[q],
               odd' \in {"no", "yes"},
               UNCHANGED <<dac, cache, trip>>,
               \A q \in Procs : q # p => ramp[q].main = "off",
               t.main # "off" => locked' \in {p, Lost}, ProcInv(t, more'[p], dac, cache, trip, odd')
        PROVE  RampInv'
    <2>1. ramp' \in [Procs -> RampType] /\ ramp'[p] = t /\ \A q \in Procs : q # p => ramp'[q] = ramp[q]
      BY <1>1, <1>4
    <2>2. ASSUME NEW q \in Procs, q # p
          PROVE  ramp'[q].main = "off" /\ ProcInv(ramp'[q], more'[q], dac, cache, trip, odd')
      <3>1. ramp[q].main = "off" /\ ProcInv(ramp[q], more[q], dac, cache, trip, odd)
        BY <1>1, <1>4, <2>2
      <3>2. ramp[q].pc = "end"
        BY <3>1 DEF ProcInv
      <3>3. ProcInv(ramp[q], more[q], dac, cache, trip, odd')
        BY <3>1, <3>2 DEF ProcInv, Writing
      <3> QED
        BY <1>4, <2>1, <2>2, <3>1, <3>3
    <2>3. \A q \in Procs : ProcInv(ramp'[q], more'[q], dac', cache', trip', odd')
      BY <1>4, <2>1, <2>2
    <2>4. Alone(ramp', locked')
      BY <1>4, <2>1, <2>2 DEF Alone
    <2> QED
      BY <1>1, <1>4, <2>1, <2>3, <2>4, RampKept
  <1>5. r.main # "off" => locked \in {p, Lost} /\ \A q \in Procs : q # p => ramp[q].main = "off"
    BY <1>1 DEF Alone
  <1>6. CASE Acquire(p)
    <2>1. PICK v \in Voltages :
            ramp' = [q \in Procs |-> IF q = p THEN [Rest EXCEPT !.main = "locked", !.volt = v]
                                     ELSE IF locked = Lost THEN Rest ELSE ramp[q]]
      BY <1>6 DEF Acquire
    <2>2. /\ locked \in {Nobody, Lost} /\ locked' = p /\ UNCHANGED <<dac, cache, trip, odd>>
          /\ more' = [q \in Procs |-> [stop |-> 0, trip |-> 0]]
      BY <1>6 DEF Acquire
    <2> DEFINE t == [Rest EXCEPT !.main = "locked", !.volt = v]
    <2>3. t \in RampType /\ t.main = "locked" /\ t.pc = "end" /\ t.stop = FALSE
      BY RestFacts DEF RampType
    <2>4. /\ ramp'[p] = t /\ ramp' = [q \in Procs |-> ramp'[q]]
          /\ \A q \in Procs : q # p => ramp'[q] = IF locked = Lost THEN Rest ELSE ramp[q]
      BY <2>1
    <2> HIDE DEF t
    <2>5. more' \in [Procs -> MoreType] /\ \A q \in Procs : more'[q].stop = 0 /\ more'[q].trip = 0
      BY <2>2 DEF MoreType
    <2>6. \A q \in Procs : ramp'[q] \in RampType
      BY <1>1, <2>3, <2>4, RestFacts
    <2>7. \A q \in Procs : q # p => ramp'[q].main = "off"
      <3>1. CASE locked = Lost
        BY <2>4, <3>1, RestFacts
      <3>2. CASE locked = Nobody
        BY <1>1, <1>3, <2>4, <3>2 DEF Alone
      <3> QED
        BY <2>2, <3>1, <3>2
    <2>8. ASSUME NEW q \in Procs
          PROVE  ramp'[q].pc = "end" /\ ~ramp'[q].stop
      <3>1. CASE q = p
        BY <2>3, <2>4, <3>1
      <3>2. CASE q # p /\ locked = Lost
        BY <2>4, <3>2, RestFacts
      <3>3. CASE q # p /\ locked # Lost
        <4>1. ramp'[q] = ramp[q] /\ ramp[q].main = "off" /\ ProcInv(ramp[q], more[q], dac, cache, trip, odd)
          BY <1>1, <2>4, <2>7, <3>3
        <4> QED
          BY <4>1 DEF ProcInv
      <3> QED
        BY <3>1, <3>2, <3>3
    <2>9. \A q \in Procs : ProcInv(ramp'[q], more'[q], dac', cache', trip', odd')
      BY <2>5, <2>8 DEF ProcInv, Writing
    <2>10. Alone(ramp', locked')
      BY <2>2, <2>7 DEF Alone
    <2>11. ramp' \in [Procs -> RampType]
      BY <2>4, <2>6
    <2> QED
      BY <1>1, <2>2, <2>5, <2>9, <2>10, <2>11, RampKept
  <1>11. CASE LockLost(p)
    <2>1. locked' = Lost /\ UNCHANGED <<ramp, station>>
      BY <1>11 DEF LockLost
    <2>2. Alone(ramp, Lost)
      BY <1>1 DEF Alone
    <2> QED
      BY <1>1, <2>1, <2>2, RampKept DEF station
  <1>7. CASE Connect(p)
    <2> DEFINE t == [r EXCEPT !.main = "run", !.link = TRUE, !.pc = "begin"]
    <2>1. /\ r.main = "locked" /\ odd' = (IF cache > dac THEN "yes" ELSE "no") /\ UNCHANGED <<locked, dac, cache, trip, more>>
          /\ ramp' = [ramp EXCEPT ![p] = t]
      BY <1>1, <1>7 DEF Connect
    <2>2. t \in RampType /\ t.main = "run" /\ t.pc = "begin" /\ t.stop = r.stop
      BY <1>2 DEF RampType, ThreadPcs
    <2> HIDE DEF t
    <2>3. odd' \in {"no", "yes"} /\ (odd' = "no" => cache <= dac)
      BY <1>1, <2>1, RampFacts
    <2>4. ProcInv(t, more[p], dac, cache, trip, odd')
      BY <1>2, <2>1, <2>2, <2>3 DEF ProcInv, Writing
    <2> QED
      BY <1>1, <1>4, <1>5, <2>1, <2>2, <2>3, <2>4
  <1>8. CASE Interrupt(p)
    <2> DEFINE t == [r EXCEPT !.main = "stopping", !.stop = TRUE]
    <2>1. r.main = "run" /\ UNCHANGED <<locked, station>> /\ ramp' = [ramp EXCEPT ![p] = t]
      BY <1>1, <1>8 DEF Interrupt
    <2>2. /\ t \in RampType /\ t.main = "stopping" /\ t.pc = r.pc /\ t.stop = TRUE
          /\ t.set = r.set /\ t.then = r.then /\ t.cur = r.cur
      BY <1>2 DEF RampType
    <2> HIDE DEF t
    <2>3. ProcInv(t, more[p], dac, cache, trip, odd)
      BY <1>2, <2>1, <2>2 DEF ProcInv
    <2> QED
      BY <1>1, <1>4, <1>5, <2>1, <2>2, <2>3 DEF station
  <1>9. CASE Close(p)
    <2> DEFINE t == [r EXCEPT !.main = "closed", !.link = FALSE]
    <2>1. r.main # "off" /\ UNCHANGED <<locked, station>> /\ ramp' = [ramp EXCEPT ![p] = t]
      BY <1>1, <1>9 DEF Close
    <2>2. /\ t \in RampType /\ t.main = "closed" /\ t.pc = r.pc /\ t.stop = r.stop
          /\ t.set = r.set /\ t.then = r.then /\ t.cur = r.cur
      BY <1>2 DEF RampType
    <2> HIDE DEF t
    <2>3. ProcInv(t, more[p], dac, cache, trip, odd)
      BY <1>2, <2>1, <2>2 DEF ProcInv
    <2> QED
      BY <1>1, <1>4, <1>5, <2>1, <2>2, <2>3 DEF station
  <1>10. CASE Release(p) \/ Kill(p)
    <2>1. /\ r.main # "off" /\ locked' = Nobody /\ ramp' = [ramp EXCEPT ![p] = Rest]
          /\ UNCHANGED <<dac, cache, trip, more, odd>>
      BY <1>10 DEF Release, Kill, station
    <2>2. ProcInv(Rest, more[p], dac, cache, trip, odd)
      BY <1>2, RestFacts DEF ProcInv, Writing
    <2> QED
      BY <1>1, <1>4, <1>5, <2>1, <2>2, RestFacts
  <1> QED
    BY <1>6, <1>7, <1>8, <1>9, <1>10, <1>11 DEF MainStep

LEMMA ExecuteKeeps ==
  ASSUME RampInv, NEW p \in Procs, Execute(p) \/ ExecuteFails(p)
  PROVE  RampInv'
  <1> DEFINE r == ramp[p]
             m == more[p]
             back == IF Execute(p) THEN r.then ELSE "end"
             a == At(p, back)
  <1>1. /\ ramp \in [Procs -> RampType] /\ more \in [Procs -> MoreType] /\ dac \in Dacs
        /\ trip \in BOOLEAN /\ odd \in {"no", "yes"}
        /\ locked \in Procs \cup {Nobody, Lost}
        /\ Alone(ramp, locked)
        /\ \A q \in Procs : ProcInv(ramp[q], more[q], dac, cache, trip, odd)
    BY RampParts
  <1>2. /\ r \in RampType /\ ProcInv(r, m, dac, cache, trip, odd) /\ m.stop \in Nat /\ m.trip \in Nat
        /\ r.set \in Dacs /\ cache \in Dacs /\ r.then \in {"end", "outer", "steps", "measure"} /\ r.stop \in BOOLEAN
    BY <1>1, RampParts, RampFields DEF MoreType
  <1> DEFINE stop == IF r.stop THEN m.stop + 1 ELSE m.stop
             tr == IF trip /\ r.set > dac THEN m.trip + 1 ELSE m.trip
  <1>3. /\ r.pc = "sent" /\ dac' = r.set /\ cache' \in {cache, r.set}
        /\ back # "end" => cache' = r.set /\ back = r.then
        /\ ramp' = [ramp EXCEPT ![p] = a]
        /\ UNCHANGED <<locked, trip, odd>>
    BY <1>1 DEF Execute, ExecuteFails, Good, Bad, To
  <1>13. more' = [more EXCEPT ![p] = [m EXCEPT !.stop = stop, !.trip = tr]]
    BY <1>1 DEF Execute, ExecuteFails, Noted, MoreType
  <1>14. back \in {"end", "outer", "steps", "measure"}
    BY <1>2
  <1> HIDE DEF back
  <1>4. /\ a \in RampType /\ a.pc = back /\ a.main = r.main /\ a.stop = r.stop
        /\ back = "steps" => a.cur = r.cur
    BY <1>1, <1>14, AtFacts DEF ThreadPcs
  <1> HIDE DEF a
  <1>5. r.main \notin {"off", "locked"} /\ m.stop = 0 /\ m.trip <= 1
    BY <1>2, <1>3 DEF ProcInv
  <1>6. stop \in Nat /\ stop <= 1 /\ (stop = 1 => r.stop)
    BY <1>5
  <1>7. tr \in Nat /\ tr <= 1 /\ (~trip => tr = 0)
    <2>1. m.trip = 1 => ~(r.set > dac)
      BY <1>1, <1>2, <1>3, RampFacts DEF ProcInv, Writing
    <2>2. ~trip => m.trip = 0
      BY <1>2 DEF ProcInv
    <2> QED
      BY <1>2, <1>5, <2>1, <2>2
  <1> HIDE DEF stop, tr
  <1>8. /\ more' \in [Procs -> MoreType] /\ more'[p].stop = stop /\ more'[p].trip = tr
        /\ \A q \in Procs : q # p => more'[q] = more[q]
    BY <1>1, <1>6, <1>7, <1>13 DEF MoreType
  <1>9. ProcInv(a, more'[p], r.set, cache', trip, odd)
    <2>1. back = "steps" => a.cur = r.set
      BY <1>2, <1>3, <1>4 DEF ProcInv, Writing
    <2>2. r.set <= r.set /\ (back # "end" => cache' <= r.set)
      BY <1>2, <1>3, RampFacts
    <2>3. a.pc \notin {"begin", "send", "sent", "set"}
      BY <1>4, <1>14
    <2> QED
      BY <1>4, <1>5, <1>6, <1>7, <1>8, <2>1, <2>2, <2>3 DEF ProcInv, Writing
  <1>10. ramp' \in [Procs -> RampType] /\ ramp'[p] = a /\ \A q \in Procs : q # p => ramp'[q] = ramp[q]
    BY <1>1, <1>3, <1>4
  <1>11. ASSUME NEW q \in Procs
         PROVE  ProcInv(ramp'[q], more'[q], dac', cache', trip', odd')
    <2>1. CASE q = p
      BY <1>3, <1>9, <1>10, <2>1
    <2>2. CASE q # p
      <3>1. ramp[q].main = "off"
        BY <1>1, <1>5, <2>2 DEF Alone
      <3>2. ProcInv(ramp[q], more[q], dac, cache, trip, odd) /\ ramp[q].pc = "end"
        BY <1>1, <3>1 DEF ProcInv
      <3>3. ProcInv(ramp[q], more[q], r.set, cache', trip, odd)
        BY <3>2 DEF ProcInv, Writing
      <3> QED
        BY <1>3, <1>8, <1>10, <2>2, <3>3
    <2> QED
      BY <2>1, <2>2
  <1>12. Alone(ramp', locked')
    <2>1. \A q \in Procs : ramp'[q].main = ramp[q].main
      BY <1>4, <1>10
    <2> QED
      BY <1>1, <1>3, <2>1 DEF Alone
  <1> QED
    BY <1>1, <1>2, <1>3, <1>8, <1>10, <1>11, <1>12, RampKept

LEMMA RampKeeps ==
  ASSUME RampInv, RampNext \/ UNCHANGED hvRampVars
  PROVE  RampInv'
  <1>1. /\ ramp \in [Procs -> RampType] /\ more \in [Procs -> MoreType] /\ dac \in Dacs
        /\ cache \in Dacs /\ trip \in BOOLEAN /\ odd \in {"no", "yes"}
        /\ locked \in Procs \cup {Nobody, Lost}
        /\ Alone(ramp, locked)
        /\ \A q \in Procs : ProcInv(ramp[q], more[q], dac, cache, trip, odd)
    BY RampParts
  <1>2. ASSUME NEW p \in Procs, Raises(p)
        PROVE  RampInv'
    BY <1>2, ToQuiet, OneThread DEF Raises, To
  <1>3. CASE OtherWrite
    <2>1. /\ dac' \in Dacs /\ cache' \in Dacs /\ odd' = "yes" /\ UNCHANGED <<ramp, locked, trip, more>>
      BY <1>1, <1>3 DEF OtherWrite, Good, Bad
    <2>2. \A q \in Procs : ProcInv(ramp[q], more[q], dac', cache', trip, odd')
      BY <1>1, <2>1 DEF ProcInv
    <2> QED
      BY <1>1, <2>1, <2>2, RampKept
  <1>5. CASE ServerRestart
    <2>1. /\ cache' = 0 /\ ramp' = [p \in Procs |-> [At(p, "end") EXCEPT !.link = FALSE]]
          /\ UNCHANGED <<locked, dac, trip, more, odd>>
      BY <1>5 DEF ServerRestart
    <2>2. ASSUME NEW p \in Procs
          PROVE  /\ ramp'[p] \in RampType /\ ramp'[p].main = ramp[p].main
                 /\ ProcInv(ramp'[p], more[p], dac, 0, trip, odd)
      <3> DEFINE a == At(p, "end")
                 t == [a EXCEPT !.link = FALSE]
      <3>1. /\ a \in RampType /\ a.pc = "end" /\ a.main = ramp[p].main /\ a.stop = ramp[p].stop
        BY <1>1, AtFacts
      <3> HIDE DEF a
      <3>2. /\ t \in RampType /\ t.pc = "end" /\ t.main = ramp[p].main /\ t.stop = ramp[p].stop
        BY <3>1 DEF RampType
      <3>3. ramp'[p] = t
        BY <2>1 DEF a
      <3> HIDE DEF t
      <3>4. ProcInv(t, more[p], dac, 0, trip, odd)
        BY <1>1, <3>2 DEF ProcInv, Writing
      <3> QED
        BY <3>2, <3>3, <3>4
    <2>3. ramp' \in [Procs -> RampType]
      <3>1. ramp' = [p \in Procs |-> ramp'[p]]
        BY <2>1
      <3> QED
        BY <2>2, <3>1
    <2>4. cache' \in Dacs
      BY <1>1, <2>1, RampFacts
    <2>5. Alone(ramp', locked')
      BY <1>1, <2>1, <2>2 DEF Alone
    <2> QED
      BY <1>1, <2>1, <2>2, <2>3, <2>4, <2>5, RampKept
  <1>6. CASE Trips
    <2>1. /\ trip = FALSE /\ trip' = TRUE /\ UNCHANGED <<ramp, locked, dac, cache, more, odd>>
      BY <1>1, <1>6 DEF Trips
    <2>2. \A q \in Procs : ProcInv(ramp[q], more[q], dac, cache, TRUE, odd)
      BY <1>1, <2>1 DEF ProcInv
    <2> QED
      BY <1>1, <2>1, <2>2, RampKept
  <1>7. CASE TripReset
    <2>1. /\ trip' = FALSE /\ more' = [p \in Procs |-> [more[p] EXCEPT !.trip = 0]]
          /\ UNCHANGED <<ramp, locked, dac, cache, odd>>
      BY <1>7 DEF TripReset
    <2>2. \A q \in Procs : /\ more'[q] \in MoreType /\ more'[q].trip = 0
                           /\ more'[q].stop = more[q].stop
      BY <1>1, <2>1 DEF MoreType
    <2>3. more' \in [Procs -> MoreType]
      BY <2>1, <2>2
    <2>5. \A q \in Procs : ProcInv(ramp[q], more'[q], dac, cache, FALSE, odd)
      BY <1>1, <2>2 DEF ProcInv
    <2> QED
      BY <1>1, <2>1, <2>3, <2>5, RampKept
  <1>8. CASE UNCHANGED hvRampVars
    BY <1>1, <1>8, RampKept DEF hvRampVars
  <1> QED
    BY <1>2, <1>3, <1>5, <1>6, <1>7, <1>8, MainKeeps, ThreadKeeps, ExecuteKeeps DEF RampNext

LEMMA RampInitHolds == ASSUME RampInit PROVE RampInv
  <1>1. /\ ramp = [p \in Procs |-> Rest] /\ locked = Nobody /\ dac = 0 /\ cache = 0
        /\ trip = FALSE /\ odd = "no"
        /\ more = [p \in Procs |-> [stop |-> 0, trip |-> 0]]
    BY DEF RampInit
  <1>2. ramp \in [Procs -> RampType] /\ more \in [Procs -> MoreType] /\ 0 \in Dacs
    BY <1>1, RestFacts, RampFacts DEF MoreType
  <1>3. ASSUME NEW p \in Procs
        PROVE  ProcInv(ramp[p], more[p], dac, cache, trip, odd) /\ ramp[p].main = "off"
    <2>1. ramp[p] = Rest /\ more[p].stop = 0 /\ more[p].trip = 0
      BY <1>1
    <2>2. ramp[p].main = "off" /\ ramp[p].stop = FALSE /\ ramp[p].pc = "end"
      BY <2>1, RestFacts
    <2> QED
      BY <1>1, <2>1, <2>2 DEF ProcInv, Writing
  <1>4. RampTypeOK
    BY <1>1, <1>2 DEF RampTypeOK, RampType, MoreType
  <1> QED
    BY <1>3, <1>4 DEF RampInv, Alone

\* A write that is executed raises the output by one step at most.
LEMMA OneStepUp ==
  ASSUME RampInv, NEW p \in Procs, Execute(p) \/ ExecuteFails(p), odd = "no"
  PROVE  dac' <= dac + MaxStep
  <1>1. ProcInv(ramp[p], more[p], dac, cache, trip, odd)
    BY RampParts
  <1> QED
    BY <1>1 DEF Execute, ExecuteFails, Good, Bad, ProcInv, Writing

-----------------------------------------------------------------------------
(* The archive *)

LEMMA BatchFacts ==
  /\ \A w \in Writers : Bound[w] \in Nat
  /\ \A w \in Writers : \A n \in 1..Bound[w] : [of |-> w, n |-> n] \in Batches
  /\ \A b \in Batches : /\ b.of \in Writers /\ b.n \in 1..Bound[b.of]
                        /\ b = [of |-> b.of, n |-> b.n]
  <1>1. \A w \in Writers : Bound[w] \in Nat
    BY ArchiveAssumption
  <1>2. ASSUME NEW w \in Writers, NEW n \in 1..Bound[w]
        PROVE  [of |-> w, n |-> n] \in Batches
    <2>1. [of |-> w, n |-> n] \in [of : {w}, n : 1..Bound[w]]
      OBVIOUS
    <2> QED
      BY <2>1 DEF Batches
  <1>3. ASSUME NEW b \in Batches
        PROVE  b.of \in Writers /\ b.n \in 1..Bound[b.of] /\ b = [of |-> b.of, n |-> b.n]
    <2>1. PICK w \in Writers : b \in [of : {w}, n : 1..Bound[w]]
      BY DEF Batches
    <2>2. b.of = w /\ b.n \in 1..Bound[w] /\ b = [of |-> b.of, n |-> b.n]
      BY <2>1
    <2> QED
      BY <2>2
  <1> QED
    BY <1>1, <1>2, <1>3

\* The fields of a writer; a batch in hand is not NoBatch, or it is none.
LEMMA WriterFields ==
  ASSUME NEW w \in Writers, NEW a \in WriterType(w)
  PROVE  /\ a.queue \in Seq(Item(w)) /\ a.finished \in BOOLEAN /\ a.ids \in Ids /\ a.new \in Ids
         /\ a.pc \in {"get", "connect", "lock", "resolve", "commit", "ended"}
         /\ a.batch.n \in 0..Bound[w] /\ a.batch.chans \subseteq Channels
         /\ a.batch # NoBatch => a.batch \in Item(w) /\ a.batch.n \in 1..Bound[w]
         /\ DOMAIN a.queue = 1..Len(a.queue) /\ Len(a.queue) \in Nat
         /\ \A i \in DOMAIN a.queue : a.queue[i] \in Item(w) /\ a.queue[i].n \in 1..Bound[w]
  <1>1. /\ a.queue \in Seq(Item(w)) /\ a.finished \in BOOLEAN /\ a.ids \in Ids /\ a.new \in Ids
        /\ a.pc \in {"get", "connect", "lock", "resolve", "commit", "ended"}
        /\ a.batch \in Item(w) \cup {NoBatch}
    BY DEF WriterType
  <1>2. a.batch # NoBatch => a.batch \in Item(w) /\ a.batch.n \in 1..Bound[w]
                             /\ a.batch.chans \subseteq Channels
    BY <1>1 DEF Item
  <1>3. NoBatch.n = 0 /\ NoBatch.chans = {}
    BY DEF NoBatch
  <1>4. a.batch.n \in 0..Bound[w] /\ a.batch.chans \subseteq Channels
    BY <1>2, <1>3, BatchFacts
  <1>5. /\ DOMAIN a.queue = 1..Len(a.queue) /\ Len(a.queue) \in Nat
        /\ \A i \in DOMAIN a.queue : a.queue[i] \in Item(w)
    BY <1>1
  <1>6. \A x \in Item(w) : x.n \in 1..Bound[w]
    BY DEF Item
  <1> QED
    BY <1>1, <1>2, <1>4, <1>5, <1>6

LEMMA WriterParts ==
  ASSUME NEW w \in Writers, NEW a, NEW r, NEW T, NEW R, NEW C, WriterInv(w, a, r, T, R, C)
  PROVE  /\ a \in WriterType(w) /\ r \in ReportType(w) /\ Len(a.queue) <= QueueSize
         /\ Placed(a, r) /\ Queued(w, a, r, T, C) /\ Ahead(w, r, T, C) /\ Settled(w, a, r, C)
         /\ InStep(w, a, T, C) /\ Known(w, a, T, R, C)
         /\ a.pc \notin {"get", "ended"} => a.batch # NoBatch /\ InHand(w, a) \in Batches
  <1>1. a \in WriterType(w) /\ Settled(w, a, r, C)
    BY DEF WriterInv
  <1>2. a.pc \notin {"get", "ended"} => a.batch # NoBatch
    BY <1>1 DEF Settled
  <1>3. a.batch # NoBatch => InHand(w, a) \in Batches
    BY <1>1, WriterFields, BatchFacts DEF InHand
  <1> QED
    BY <1>2, <1>3 DEF WriterInv

\* What others do to the database leaves a writer as it is.
LEMMA OtherWriter ==
  ASSUME NEW w \in Writers, NEW a, NEW r, NEW T, NEW R, NEW C, WriterInv(w, a, r, T, R, C),
         NEW T2, NEW R2, NEW C2, R \subseteq R2,
         \A t : t.id.of = w => (t \in T2 <=> t \in T),
         \A b \in Batches : b.of = w => C2[b] = C[b]
  PROVE  WriterInv(w, a, r, T2, R2, C2)
  <1>1. /\ a \in WriterType(w) /\ r \in ReportType(w)
        /\ Placed(a, r) /\ Queued(w, a, r, T, C) /\ Ahead(w, r, T, C) /\ Settled(w, a, r, C)
        /\ InStep(w, a, T, C) /\ Known(w, a, T, R, C)
        /\ a.pc \notin {"get", "ended"} => InHand(w, a) \in Batches
    BY WriterParts
  <1>2. InHand(w, a).of = w
    BY DEF InHand
  <1>3. \A t : t.id = InHand(w, a) => (t \in T2 <=> t \in T)
    BY <1>2
  <1>4. \A b \in Batches : b.of = w => (Unopened(b, T2, C2) <=> Unopened(b, T, C))
    BY DEF Unopened
  <1>5. \A n \in 1..Bound[w] : Unopened([of |-> w, n |-> n], T2, C2)
                                <=> Unopened([of |-> w, n |-> n], T, C)
    BY <1>4, BatchFacts
  <1>6. Queued(w, a, r, T2, C2)
    BY <1>1, <1>5, WriterFields DEF Queued
  <1>7. Ahead(w, r, T2, C2)
    <2>1. r.made \in Nat
      BY <1>1, BatchFacts DEF ReportType
    <2>2. \A n \in (r.made + 1)..Bound[w] : n \in 1..Bound[w]
      BY <2>1, BatchFacts
    <2> QED
      BY <1>1, <1>5, <2>2 DEF Ahead
  <1>8. Settled(w, a, r, C2)
    <2>1. \A n \in r.written : n \in 1..Bound[w]
      BY <1>1 DEF ReportType
    <2>2. \A n \in r.written : C2[[of |-> w, n |-> n]] = C[[of |-> w, n |-> n]]
      BY <2>1, BatchFacts
    <2> QED
      BY <1>1, <2>2 DEF Settled
  <1>9. a.pc \notin {"get", "ended"} =>
          (Unopened(InHand(w, a), T2, C2) <=> Unopened(InHand(w, a), T, C))
    BY <1>1, <1>2, <1>4
  <1>10. InStep(w, a, T2, C2)
    BY <1>1, <1>3, <1>9 DEF InStep
  <1>11. \A c \in Channels : Backed(w, a, c, T, R, C) => Backed(w, a, c, T2, R2, C2)
    BY <1>3, <1>9 DEF Backed
  <1>12. Known(w, a, T2, R2, C2)
    BY <1>1, <1>11 DEF Known
  <1> QED
    BY <1>1, <1>6, <1>7, <1>8, <1>10, <1>12 DEF WriterInv

LEMMA ArchiveParts ==
  ArchiveInv => /\ arc = [w \in Writers |-> arc[w]] /\ report = [w \in Writers |-> report[w]]
                /\ txs \subseteq TxType /\ rows \subseteq Rows /\ commits \in [Batches -> Nat]
                /\ \A w \in Writers : WriterInv(w, arc[w], report[w], txs, rows, commits)
                /\ Stored(txs, rows, values, commits)
  BY DEF ArchiveInv

LEMMA ArchiveKept ==
  ASSUME arc' = [w \in Writers |-> arc'[w]], report' = [w \in Writers |-> report'[w]],
         txs' \subseteq TxType, rows' \subseteq Rows, commits' \in [Batches -> Nat],
         \A w \in Writers : WriterInv(w, arc'[w], report'[w], txs', rows', commits'),
         Stored(txs', rows', values', commits')
  PROVE  ArchiveInv'
  BY DEF ArchiveInv

\* A step of writer w that leaves the tables alone.
LEMMA OneWriter ==
  ASSUME ArchiveInv, NEW w \in Writers, NEW a, NEW r,
         arc' = [arc EXCEPT ![w] = a], report' = [report EXCEPT ![w] = r],
         txs' \subseteq TxType, \A t : t.id.of # w => (t \in txs' <=> t \in txs),
         UNCHANGED <<rows, values, commits>>,
         WriterInv(w, a, r, txs', rows, commits), Stored(txs', rows, values, commits)
  PROVE  ArchiveInv'
  <1>1. /\ arc = [v \in Writers |-> arc[v]] /\ report = [v \in Writers |-> report[v]]
        /\ rows \subseteq Rows /\ commits \in [Batches -> Nat]
        /\ \A v \in Writers : WriterInv(v, arc[v], report[v], txs, rows, commits)
    BY ArchiveParts
  <1>2. /\ arc' = [v \in Writers |-> arc'[v]] /\ report' = [v \in Writers |-> report'[v]]
        /\ arc'[w] = a /\ report'[w] = r
        /\ \A v \in Writers : v # w => arc'[v] = arc[v] /\ report'[v] = report[v]
    BY <1>1
  <1>3. \A v \in Writers : v # w => WriterInv(v, arc[v], report[v], txs', rows, commits)
    BY <1>1, OtherWriter
  <1>4. \A v \in Writers : WriterInv(v, arc'[v], report'[v], txs', rows', commits')
    BY <1>2, <1>3
  <1> QED
    BY <1>1, <1>2, <1>4, ArchiveKept

\* A transaction ends that is not the one a thread is working on.
LEMMA EndsTx ==
  ASSUME NEW w \in Writers, NEW a, NEW r, NEW R, NEW R2, NEW C2,
         NEW T \in SUBSET TxType, NEW C \in [Batches -> Nat], WriterInv(w, a, r, T, R, C),
         \A t, u \in T : t.id = u.id => t = u, \A t \in T : C[t.id] = 0,
         NEW t \in T, t.id.of = w,
         t.id = InHand(w, a) => a.pc \notin {"connect", "lock", "resolve"},
         R \subseteq R2, t.id = InHand(w, a) => t.rows \subseteq R2 \/ C2 = C,
         \A b \in Batches : b # t.id => C2[b] = C[b]
  PROVE  WriterInv(w, a, r, T \ {t}, R2, C2)
  <1> DEFINE T2 == T \ {t}
  <1>1. /\ a \in WriterType(w) /\ r \in ReportType(w) /\ Len(a.queue) <= QueueSize
        /\ Placed(a, r) /\ Queued(w, a, r, T, C) /\ Ahead(w, r, T, C) /\ Settled(w, a, r, C)
        /\ InStep(w, a, T, C) /\ Known(w, a, T, R, C)
        /\ a.pc \notin {"get", "ended"} => InHand(w, a) \in Batches
    BY WriterParts
  <1>2. t.id \in Batches /\ C[t.id] = 0
    BY DEF TxType
  <1>3. \A b \in Batches : Unopened(b, T, C) => Unopened(b, T2, C2)
    BY DEF Unopened
  <1>4. \A n \in 1..Bound[w] : Unopened([of |-> w, n |-> n], T, C)
                                => Unopened([of |-> w, n |-> n], T2, C2)
    BY <1>3, BatchFacts
  <1> HIDE DEF T2
  <1>5. Queued(w, a, r, T2, C2)
    BY <1>1, <1>4, WriterFields DEF Queued
  <1>6. Ahead(w, r, T2, C2)
    <2>1. r.made \in Nat
      BY <1>1, BatchFacts DEF ReportType
    <2>2. \A n \in (r.made + 1)..Bound[w] : n \in 1..Bound[w]
      BY <2>1, BatchFacts
    <2> QED
      BY <1>1, <1>4, <2>2 DEF Ahead
  <1>7. Settled(w, a, r, C2)
    <2>1. \A n \in r.written : n \in 1..Bound[w]
      BY <1>1 DEF ReportType
    <2>2. \A n \in r.written : [of |-> w, n |-> n] \in Batches /\ C[[of |-> w, n |-> n]] = 1
      BY <1>1, <2>1, BatchFacts DEF Settled
    <2>3. \A n \in r.written : C2[[of |-> w, n |-> n]] = 1
      BY <1>2, <2>2
    <2> QED
      BY <1>1, <2>3 DEF Settled
  <1>8. InStep(w, a, T2, C2)
    <2>1. a.pc = "connect" => Unopened(InHand(w, a), T2, C2)
      BY <1>1, <1>3 DEF InStep
    <2>2. a.pc \in {"lock", "resolve"} => \E u \in T2 : u.id = InHand(w, a)
      BY <1>1 DEF InStep, T2
    <2>3. \A u \in T2 : u \in T
      BY DEF T2
    <2> QED
      BY <1>1, <2>1, <2>2, <2>3 DEF InStep
  <1>9. ASSUME NEW c \in Channels, a.new[c] # NoId
        PROVE  Backed(w, a, c, T2, R2, C2)
    <2>1. Backed(w, a, c, T, R, C)
      BY <1>1, <1>9 DEF Known
    <2>2. CASE Row(c, a.new[c]) \in R
      BY <2>2 DEF Backed
    <2>3. CASE a.pc = "commit" /\ Unopened(InHand(w, a), T, C)
      BY <1>1, <1>3, <2>3 DEF Backed
    <2>4. CASE \E u \in T : u.id = InHand(w, a) /\ Row(c, a.new[c]) \in u.rows
      <3>1. PICK u \in T : u.id = InHand(w, a) /\ Row(c, a.new[c]) \in u.rows
        BY <2>4
      <3>2. CASE u # t
        BY <3>1, <3>2 DEF Backed, T2
      <3>3. CASE u = t /\ t.rows \subseteq R2
        BY <3>1, <3>3 DEF Backed
      <3>4. CASE u = t /\ C2 = C
        <4>1. a.pc \in {"get", "ended", "commit"}
          BY <1>1, <3>1, <3>4, WriterFields
        <4>2. a.pc = "commit"
          BY <1>1, <1>9, <4>1 DEF Known, NoIds
        <4>3. \A x \in T2 : x.id # InHand(w, a)
          BY <3>1, <3>4 DEF T2
        <4>4. Unopened(InHand(w, a), T2, C2)
          BY <1>2, <3>1, <3>4, <4>3 DEF Unopened
        <4> QED
          BY <4>2, <4>4 DEF Backed
      <3> QED
        BY <3>1, <3>2, <3>3, <3>4
    <2> QED
      BY <2>1, <2>2, <2>3, <2>4 DEF Backed
  <1>10. Known(w, a, T2, R2, C2)
    BY <1>1, <1>9 DEF Known
  <1> QED
    BY <1>1, <1>5, <1>6, <1>7, <1>8, <1>10 DEF WriterInv, T2

\* The database ends a transaction, for its writer and the others.
LEMMA DatabaseKeeps ==
  ASSUME ArchiveInv, DbCommit \/ DbAbort
  PROVE  ArchiveInv'
  <1>1. /\ arc = [v \in Writers |-> arc[v]] /\ report = [v \in Writers |-> report[v]]
        /\ txs \subseteq TxType /\ rows \subseteq Rows /\ commits \in [Batches -> Nat]
        /\ \A v \in Writers : WriterInv(v, arc[v], report[v], txs, rows, commits)
        /\ Stored(txs, rows, values, commits)
    BY ArchiveParts
  <1>2. /\ \A t, u \in txs : t.id = u.id => t = u
        /\ \A t, u \in txs : t.lock /\ u.lock => t = u
        /\ \A t \in txs : commits[t.id] = 0 /\ (t.rows # {} => t.lock)
        /\ \A t \in txs : \A r \in t.rows : \A s \in rows \cup t.rows : r.chan = s.chan => r = s
        /\ \A t \in txs : \A v \in t.values : Row(v.chan, v.row) \in rows \cup t.rows
        /\ \A b \in Batches : commits[b] <= 1
        /\ \A r, s \in rows : r.chan = s.chan => r = s
        /\ \A v \in values : Row(v.chan, v.row) \in rows
    BY <1>1 DEF Stored
  <1>3. ASSUME NEW t \in txs
        PROVE  t.id \in Batches /\ t.id.of \in Writers /\ t.rows \subseteq Rows
               /\ t.id = [of |-> t.id.of, n |-> t.id.n]
    <2>1. t.id \in Batches /\ t.rows \subseteq Rows
      BY <1>1 DEF TxType
    <2> QED
      BY <2>1, BatchFacts
  <1>4. CASE DbCommit
    <2>1. PICK t \in txs :
            /\ t.sent /\ rows' = rows \cup t.rows /\ values' = values \cup t.values
            /\ commits' = [commits EXCEPT ![t.id] = @ + 1] /\ txs' = txs \ {t}
            /\ UNCHANGED <<arc, report>>
      BY <1>4 DEF DbCommit
    <2>2. /\ txs' \subseteq TxType /\ rows' \subseteq Rows /\ commits' \in [Batches -> Nat]
          /\ commits'[t.id] = 1 /\ \A b \in Batches : b # t.id => commits'[b] = commits[b]
      <3>1. t.id \in Batches /\ t.rows \subseteq Rows /\ commits[t.id] = 0
        BY <1>2, <1>3
      <3>2. txs' \subseteq TxType /\ rows' \subseteq Rows
        BY <1>1, <2>1, <3>1
      <3>3. commits' = [commits EXCEPT ![t.id] = 1]
        BY <2>1, <3>1
      <3>4. /\ commits' \in [Batches -> Nat] /\ commits'[t.id] = 1
            /\ \A b \in Batches : b # t.id => commits'[b] = commits[b]
        BY <1>1, <3>1, <3>3
      <3> QED
        BY <3>2, <3>4
    <2>3. ASSUME NEW v \in Writers
          PROVE  WriterInv(v, arc[v], report[v], txs', rows', commits')
      <3>1. CASE t.id.of # v
        <4>1. \A u : u.id.of = v => (u \in txs' <=> u \in txs)
          BY <2>1, <3>1
        <4>2. rows \subseteq rows'
          BY <2>1
        <4>3. \A b \in Batches : b.of = v => commits'[b] = commits[b]
          BY <2>2, <3>1
        <4> QED
          BY <1>1, <4>1, <4>2, <4>3, OtherWriter
      <3>2. CASE t.id.of = v
        <4>1. InStep(v, arc[v], txs, commits)
          BY <1>1, WriterParts
        <4>2. t.id = InHand(v, arc[v]) => arc[v].pc \notin {"connect", "lock", "resolve"}
          BY <2>1, <4>1 DEF InStep, Unopened
        <4>3. rows \subseteq rows' /\ t.rows \subseteq rows'
          BY <2>1
        <4>4. WriterInv(v, arc[v], report[v], txs \ {t}, rows', commits')
          BY <1>1, <1>2, <2>2, <3>2, <4>2, <4>3, EndsTx
        <4> QED
          BY <2>1, <4>4
      <3> QED
        BY <3>1, <3>2
    <2>4. Stored(txs', rows', values', commits')
      <3>1. ASSUME NEW u \in txs'
            PROVE  u \in txs /\ u # t /\ u.id # t.id /\ commits'[u.id] = 0
        <4>1. u \in txs /\ u # t
          BY <2>1
        <4>2. u.id # t.id
          BY <1>2, <4>1
        <4> QED
          BY <1>2, <1>3, <2>2, <4>1, <4>2
      <3>2. \A u \in txs' : u.rows # {} => t.rows = {}
        BY <1>2, <3>1
      <3>3. \A u \in txs' : \A r \in u.rows : \A s \in rows' \cup u.rows : r.chan = s.chan => r = s
        BY <1>2, <2>1, <3>1, <3>2
      <3>4. \A u \in txs' : \A v \in u.values : Row(v.chan, v.row) \in rows' \cup u.rows
        BY <1>2, <2>1, <3>1
      <3>5. \A b \in Batches : commits'[b] <= 1
        <4>1. \A b \in Batches : b = t.id \/ commits'[b] = commits[b]
          BY <2>2
        <4> QED
          BY <1>2, <2>2, <4>1
      <3>6. \A r, s \in rows' : r.chan = s.chan => r = s
        BY <1>2, <2>1
      <3>7. \A v \in values' : Row(v.chan, v.row) \in rows'
        BY <1>2, <2>1
      <3>8. \A u, x \in txs' : (u.id = x.id \/ (u.lock /\ x.lock)) => u = x
        BY <1>2, <3>1
      <3>9. \A u \in txs' : commits'[u.id] = 0 /\ (u.rows # {} => u.lock)
        BY <1>2, <3>1
      <3> QED
        BY <3>3, <3>4, <3>5, <3>6, <3>7, <3>8, <3>9 DEF Stored
    <2> QED
      BY <1>1, <2>1, <2>2, <2>3, <2>4, ArchiveKept
  <1>5. CASE DbAbort
    <2>1. PICK t \in txs :
            /\ arc[t.id.of].batch.n # t.id.n \/ arc[t.id.of].pc = "commit"
            /\ txs' = txs \ {t} /\ UNCHANGED <<arc, rows, values, commits, report>>
      BY <1>5 DEF DbAbort
    <2>2. ASSUME NEW v \in Writers
          PROVE  WriterInv(v, arc[v], report[v], txs', rows, commits)
      <3>1. CASE t.id.of # v
        <4>1. \A u : u.id.of = v => (u \in txs' <=> u \in txs)
          BY <2>1, <3>1
        <4> QED
          BY <1>1, <4>1, OtherWriter
      <3>2. CASE t.id.of = v
        <4>1. t.id = InHand(v, arc[v]) => arc[v].pc = "commit"
          BY <2>1, <3>2 DEF InHand
        <4>2. WriterInv(v, arc[v], report[v], txs \ {t}, rows, commits)
          BY <1>1, <1>2, <3>2, <4>1, EndsTx
        <4> QED
          BY <2>1, <4>2
      <3> QED
        BY <3>1, <3>2
    <2>3. Stored(txs', rows, values, commits)
      <3>1. \A u \in txs' : u \in txs
        BY <2>1
      <3> QED
        BY <1>2, <3>1 DEF Stored
    <2>4. txs' \subseteq TxType
      BY <1>1, <2>1
    <2> QED
      BY <1>1, <2>1, <2>2, <2>3, <2>4, ArchiveKept
  <1> QED
    BY <1>4, <1>5

LEMMA ReportFields ==
  ASSUME NEW w \in Writers, NEW r \in ReportType(w)
  PROVE  /\ r.made \in Nat /\ r.made <= Bound[w] /\ r.early \in Nat /\ r.early <= Bound[w]
         /\ r.written \subseteq 1..Bound[w] /\ r.dropped \subseteq 1..Bound[w] /\ Bound[w] \in Nat
  <1>1. /\ r.made \in 0..Bound[w] /\ r.early \in 0..Bound[w]
        /\ r.written \subseteq 1..Bound[w] /\ r.dropped \subseteq 1..Bound[w]
    BY DEF ReportType
  <1> QED
    BY <1>1, BatchFacts

\* A step of writer w that leaves the database alone.
LEMMA OnlyWriter ==
  ASSUME ArchiveInv, NEW w \in Writers, NEW a, NEW r,
         arc' = [arc EXCEPT ![w] = a], report' = [report EXCEPT ![w] = r],
         UNCHANGED Database, WriterInv(w, a, r, txs, rows, commits)
  PROVE  ArchiveInv'
  <1>1. txs \subseteq TxType /\ Stored(txs, rows, values, commits)
    BY ArchiveParts
  <1> QED
    BY <1>1, OneWriter DEF Database

\* A thread that stays where it is, with the same batch and the same ids.
LEMMA SameThread ==
  ASSUME NEW w \in Writers, NEW a, NEW b, NEW T, NEW R, NEW C, b.pc = a.pc, b.batch = a.batch,
         b.ids = a.ids, b.new = a.new, InStep(w, a, T, C), Known(w, a, T, R, C)
  PROVE  InStep(w, b, T, C) /\ Known(w, b, T, R, C)
  <1>1. InHand(w, b) = InHand(w, a) /\ ToResolve(b) = ToResolve(a)
    BY DEF InHand, ToResolve
  <1>2. InStep(w, b, T, C)
    BY <1>1 DEF InStep
  <1>3. \A c \in Channels : Backed(w, a, c, T, R, C) => Backed(w, b, c, T, R, C)
    BY <1>1 DEF Backed
  <1> QED
    BY <1>2, <1>3 DEF Known

\* A thread that has no batch, and no ids but committed ones.
LEMMA NoThread ==
  ASSUME NEW w \in Writers, NEW a, NEW T \in SUBSET TxType, NEW R, NEW C, a.pc \in {"get", "ended"},
         a.new = NoIds,
         \A c \in Channels : a.ids[c] # NoId => Row(c, a.ids[c]) \in R
  PROVE  InStep(w, a, T, C) /\ Known(w, a, T, R, C)
  <1>1. InStep(w, a, T, C)
    BY DEF InStep
  <1>2. \A c \in Channels : a.new[c] = NoId
    BY DEF NoIds
  <1> QED
    BY <1>1, <1>2 DEF Known

LEMMA IdleFacts ==
  ASSUME NEW w \in Writers
  PROVE  /\ Idle \in WriterType(w) /\ Idle.queue = <<>> /\ Idle.finished = FALSE
         /\ Idle.batch = NoBatch /\ Idle.pc = "get" /\ Idle.ids = NoIds /\ Idle.new = NoIds
         /\ NoIds \in Ids /\ NoBatch.n = 0 /\ \A c \in Channels : NoIds[c] = NoId
  <1>1. NoIds \in Ids /\ \A c \in Channels : NoIds[c] = NoId
    BY DEF NoIds, Ids
  <1>2. <<>> \in Seq(Item(w)) /\ NoBatch.n = 0
    BY DEF NoBatch
  <1>3. Idle \in WriterType(w)
    BY <1>1, <1>2 DEF Idle, WriterType
  <1> QED
    BY <1>1, <1>2, <1>3 DEF Idle

LEMMA SubmitKeeps ==
  ASSUME ArchiveInv, NEW w \in Writers, submit(w)
  PROVE  ArchiveInv'
  <1> DEFINE a == arc[w]
             r == report[w]
             n == r.made + 1
  <1>1. /\ arc = [v \in Writers |-> arc[v]] /\ report = [v \in Writers |-> report[v]]
        /\ WriterInv(w, a, r, txs, rows, commits)
    BY ArchiveParts
  <1>2. /\ a \in WriterType(w) /\ r \in ReportType(w) /\ Len(a.queue) <= QueueSize
        /\ Placed(a, r) /\ Queued(w, a, r, txs, commits) /\ Ahead(w, r, txs, commits)
        /\ Settled(w, a, r, commits)
        /\ InStep(w, a, txs, commits) /\ Known(w, a, txs, rows, commits)
    BY <1>1, WriterParts
  <1>3. /\ a.queue \in Seq(Item(w)) /\ DOMAIN a.queue = 1..Len(a.queue) /\ Len(a.queue) \in Nat
        /\ a.batch.n \in 0..Bound[w]
        /\ \A i \in DOMAIN a.queue : a.queue[i].n \in 1..Bound[w]
    BY <1>2, WriterFields
  <1>4. /\ r.made \in Nat /\ r.made <= Bound[w] /\ r.early \in Nat
        /\ r.dropped \subseteq 1..Bound[w] /\ Bound[w] \in Nat
    BY <1>2, ReportFields
  <1>5. PICK chans \in Contents :
          IF HasRoom(w)
          THEN /\ Put(w, [a EXCEPT !.queue = Append(@, [n |-> n, chans |-> chans])])
               /\ report' = [report EXCEPT ![w].made = n]
          ELSE /\ report' = [report EXCEPT ![w].made = n, ![w].dropped = @ \cup {n}]
               /\ UNCHANGED arc
    BY DEF submit
  <1>6. r.made < Bound[w] /\ UNCHANGED Database
    BY DEF submit
  <1>7. n \in 1..Bound[w] /\ n \in 0..Bound[w]
    BY <1>4, <1>6
  <1>8. \A k \in 1..n : k \in 1..r.made \/ k = n
    BY <1>4
  <1>9. \A k \in (n + 1)..Bound[w] : k \in (r.made + 1)..Bound[w]
    BY <1>4
  <1>10. a.batch.n <= n /\ r.early <= n /\ a.batch.n # n
    BY <1>2, <1>3, <1>4 DEF Settled
  <1>11. Unopened([of |-> w, n |-> n], txs, commits)
    <2>1. n \in (r.made + 1)..Bound[w]
      BY <1>4, <1>6
    <2> QED
      BY <1>2, <2>1 DEF Ahead
  <1>12. ASSUME NEW i \in DOMAIN a.queue
         PROVE  a.queue[i].n <= n /\ a.queue[i].n # n
    <2>1. a.queue[i].n <= r.made
      BY <1>2 DEF Queued
    <2>2. a.queue[i].n \in Int
      BY <1>3, <1>4
    <2> QED
      BY <1>4, <2>1, <2>2
  <1>13. CASE HasRoom(w)
    <2> DEFINE x == [n |-> n, chans |-> chans]
               b == [a EXCEPT !.queue = Append(a.queue, x)]
               s == [r EXCEPT !.made = n]
    <2>1. arc' = [arc EXCEPT ![w] = b] /\ report' = [report EXCEPT ![w] = s]
      BY <1>1, <1>5, <1>13 DEF Put
    <2>2. x \in Item(w) /\ x.n = n
      BY <1>7, ArchiveAssumption DEF Item
    <2> HIDE DEF n
    <2>3. s \in ReportType(w) /\ s.made = n /\ s.early = r.early /\ s.written = r.written
          /\ s.dropped = r.dropped
      BY <1>2, <1>7 DEF ReportType
    <2> HIDE DEF x, s
    <2> DEFINE q == Append(a.queue, x)
               l == Len(a.queue)
    <2>4. /\ q \in Seq(Item(w)) /\ Len(q) = l + 1 /\ DOMAIN q = 1..(l + 1) /\ q[l + 1] = x
          /\ \A i \in 1..l : q[i] = a.queue[i]
      BY <1>3, <2>2
    <2> HIDE DEF q
    <2>5. /\ b \in WriterType(w) /\ b.queue = q /\ b.pc = a.pc /\ b.batch = a.batch
          /\ b.ids = a.ids /\ b.new = a.new /\ b.finished = a.finished
      BY <1>2, <2>4 DEF WriterType, q
    <2> HIDE DEF b
    <2>6. Len(b.queue) <= QueueSize
      BY <1>3, <1>13, <2>4, <2>5, ArchiveAssumption DEF HasRoom
    <2>7. /\ \A i \in 1..(l + 1) : i \in 1..l \/ i = l + 1
          /\ \A i \in 1..l : i \in 1..(l + 1) /\ i # l + 1
          /\ l + 1 \in 1..(l + 1) /\ DOMAIN a.queue = 1..l
      BY <1>3
    <2> HIDE DEF l
    <2>8. Placed(b, s)
      <3>1. ASSUME NEW k \in 1..r.made
            PROVE  \/ \E i \in DOMAIN q : q[i].n = k
                   \/ k = a.batch.n \/ k \in r.written \cup r.dropped
        BY <1>2, <2>4, <2>7 DEF Placed
      <3>2. \E i \in DOMAIN q : q[i].n = n
        BY <2>2, <2>4, <2>7
      <3> QED
        BY <1>8, <2>3, <2>5, <3>1, <3>2 DEF Placed
    <2>9. Queued(w, b, s, txs, commits)
      <3>1. ASSUME NEW i \in DOMAIN q
            PROVE  /\ q[i].n <= n /\ q[i].n # a.batch.n
                   /\ Unopened([of |-> w, n |-> q[i].n], txs, commits)
                   /\ \A j \in DOMAIN q : q[j].n = q[i].n => j = i
        <4>1. CASE i \in 1..l
          BY <1>2, <1>12, <2>2, <2>4, <2>7, <4>1 DEF Queued
        <4>2. CASE i = l + 1
          <5>1. n <= n
            BY <1>7
          <5> QED
            BY <1>10, <1>11, <1>12, <2>2, <2>4, <2>7, <4>2, <5>1
        <4> QED
          BY <2>4, <2>7, <4>1, <4>2
      <3> QED
        BY <2>3, <2>5, <3>1 DEF Queued
    <2>10. Ahead(w, s, txs, commits)
      BY <1>2, <1>9, <2>3 DEF Ahead
    <2>11. Settled(w, b, s, commits)
      BY <1>2, <1>10, <2>3, <2>5 DEF Settled
    <2>12. InStep(w, b, txs, commits) /\ Known(w, b, txs, rows, commits)
      BY <1>2, <2>5, SameThread
    <2>13. WriterInv(w, b, s, txs, rows, commits)
      BY <2>3, <2>5, <2>6, <2>8, <2>9, <2>10, <2>11, <2>12 DEF WriterInv
    <2> QED
      BY <1>6, <2>1, <2>13, OnlyWriter
  <1>14. CASE ~HasRoom(w)
    <2> DEFINE s == [r EXCEPT !.made = n, !.dropped = r.dropped \cup {n}]
    <2>1. arc' = [arc EXCEPT ![w] = a] /\ report' = [report EXCEPT ![w] = s]
      BY <1>1, <1>5, <1>14
    <2>2. r.dropped \cup {n} \in SUBSET (1..Bound[w])
      BY <1>4, <1>7
    <2> HIDE DEF n
    <2>3. s \in ReportType(w) /\ s.made = n /\ s.early = r.early /\ s.written = r.written
          /\ s.dropped = r.dropped \cup {n}
      BY <1>2, <1>7, <2>2 DEF ReportType
    <2> HIDE DEF s
    <2>4. Placed(a, s)
      BY <1>2, <1>8, <2>3 DEF Placed
    <2>5. Queued(w, a, s, txs, commits)
      BY <1>2, <1>12, <2>3 DEF Queued
    <2>6. Ahead(w, s, txs, commits)
      BY <1>2, <1>9, <2>3 DEF Ahead
    <2>7. Settled(w, a, s, commits)
      BY <1>2, <1>10, <2>3 DEF Settled
    <2>8. WriterInv(w, a, s, txs, rows, commits)
      BY <1>2, <2>3, <2>4, <2>5, <2>6, <2>7 DEF WriterInv
    <2> QED
      BY <1>6, <2>1, <2>8, OnlyWriter
  <1> QED
    BY <1>13, <1>14

LEMMA CloseKeeps ==
  ASSUME ArchiveInv, NEW w \in Writers, close(w)
  PROVE  ArchiveInv'
  <1> DEFINE a == arc[w]
             r == report[w]
             b == [a EXCEPT !.finished = TRUE]
             s == [r EXCEPT !.early = r.made]
  <1>1. /\ arc = [v \in Writers |-> arc[v]] /\ report = [v \in Writers |-> report[v]]
        /\ WriterInv(w, a, r, txs, rows, commits)
    BY ArchiveParts
  <1>2. /\ a \in WriterType(w) /\ r \in ReportType(w) /\ Len(a.queue) <= QueueSize
        /\ Placed(a, r) /\ Queued(w, a, r, txs, commits) /\ Ahead(w, r, txs, commits)
        /\ Settled(w, a, r, commits)
        /\ InStep(w, a, txs, commits) /\ Known(w, a, txs, rows, commits)
    BY <1>1, WriterParts
  <1>3. /\ ~a.finished /\ arc' = [arc EXCEPT ![w] = b] /\ report' = [report EXCEPT ![w] = s]
        /\ UNCHANGED Database
    BY <1>1 DEF close, Put
  <1>4. /\ b \in WriterType(w) /\ b.queue = a.queue /\ b.pc = a.pc /\ b.batch = a.batch
        /\ b.ids = a.ids /\ b.new = a.new /\ b.finished = TRUE
    BY <1>2 DEF WriterType
  <1>5. s \in ReportType(w) /\ s.made = r.made /\ s.early = r.made /\ s.written = r.written
        /\ s.dropped = r.dropped
    BY <1>2 DEF ReportType
  <1> HIDE DEF b, s
  <1>6. Placed(b, s) /\ Queued(w, b, s, txs, commits) /\ Ahead(w, s, txs, commits)
    BY <1>2, <1>4, <1>5 DEF Placed, Queued, Ahead
  <1>7. a.pc # "ended" /\ r.made <= r.made
    BY <1>2, <1>3, ReportFields DEF Settled
  <1>8. Settled(w, b, s, commits)
    BY <1>2, <1>4, <1>5, <1>7 DEF Settled
  <1>9. InStep(w, b, txs, commits) /\ Known(w, b, txs, rows, commits)
    BY <1>2, <1>4, SameThread
  <1>10. WriterInv(w, b, s, txs, rows, commits)
    BY <1>2, <1>4, <1>5, <1>6, <1>8, <1>9 DEF WriterInv
  <1> QED
    BY <1>3, <1>10, OnlyWriter

LEMMA TakeKeeps ==
  ASSUME ArchiveInv, NEW w \in Writers, Take(w)
  PROVE  ArchiveInv'
  <1> DEFINE a == arc[w]
             r == report[w]
  <1>1. /\ arc = [v \in Writers |-> arc[v]] /\ report = [v \in Writers |-> report[v]]
        /\ WriterInv(w, a, r, txs, rows, commits) /\ txs \subseteq TxType
    BY ArchiveParts
  <1>2. /\ a \in WriterType(w) /\ r \in ReportType(w) /\ Len(a.queue) <= QueueSize
        /\ Placed(a, r) /\ Queued(w, a, r, txs, commits) /\ Ahead(w, r, txs, commits)
        /\ Settled(w, a, r, commits)
        /\ InStep(w, a, txs, commits) /\ Known(w, a, txs, rows, commits)
    BY <1>1, WriterParts
  <1>3. /\ a.queue \in Seq(Item(w)) /\ DOMAIN a.queue = 1..Len(a.queue) /\ Len(a.queue) \in Nat
        /\ \A i \in DOMAIN a.queue : a.queue[i] \in Item(w) /\ a.queue[i].n \in 1..Bound[w]
    BY <1>2, WriterFields
  <1>4. /\ a.pc = "get" /\ UNCHANGED <<report, Database>> /\ report' = [report EXCEPT ![w] = r]
    BY <1>1 DEF Take, Get
  <1>5. a.batch = NoBatch /\ a.batch.n = 0 /\ a.new = NoIds
    BY <1>2, <1>4, IdleFacts DEF Settled, Known
  <1>6. CASE a.queue # <<>>
    <2> DEFINE x == Head(a.queue)
               q == Tail(a.queue)
               b == [a EXCEPT !.batch = x, !.queue = q, !.pc = "connect"]
    <2>1. arc' = [arc EXCEPT ![w] = b]
      BY <1>6 DEF Take, Get, Put
    <2>2. /\ x = a.queue[1] /\ 1 \in DOMAIN a.queue /\ q \in Seq(Item(w))
          /\ Len(q) = Len(a.queue) - 1 /\ DOMAIN q = 1..(Len(a.queue) - 1)
          /\ \A i \in DOMAIN q : q[i] = a.queue[i + 1] /\ i + 1 \in DOMAIN a.queue
      BY <1>3, <1>6
    <2>3. x \in Item(w) /\ x.n \in 1..Bound[w]
      BY <1>3, <2>2
    <2> HIDE DEF x, q
    <2>4. /\ b \in WriterType(w) /\ b.queue = q /\ b.pc = "connect" /\ b.batch = x
          /\ b.ids = a.ids /\ b.new = a.new /\ b.finished = a.finished
      BY <1>2, <2>2, <2>3 DEF WriterType
    <2> HIDE DEF b
    <2>5. Len(b.queue) <= QueueSize
      BY <1>2, <1>3, <2>2, <2>4, ArchiveAssumption
    <2>6. x # NoBatch /\ x.n # 0
      <3>1. x.n # 0 /\ NoBatch.n = 0
        BY <2>3, BatchFacts DEF NoBatch
      <3> QED
        BY <3>1
    <2>7. \A i \in DOMAIN a.queue : i = 1 \/ (i - 1 \in DOMAIN q /\ q[i - 1] = a.queue[i])
      <3>1. ASSUME NEW i \in DOMAIN a.queue, i # 1
            PROVE  i - 1 \in DOMAIN q /\ (i - 1) + 1 = i
        BY <1>3, <2>2, <3>1
      <3> QED
        BY <2>2, <3>1
    <2>8. Placed(b, r)
      <3>1. ASSUME NEW k \in 1..r.made
            PROVE  \/ \E i \in DOMAIN q : q[i].n = k
                   \/ k = x.n \/ k \in r.written \cup r.dropped
        <4>1. k # 0
          BY <1>2, ReportFields
        <4>2. (\E i \in DOMAIN a.queue : a.queue[i].n = k) \/ k \in r.written \cup r.dropped
          BY <1>2, <1>5, <4>1 DEF Placed
        <4> QED
          BY <2>2, <2>7, <4>2
      <3> QED
        BY <2>4, <3>1 DEF Placed
    <2>9. ASSUME NEW i \in DOMAIN q
          PROVE  /\ q[i].n <= r.made /\ q[i].n # x.n
                 /\ Unopened([of |-> w, n |-> q[i].n], txs, commits)
                 /\ \A j \in DOMAIN q : q[j].n = q[i].n => j = i
      <3>1. /\ i + 1 # 1 /\ i \in Int /\ \A j \in DOMAIN q : j \in Int /\ (j + 1 = i + 1 => j = i)
        BY <1>3, <2>2
      <3>2. /\ a.queue[i + 1].n <= r.made
            /\ Unopened([of |-> w, n |-> a.queue[i + 1].n], txs, commits)
            /\ \A j \in DOMAIN a.queue : a.queue[j].n = a.queue[i + 1].n => j = i + 1
        BY <1>2, <2>2 DEF Queued
      <3>3. a.queue[i + 1].n # a.queue[1].n
        BY <2>2, <3>1, <3>2
      <3>4. \A j \in DOMAIN q : q[j].n = q[i].n => j = i
        BY <2>2, <3>1, <3>2
      <3> QED
        BY <2>2, <3>2, <3>3, <3>4
    <2>10. Queued(w, b, r, txs, commits)
      BY <2>4, <2>9 DEF Queued
    <2>11. x.n <= r.made /\ Unopened([of |-> w, n |-> x.n], txs, commits)
      BY <1>2, <2>2 DEF Queued
    <2>12. Settled(w, b, r, commits)
      BY <1>2, <2>4, <2>6, <2>11 DEF Settled
    <2>13. InStep(w, b, txs, commits)
      <3>1. Unopened(InHand(w, b), txs, commits)
        BY <2>4, <2>11 DEF InHand
      <3> QED
        BY <2>4, <3>1 DEF InStep
    <2>14. Known(w, b, txs, rows, commits)
      <3>1. \A c \in Channels : a.new[c] = NoId
        BY <1>5, IdleFacts
      <3> QED
        BY <1>2, <1>5, <2>4, <3>1 DEF Known
    <2>15. WriterInv(w, b, r, txs, rows, commits)
      BY <1>2, <2>4, <2>5, <2>8, <2>10, <2>12, <2>13, <2>14 DEF WriterInv
    <2> QED
      BY <1>4, <2>1, <2>15, OnlyWriter
  <1>7. CASE a.queue = <<>>
    <2> DEFINE b == [a EXCEPT !.pc = "ended"]
    <2>1. arc' = [arc EXCEPT ![w] = b] /\ a.finished
      BY <1>7 DEF Take, Get, Put
    <2>2. /\ b \in WriterType(w) /\ b.queue = a.queue /\ b.pc = "ended" /\ b.batch = a.batch
          /\ b.ids = a.ids /\ b.new = a.new /\ b.finished = a.finished
      BY <1>2 DEF WriterType
    <2> HIDE DEF b
    <2>3. Placed(b, r) /\ Queued(w, b, r, txs, commits)
      BY <1>2, <2>2 DEF Placed, Queued
    <2>4. 1..r.early \subseteq r.written \cup r.dropped
      <3>1. ASSUME NEW k \in 1..r.early
            PROVE  k \in 1..r.made /\ k # 0
        BY <1>2, ReportFields DEF Settled
      <3>2. DOMAIN a.queue = {}
        BY <1>7
      <3> QED
        BY <1>2, <1>5, <3>1, <3>2 DEF Placed
    <2>5. Settled(w, b, r, commits)
      BY <1>2, <1>5, <2>1, <2>2, <2>4 DEF Settled
    <2>6. InStep(w, b, txs, commits) /\ Known(w, b, txs, rows, commits)
      <3>1. \A c \in Channels : b.ids[c] # NoId => Row(c, b.ids[c]) \in rows
        BY <1>2, <2>2 DEF Known
      <3> QED
        BY <1>1, <1>5, <2>2, <3>1, NoThread
    <2>7. WriterInv(w, b, r, txs, rows, commits)
      BY <1>2, <2>2, <2>3, <2>5, <2>6 DEF WriterInv
    <2> QED
      BY <1>4, <2>1, <2>7, OnlyWriter
  <1> QED
    BY <1>6, <1>7

\* A thread that is done with the batch in hand, written or dropped.
LEMMA BatchDone ==
  ASSUME ArchiveInv, NEW w \in Writers, arc[w].pc \notin {"get", "ended"},
         NEW ids \in Ids, \A c \in Channels : ids[c] # NoId => Row(c, ids[c]) \in rows,
         NEW s \in ReportType(w), s.made = report[w].made, s.early = report[w].early,
         s.written \cup s.dropped = report[w].written \cup report[w].dropped \cup {arc[w].batch.n},
         \A n \in s.written : commits[[of |-> w, n |-> n]] = 1,
         arc' = [arc EXCEPT ![w] = [arc[w] EXCEPT !.pc = "get", !.batch = NoBatch, !.ids = ids,
                                                  !.new = NoIds]],
         report' = [report EXCEPT ![w] = s], UNCHANGED Database
  PROVE  ArchiveInv'
  <1> DEFINE a == arc[w]
             r == report[w]
             b == [a EXCEPT !.pc = "get", !.batch = NoBatch, !.ids = ids, !.new = NoIds]
  <1>1. WriterInv(w, a, r, txs, rows, commits) /\ txs \subseteq TxType
    BY ArchiveParts
  <1>2. /\ a \in WriterType(w) /\ r \in ReportType(w) /\ Len(a.queue) <= QueueSize
        /\ Placed(a, r) /\ Queued(w, a, r, txs, commits) /\ Ahead(w, r, txs, commits)
        /\ Settled(w, a, r, commits)
    BY <1>1, WriterParts
  <1>3. /\ b \in WriterType(w) /\ b.queue = a.queue /\ b.pc = "get" /\ b.batch = NoBatch
        /\ b.ids = ids /\ b.new = NoIds /\ b.finished = a.finished
    BY <1>2, IdleFacts DEF WriterType
  <1>4. arc' = [arc EXCEPT ![w] = b]
    OBVIOUS
  <1> HIDE DEF b
  <1>5. Placed(b, s)
    BY <1>2, <1>3 DEF Placed
  <1>6. Queued(w, b, s, txs, commits)
    <2>1. \A i \in DOMAIN a.queue : a.queue[i].n # 0
      BY <1>2, WriterFields, BatchFacts
    <2> QED
      BY <1>2, <1>3, <2>1, IdleFacts DEF Queued
  <1>7. Ahead(w, s, txs, commits)
    BY <1>2 DEF Ahead
  <1>8. Settled(w, b, s, commits)
    <2>1. 0 <= s.made
      BY <1>2, ReportFields
    <2> QED
      BY <1>2, <1>3, <2>1, IdleFacts DEF Settled
  <1>9. InStep(w, b, txs, commits) /\ Known(w, b, txs, rows, commits)
    BY <1>1, <1>3, NoThread
  <1>10. WriterInv(w, b, s, txs, rows, commits)
    BY <1>2, <1>3, <1>5, <1>6, <1>7, <1>8, <1>9 DEF WriterInv
  <1> QED
    BY <1>4, <1>10, OnlyWriter

LEMMA CommittedKeeps ==
  ASSUME ArchiveInv, NEW w \in Writers, Committed(w)
  PROVE  ArchiveInv'
  <1> DEFINE a == arc[w]
             r == report[w]
             ids == [c \in Channels |-> IF a.ids[c] # NoId THEN a.ids[c] ELSE a.new[c]]
             s == [r EXCEPT !.written = r.written \cup {a.batch.n}]
  <1>1. /\ arc = [v \in Writers |-> arc[v]] /\ report = [v \in Writers |-> report[v]]
        /\ WriterInv(w, a, r, txs, rows, commits) /\ Stored(txs, rows, values, commits)
        /\ commits \in [Batches -> Nat]
    BY ArchiveParts
  <1>2. /\ a \in WriterType(w) /\ r \in ReportType(w) /\ Settled(w, a, r, commits)
        /\ Known(w, a, txs, rows, commits)
    BY <1>1, WriterParts
  <1>3. /\ a.pc = "commit" /\ (\A t \in txs : t.id # Batch(w)) /\ commits[Batch(w)] > 0
        /\ UNCHANGED Database
    BY DEF Committed
  <1>4. InHand(w, a) = Batch(w) /\ Batch(w) \in Batches /\ a.batch.n \in 1..Bound[w]
    BY <1>1, <1>2, <1>3, WriterParts, WriterFields DEF InHand, Batch
  <1>5. /\ arc' = [arc EXCEPT ![w] = [arc[w] EXCEPT !.pc = "get", !.batch = NoBatch, !.ids = ids,
                                                    !.new = NoIds]]
        /\ report' = [report EXCEPT ![w] = s]
    <2>1. arc' = [arc EXCEPT ![w] = [arc[w] EXCEPT !.pc = "get", !.batch = NoBatch, !.new = NoIds,
                                                   !.ids = ids]]
      BY DEF Committed, Put
    <2>2. [a EXCEPT !.pc = "get", !.batch = NoBatch, !.new = NoIds, !.ids = ids]
            = [a EXCEPT !.pc = "get", !.batch = NoBatch, !.ids = ids, !.new = NoIds]
      <3> HIDE DEF ids
      <3> QED
        BY <1>2 DEF WriterType
    <2>3. report' = [report EXCEPT ![w] = s]
      BY <1>1 DEF Committed
    <2> QED
      BY <2>1, <2>2, <2>3
  <1>6. commits[Batch(w)] = 1
    BY <1>1, <1>3, <1>4 DEF Stored
  <1>7. ids \in Ids /\ \A c \in Channels : ids[c] # NoId => Row(c, ids[c]) \in rows
    <2>1. a.ids \in Ids /\ a.new \in Ids
      BY <1>2, WriterFields
    <2>2. ids \in Ids
      BY <2>1 DEF Ids
    <2>3. \A c \in Channels : a.new[c] # NoId => Row(c, a.new[c]) \in rows
      <3>1. ~Unopened(Batch(w), txs, commits)
        BY <1>3, <1>6 DEF Unopened
      <3> QED
        BY <1>2, <1>3, <1>4, <3>1 DEF Known, Backed
    <2>4. \A c \in Channels : ids[c] # NoId => Row(c, ids[c]) \in rows
      BY <1>2, <2>3 DEF Known
    <2> QED
      BY <2>2, <2>4
  <1>8. /\ s \in ReportType(w) /\ s.made = r.made /\ s.early = r.early
        /\ s.written = r.written \cup {a.batch.n} /\ s.dropped = r.dropped
    <2>1. r.written \cup {a.batch.n} \in SUBSET (1..Bound[w])
      BY <1>2, <1>4, ReportFields
    <2> QED
      BY <1>2, <2>1 DEF ReportType
  <1> HIDE DEF s, ids
  <1>9. \A n \in s.written : commits[[of |-> w, n |-> n]] = 1
    BY <1>2, <1>6, <1>8 DEF Settled, Batch
  <1>10. s.written \cup s.dropped = r.written \cup r.dropped \cup {a.batch.n}
    BY <1>8
  <1> QED
    BY <1>3, <1>5, <1>7, <1>8, <1>9, <1>10, BatchDone

LEMMA WriteFailsKeeps ==
  ASSUME ArchiveInv, NEW w \in Writers, WriteFails(w)
  PROVE  ArchiveInv'
  <1> DEFINE a == arc[w]
             r == report[w]
             s == [r EXCEPT !.dropped = r.dropped \cup {a.batch.n}]
  <1>1. /\ report = [v \in Writers |-> report[v]] /\ WriterInv(w, a, r, txs, rows, commits)
    BY ArchiveParts
  <1>2. a \in WriterType(w) /\ r \in ReportType(w) /\ Settled(w, a, r, commits)
    BY <1>1, WriterParts
  <1>3. /\ a.pc \notin {"get", "ended"} /\ UNCHANGED Database
        /\ arc' = [arc EXCEPT ![w] = [arc[w] EXCEPT !.pc = "get", !.batch = NoBatch, !.ids = NoIds,
                                                    !.new = NoIds]]
        /\ report' = [report EXCEPT ![w] = s]
    BY <1>1 DEF WriteFails, Put, Failed, Dropped
  <1>4. a.batch.n \in 1..Bound[w]
    BY <1>1, <1>2, <1>3, WriterParts, WriterFields
  <1>5. /\ s \in ReportType(w) /\ s.made = r.made /\ s.early = r.early
        /\ s.written = r.written /\ s.dropped = r.dropped \cup {a.batch.n}
    <2>1. r.dropped \cup {a.batch.n} \in SUBSET (1..Bound[w])
      BY <1>2, <1>4, ReportFields
    <2> QED
      BY <1>2, <2>1 DEF ReportType
  <1> HIDE DEF s
  <1>6. \A n \in s.written : commits[[of |-> w, n |-> n]] = 1
    BY <1>2, <1>5 DEF Settled
  <1>7. s.written \cup s.dropped = r.written \cup r.dropped \cup {a.batch.n}
    BY <1>5
  <1>8. NoIds \in Ids /\ \A c \in Channels : NoIds[c] = NoId
    BY IdleFacts
  <1> QED
    BY <1>3, <1>5, <1>6, <1>7, <1>8, BatchDone

LEMMA CrashKeeps ==
  ASSUME ArchiveInv, NEW w \in Writers, ArchiveCrash(w)
  PROVE  ArchiveInv'
  <1> DEFINE a == arc[w]
             r == report[w]
             lost == r.dropped \cup ({a.batch.n} \ {0}) \cup {a.queue[i].n : i \in DOMAIN a.queue}
             s == [r EXCEPT !.early = 0, !.dropped = lost]
  <1>1. /\ report = [v \in Writers |-> report[v]] /\ WriterInv(w, a, r, txs, rows, commits)
        /\ txs \subseteq TxType
    BY ArchiveParts
  <1>2. /\ a \in WriterType(w) /\ r \in ReportType(w) /\ Len(a.queue) <= QueueSize
        /\ Placed(a, r) /\ Ahead(w, r, txs, commits) /\ Settled(w, a, r, commits)
    BY <1>1, WriterParts
  <1>3. /\ UNCHANGED Database /\ arc' = [arc EXCEPT ![w] = Idle]
        /\ report' = [report EXCEPT ![w] = s]
    BY <1>1 DEF ArchiveCrash, Put
  <1>4. lost \in SUBSET (1..Bound[w])
    <2>1. a.batch.n \in 0..Bound[w] /\ \A i \in DOMAIN a.queue : a.queue[i].n \in 1..Bound[w]
      BY <1>2, WriterFields
    <2>2. {a.batch.n} \ {0} \subseteq 1..Bound[w]
      BY <2>1, BatchFacts
    <2> QED
      BY <1>2, <2>1, <2>2, ReportFields
  <1>5. \A k \in 1..r.made : k \in r.written \cup lost
    <2>1. \A k \in 1..r.made : k # 0
      BY <1>2, ReportFields
    <2> QED
      BY <1>2, <2>1 DEF Placed
  <1> HIDE DEF lost
  <1>6. /\ s \in ReportType(w) /\ s.made = r.made /\ s.early = 0
        /\ s.written = r.written /\ s.dropped = lost
    <2>1. 0 \in 0..Bound[w]
      BY BatchFacts
    <2> QED
      BY <1>2, <1>4, <2>1 DEF ReportType
  <1> HIDE DEF s
  <1>7. Idle.queue = <<>> /\ DOMAIN Idle.queue = {} /\ Len(Idle.queue) = 0
    <2>1. DOMAIN <<>> = {} /\ Len(<<>>) = 0
      OBVIOUS
    <2> QED
      BY <2>1, IdleFacts
  <1>8. Placed(Idle, s)
    BY <1>5, <1>6 DEF Placed
  <1>9. Queued(w, Idle, s, txs, commits)
    BY <1>7 DEF Queued
  <1>10. Ahead(w, s, txs, commits)
    BY <1>2, <1>6 DEF Ahead
  <1>11. Settled(w, Idle, s, commits)
    <2>1. 0 <= s.made
      BY <1>2, <1>6, ReportFields
    <2> QED
      BY <1>2, <1>6, <2>1, IdleFacts DEF Settled
  <1>12. InStep(w, Idle, txs, commits) /\ Known(w, Idle, txs, rows, commits)
    <2>1. Idle.pc = "get" /\ Idle.new = NoIds /\ \A c \in Channels : Idle.ids[c] = NoId
      BY IdleFacts
    <2> QED
      BY <1>1, <2>1, NoThread
  <1>13. Len(Idle.queue) <= QueueSize
    BY <1>7, ArchiveAssumption
  <1>14. WriterInv(w, Idle, s, txs, rows, commits)
    BY <1>6, <1>8, <1>9, <1>10, <1>11, <1>12, <1>13, IdleFacts DEF WriterInv
  <1> QED
    BY <1>3, <1>14, OnlyWriter

\* What is accounted for stays so while the thread works on its batch.
LEMMA StillPlaced ==
  ASSUME NEW w \in Writers, NEW a, NEW r, NEW T, NEW R, NEW C, WriterInv(w, a, r, T, R, C),
         NEW b, NEW T2, b.queue = a.queue, b.batch = a.batch, b.finished = a.finished,
         a.pc \notin {"get", "ended"}, b.pc \notin {"get", "ended"},
         \A t \in T2 : t \in T \/ t.id = InHand(w, a)
  PROVE  /\ Placed(b, r) /\ Queued(w, b, r, T2, C) /\ Ahead(w, r, T2, C) /\ Settled(w, b, r, C)
         /\ Len(b.queue) <= QueueSize
  <1>1. /\ a \in WriterType(w) /\ r \in ReportType(w) /\ Len(a.queue) <= QueueSize
        /\ Placed(a, r) /\ Queued(w, a, r, T, C) /\ Ahead(w, r, T, C) /\ Settled(w, a, r, C)
    BY WriterParts
  <1>2. ASSUME NEW n, n # a.batch.n, Unopened([of |-> w, n |-> n], T, C)
        PROVE  Unopened([of |-> w, n |-> n], T2, C)
    <2>1. [of |-> w, n |-> n] # InHand(w, a)
      <3>1. [of |-> w, n |-> n].n = n /\ InHand(w, a).n = a.batch.n
        BY DEF InHand
      <3> QED
        BY <1>2, <3>1
    <2> QED
      BY <1>2, <2>1 DEF Unopened
  <1>3. Placed(b, r) /\ Settled(w, b, r, C)
    BY <1>1 DEF Placed, Settled
  <1>4. Queued(w, b, r, T2, C)
    BY <1>1, <1>2 DEF Queued
  <1>5. \A n \in (r.made + 1)..Bound[w] : n # a.batch.n
    BY <1>1, WriterFields, ReportFields DEF Settled
  <1>6. Ahead(w, r, T2, C)
    BY <1>1, <1>2, <1>5 DEF Ahead
  <1> QED
    BY <1>1, <1>3, <1>4, <1>6

LEMMA OpenDbKeeps ==
  ASSUME ArchiveInv, NEW w \in Writers, OpenDb(w)
  PROVE  ArchiveInv'
  <1> DEFINE a == arc[w]
             r == report[w]
             pc == IF Unresolved(w) # {} /\ w \in Registers THEN "lock" ELSE "resolve"
             b == [a EXCEPT !.new = NoIds, !.pc = pc]
             t == [id |-> Batch(w), lock |-> FALSE, sent |-> FALSE, rows |-> {}, values |-> {}]
  <1>1. /\ report = [v \in Writers |-> report[v]] /\ WriterInv(w, a, r, txs, rows, commits)
        /\ txs \subseteq TxType /\ Stored(txs, rows, values, commits)
    BY ArchiveParts
  <1>2. /\ a \in WriterType(w) /\ r \in ReportType(w) /\ InStep(w, a, txs, commits)
        /\ Known(w, a, txs, rows, commits)
    BY <1>1, WriterParts
  <1>3. /\ a.pc = "connect" /\ arc' = [arc EXCEPT ![w] = b] /\ txs' = txs \cup {t}
        /\ UNCHANGED <<rows, values, commits, report>> /\ report' = [report EXCEPT ![w] = r]
    BY <1>1 DEF OpenDb, Put
  <1>4. /\ InHand(w, a) = Batch(w) /\ Batch(w) \in Batches /\ Batch(w).of = w
        /\ a.new = NoIds /\ Unopened(Batch(w), txs, commits) /\ Unresolved(w) = ToResolve(a)
    BY <1>1, <1>2, <1>3, WriterParts DEF InHand, Batch, InStep, Known, Unresolved, ToResolve
  <1>5. t \in TxType /\ t.id = Batch(w) /\ ~t.lock /\ ~t.sent /\ t.rows = {} /\ t.values = {}
    BY <1>4 DEF TxType
  <1>6. /\ pc \in {"lock", "resolve"}
        /\ pc = "resolve" /\ w \in Registers => Unresolved(w) = {}
    OBVIOUS
  <1> HIDE DEF t, pc
  <1>7. /\ b \in WriterType(w) /\ b.queue = a.queue /\ b.pc = pc /\ b.batch = a.batch
        /\ b.ids = a.ids /\ b.new = NoIds /\ b.finished = a.finished
    BY <1>2, <1>6, IdleFacts DEF WriterType
  <1> HIDE DEF b
  <1>8. InHand(w, b) = Batch(w) /\ ToResolve(b) = Unresolved(w)
    BY <1>4, <1>7 DEF InHand, ToResolve
  <1>9. \A u \in txs' : u = t \/ (u \in txs /\ u.id # Batch(w))
    BY <1>3, <1>4 DEF Unopened
  <1>10. t \in txs' /\ \A u \in txs : u \in txs'
    BY <1>3
  <1>11. InStep(w, b, txs', commits)
    BY <1>5, <1>6, <1>7, <1>8, <1>9, <1>10 DEF InStep
  <1>12. Known(w, b, txs', rows, commits)
    <2>1. \A c \in Channels : b.new[c] = NoId
      BY <1>7, IdleFacts
    <2> QED
      BY <1>2, <1>7, <2>1 DEF Known
  <1>13. /\ Placed(b, r) /\ Queued(w, b, r, txs', commits) /\ Ahead(w, r, txs', commits)
         /\ Settled(w, b, r, commits) /\ Len(b.queue) <= QueueSize
    <2>1. \A u \in txs' : u \in txs \/ u.id = InHand(w, a)
      BY <1>4, <1>5, <1>9
    <2> QED
      BY <1>1, <1>3, <1>6, <1>7, <2>1, StillPlaced
  <1>14. WriterInv(w, b, r, txs', rows, commits)
    BY <1>2, <1>7, <1>11, <1>12, <1>13 DEF WriterInv
  <1>15. Stored(txs', rows, values, commits)
    <2>1. commits[t.id] = 0
      BY <1>4, <1>5 DEF Unopened
    <2>2. \A u, x \in txs' : u.id = x.id => u = x
      BY <1>1, <1>5, <1>9 DEF Stored
    <2>3. \A u, x \in txs' : u.lock /\ x.lock => u = x
      BY <1>1, <1>5, <1>9 DEF Stored
    <2> QED
      BY <1>1, <1>5, <1>9, <2>1, <2>2, <2>3 DEF Stored
  <1>16. txs' \subseteq TxType /\ \A u : u.id.of # w => (u \in txs' <=> u \in txs)
    BY <1>1, <1>3, <1>4, <1>5
  <1> QED
    BY <1>3, <1>14, <1>15, <1>16, OneWriter

\* The transaction that the thread is working on is the one it looks up.
LEMMA TxFacts ==
  ASSUME ArchiveInv, NEW w \in Writers, arc[w].pc \in {"lock", "resolve"}
  PROVE  /\ Tx(w) \in txs /\ Tx(w) \in TxType /\ Tx(w).id = Batch(w)
         /\ \A t \in txs : t.id = Batch(w) => t = Tx(w)
         /\ InHand(w, arc[w]) = Batch(w) /\ Batch(w) \in Batches /\ Batch(w).of = w
         /\ ~Tx(w).sent /\ Tx(w).values = {}
         /\ arc[w].pc = "lock" => Tx(w).rows = {} /\ ~Tx(w).lock
         /\ arc[w].pc = "resolve" /\ w \in Registers /\ Unresolved(w) # {} => Tx(w).lock
  <1>1. /\ WriterInv(w, arc[w], report[w], txs, rows, commits)
        /\ txs \subseteq TxType /\ Stored(txs, rows, values, commits)
    BY ArchiveParts
  <1>2. /\ InStep(w, arc[w], txs, commits) /\ InHand(w, arc[w]) \in Batches
    BY <1>1, WriterParts
  <1>3. InHand(w, arc[w]) = Batch(w) /\ Batch(w).of = w /\ ToResolve(arc[w]) = Unresolved(w)
    BY DEF InHand, Batch, ToResolve, Unresolved
  <1>4. \E t \in txs : t.id = Batch(w)
    BY <1>2, <1>3 DEF InStep
  <1>5. Tx(w) \in txs /\ Tx(w).id = Batch(w)
    BY <1>4, Zenon DEF Tx
  <1>6. \A t \in txs : t.id = Batch(w) => t = Tx(w)
    BY <1>1, <1>5 DEF Stored
  <1> QED
    BY <1>1, <1>2, <1>3, <1>5, <1>6 DEF InStep

\* The thread goes on with the transaction t in place of its own.
LEMMA TxStep ==
  ASSUME ArchiveInv, NEW w \in Writers, arc[w].pc \in {"lock", "resolve"},
         NEW t \in TxType, t.id = Batch(w), Becomes(w, t),
         NEW b \in WriterType(w), b.queue = arc[w].queue, b.batch = arc[w].batch,
         b.finished = arc[w].finished, b.ids = arc[w].ids, b.pc \in {"resolve", "commit"},
         Put(w, b), UNCHANGED <<rows, values, commits, report>>,
         b.pc = "resolve" => ~t.sent /\ t.values = {},
         b.pc = "resolve" /\ w \in Registers /\ ToResolve(b) # {} => t.lock,
         b.pc = "commit" => t.sent,
         \A c \in Channels : b.new[c] # NoId => Row(c, b.new[c]) \in rows \cup t.rows,
         t.lock => \A u \in txs : u.lock => u = Tx(w),
         t.rows # {} => t.lock,
         \A x \in t.rows : \A y \in rows \cup t.rows : x.chan = y.chan => x = y,
         \A v \in t.values : Row(v.chan, v.row) \in rows \cup t.rows
  PROVE  ArchiveInv'
  <1> DEFINE a == arc[w]
             r == report[w]
  <1>1. /\ report = [v \in Writers |-> report[v]] /\ WriterInv(w, a, r, txs, rows, commits)
        /\ txs \subseteq TxType /\ Stored(txs, rows, values, commits)
    BY ArchiveParts
  <1>2. r \in ReportType(w) /\ Known(w, a, txs, rows, commits)
    BY <1>1, WriterParts
  <1>3. /\ Tx(w) \in txs /\ Tx(w).id = Batch(w)
        /\ \A u \in txs : u.id = Batch(w) => u = Tx(w)
        /\ InHand(w, a) = Batch(w) /\ Batch(w) \in Batches /\ Batch(w).of = w
    BY TxFacts
  <1>4. /\ arc' = [arc EXCEPT ![w] = b] /\ txs' = (txs \ {Tx(w)}) \cup {t}
        /\ report' = [report EXCEPT ![w] = r]
    BY <1>1 DEF Put, Becomes
  <1>5. /\ t \in txs' /\ \A u \in txs' : u = t \/ (u \in txs /\ u # Tx(w) /\ u.id # Batch(w))
    BY <1>3, <1>4
  <1>6. InHand(w, b) = Batch(w)
    BY <1>3 DEF InHand
  <1>7. InStep(w, b, txs', commits)
    BY <1>5, <1>6 DEF InStep
  <1>8. Known(w, b, txs', rows, commits)
    <2>1. \A c \in Channels : b.new[c] # NoId => Backed(w, b, c, txs', rows, commits)
      BY <1>5, <1>6 DEF Backed
    <2> QED
      BY <1>2, <2>1 DEF Known
  <1>9. /\ Placed(b, r) /\ Queued(w, b, r, txs', commits) /\ Ahead(w, r, txs', commits)
        /\ Settled(w, b, r, commits) /\ Len(b.queue) <= QueueSize
    <2>1. \A u \in txs' : u \in txs \/ u.id = InHand(w, a)
      BY <1>3, <1>5
    <2> QED
      BY <1>1, <2>1, StillPlaced
  <1>10. WriterInv(w, b, r, txs', rows, commits)
    BY <1>2, <1>7, <1>8, <1>9 DEF WriterInv
  <1>11. Stored(txs', rows, values, commits)
    <2>1. commits[t.id] = 0
      BY <1>1, <1>3 DEF Stored
    <2>2. \A u, x \in txs' : u.id = x.id => u = x
      BY <1>1, <1>5 DEF Stored
    <2>3. \A u, x \in txs' : u.lock /\ x.lock => u = x
      BY <1>1, <1>5 DEF Stored
    <2>4. \A u \in txs' : commits[u.id] = 0 /\ (u.rows # {} => u.lock)
      BY <1>1, <1>5, <2>1 DEF Stored
    <2>5. \A u \in txs' : \A x \in u.rows : \A y \in rows \cup u.rows : x.chan = y.chan => x = y
      BY <1>1, <1>5 DEF Stored
    <2>6. \A u \in txs' : \A v \in u.values : Row(v.chan, v.row) \in rows \cup u.rows
      BY <1>1, <1>5 DEF Stored
    <2> QED
      BY <1>1, <2>2, <2>3, <2>4, <2>5, <2>6 DEF Stored
  <1>12. txs' \subseteq TxType /\ \A u : u.id.of # w => (u \in txs' <=> u \in txs)
    BY <1>1, <1>3, <1>4
  <1> QED
    BY <1>4, <1>10, <1>11, <1>12, OneWriter

LEMMA LockKeeps ==
  ASSUME ArchiveInv, NEW w \in Writers, Lock(w)
  PROVE  ArchiveInv'
  <1> DEFINE a == arc[w]
             b == [a EXCEPT !.pc = "resolve"]
             t == [Tx(w) EXCEPT !.lock = TRUE]
  <1>1. WriterInv(w, a, report[w], txs, rows, commits)
    BY ArchiveParts
  <1>2. a \in WriterType(w) /\ Known(w, a, txs, rows, commits)
    BY <1>1, WriterParts
  <1>3. /\ a.pc = "lock" /\ (\A u \in txs : ~u.lock) /\ Put(w, b) /\ Becomes(w, t)
        /\ UNCHANGED <<rows, values, commits, report>>
    BY DEF Lock, LockFree
  <1>4. Tx(w) \in TxType /\ Tx(w).id = Batch(w) /\ ~Tx(w).sent /\ Tx(w).values = {} /\ Tx(w).rows = {}
    BY <1>3, TxFacts
  <1>5. /\ t \in TxType /\ t.id = Batch(w) /\ t.lock = TRUE /\ ~t.sent /\ t.values = {}
        /\ t.rows = {}
    BY <1>4 DEF TxType
  <1>6. /\ b \in WriterType(w) /\ b.queue = a.queue /\ b.pc = "resolve" /\ b.batch = a.batch
        /\ b.ids = a.ids /\ b.new = a.new /\ b.finished = a.finished
    BY <1>2 DEF WriterType
  <1> HIDE DEF t, b
  <1>7. \A c \in Channels : b.new[c] = NoId
    BY <1>2, <1>3, <1>6, IdleFacts DEF Known
  <1> QED
    BY <1>3, <1>5, <1>6, <1>7, TxStep

\* While it resolves channels, a thread has found each of its ids in a row that
\* it sees.
LEMMA Found ==
  ASSUME ArchiveInv, NEW w \in Writers, arc[w].pc = "resolve"
  PROVE  /\ \A c \in Channels : arc[w].new[c] # NoId => Row(c, arc[w].new[c]) \in rows \cup Tx(w).rows
         /\ \A c \in Channels : arc[w].ids[c] # NoId => Row(c, arc[w].ids[c]) \in rows
  <1>1. WriterInv(w, arc[w], report[w], txs, rows, commits)
    BY ArchiveParts
  <1>2. Known(w, arc[w], txs, rows, commits)
    BY <1>1, WriterParts
  <1>3. InHand(w, arc[w]) = Batch(w) /\ \A t \in txs : t.id = Batch(w) => t = Tx(w)
    BY TxFacts
  <1>4. \A c \in Channels : Backed(w, arc[w], c, txs, rows, commits)
                            => Row(c, arc[w].new[c]) \in rows \cup Tx(w).rows
    BY <1>3 DEF Backed
  <1> QED
    BY <1>2, <1>4 DEF Known

\* A channel is looked up and found: no step of the database.
LEMMA LookUpKeeps ==
  ASSUME ArchiveInv, NEW w \in Writers, arc[w].pc = "resolve", NEW c \in Unresolved(w),
         NEW x \in Seen(w, c), Put(w, [arc[w] EXCEPT !.new[c] = x.by]),
         UNCHANGED <<txs, rows, values, commits, report>>
  PROVE  ArchiveInv'
  <1> DEFINE a == arc[w]
             r == report[w]
             new == [a.new EXCEPT ![c] = x.by]
             b == [a EXCEPT !.new = new]
  <1>1. /\ report = [v \in Writers |-> report[v]] /\ WriterInv(w, a, r, txs, rows, commits)
        /\ rows \subseteq Rows
    BY ArchiveParts
  <1>2. /\ a \in WriterType(w) /\ r \in ReportType(w) /\ InStep(w, a, txs, commits)
        /\ Known(w, a, txs, rows, commits)
    BY <1>1, WriterParts
  <1>3. /\ Tx(w) \in txs /\ Tx(w) \in TxType /\ Tx(w).id = Batch(w) /\ InHand(w, a) = Batch(w)
    BY TxFacts
  <1>4. x \in rows \cup Tx(w).rows /\ x.chan = c /\ Tx(w).rows \subseteq Rows
    BY <1>3 DEF Seen, TxType
  <1>5. c \in Channels /\ x.by \in Batches /\ x = Row(c, x.by)
    BY <1>1, <1>4 DEF Rows, Row
  <1>6. arc' = [arc EXCEPT ![w] = b] /\ report' = [report EXCEPT ![w] = r] /\ UNCHANGED Database
    BY <1>1 DEF Put, Database
  <1>7. a.new \in [Channels -> Batches \cup {NoId}]
    BY <1>2 DEF WriterType, Ids
  <1>8. /\ new \in Ids /\ new[c] = x.by /\ \A d \in Channels : d # c => new[d] = a.new[d]
    BY <1>5, <1>7 DEF Ids
  <1> HIDE DEF new
  <1>9. /\ b \in WriterType(w) /\ b.queue = a.queue /\ b.pc = "resolve" /\ b.batch = a.batch
        /\ b.ids = a.ids /\ b.new = new /\ b.finished = a.finished
    BY <1>2, <1>8 DEF WriterType
  <1> HIDE DEF b
  <1>10. InHand(w, b) = Batch(w)
    BY <1>3, <1>9 DEF InHand
  <1>11. ToResolve(b) # {} => ToResolve(a) # {}
    BY DEF ToResolve, Unresolved
  <1>12. InStep(w, b, txs, commits)
    BY <1>2, <1>3, <1>9, <1>10, <1>11 DEF InStep
  <1>13. \A d \in Channels : new[d] # NoId => Row(d, new[d]) \in rows \cup Tx(w).rows
    BY <1>4, <1>5, <1>8, Found
  <1>14. \A d \in Channels : b.new[d] # NoId => Backed(w, b, d, txs, rows, commits)
    BY <1>3, <1>9, <1>10, <1>13 DEF Backed
  <1>15. Known(w, b, txs, rows, commits)
    BY <1>2, <1>9, <1>14 DEF Known
  <1>16. /\ Placed(b, r) /\ Queued(w, b, r, txs, commits) /\ Ahead(w, r, txs, commits)
         /\ Settled(w, b, r, commits) /\ Len(b.queue) <= QueueSize
    BY <1>1, <1>9, StillPlaced
  <1>17. WriterInv(w, b, r, txs, rows, commits)
    BY <1>2, <1>9, <1>12, <1>15, <1>16 DEF WriterInv
  <1> QED
    BY <1>6, <1>17, OnlyWriter

\* A channel is registered, under the lock and with no row of it in sight.
LEMMA RegisterKeeps ==
  ASSUME ArchiveInv, NEW w \in Registers, arc[w].pc = "resolve", NEW c \in Unresolved(w),
         Seen(w, c) = {}, Put(w, [arc[w] EXCEPT !.new[c] = Batch(w)]),
         Becomes(w, [Tx(w) EXCEPT !.rows = @ \cup {[chan |-> c, by |-> Batch(w)]}]),
         UNCHANGED <<rows, values, commits, report>>
  PROVE  ArchiveInv'
  <1> DEFINE a == arc[w]
             x == Row(c, Batch(w))
             new == [a.new EXCEPT ![c] = Batch(w)]
             b == [a EXCEPT !.new = new]
             t == [Tx(w) EXCEPT !.rows = @ \cup {x}]
  <1>1. w \in Writers /\ Stored(txs, rows, values, commits) /\ rows \subseteq Rows
    BY ArchiveParts, ArchiveAssumption
  <1>2. a \in WriterType(w)
    BY <1>1, ArchiveParts, WriterParts
  <1>3. /\ Tx(w) \in txs /\ Tx(w) \in TxType /\ Tx(w).id = Batch(w) /\ Batch(w) \in Batches
        /\ ~Tx(w).sent /\ Tx(w).values = {} /\ Tx(w).lock
    BY <1>1, TxFacts
  <1>4. c \in Channels /\ a.new \in [Channels -> Batches \cup {NoId}]
    BY <1>1, <1>2, WriterFields DEF Unresolved, Ids
  <1>5. x \in Rows /\ x.chan = c
    BY <1>3, <1>4 DEF Rows, Row
  <1>6. \A y \in rows \cup Tx(w).rows : y.chan # c
    BY DEF Seen
  <1>7. Put(w, b) /\ Becomes(w, t)
    BY DEF Row
  <1>8. /\ t \in TxType /\ t.id = Batch(w) /\ t.lock = Tx(w).lock /\ ~t.sent /\ t.values = {}
        /\ t.rows = Tx(w).rows \cup {x}
    BY <1>3, <1>5 DEF TxType
  <1>9. /\ new \in Ids /\ new[c] = Batch(w) /\ \A d \in Channels : d # c => new[d] = a.new[d]
    BY <1>3, <1>4 DEF Ids
  <1>10. Row(c, Batch(w)) = x
    OBVIOUS
  <1> HIDE DEF new, t, x
  <1>11. /\ b \in WriterType(w) /\ b.queue = a.queue /\ b.pc = "resolve" /\ b.batch = a.batch
         /\ b.ids = a.ids /\ b.new = new /\ b.finished = a.finished
    BY <1>2, <1>9 DEF WriterType
  <1> HIDE DEF b
  <1>12. \A d \in Channels : b.new[d] # NoId => Row(d, b.new[d]) \in rows \cup t.rows
    BY <1>1, <1>8, <1>9, <1>10, <1>11, Found
  <1>13. \A u \in txs : u.lock => u = Tx(w)
    BY <1>1, <1>3 DEF Stored
  <1>14. \A y \in t.rows : \A z \in rows \cup t.rows : y.chan = z.chan => y = z
    <2>1. \A y \in Tx(w).rows : \A z \in rows \cup Tx(w).rows : y.chan = z.chan => y = z
      BY <1>1, <1>3 DEF Stored
    <2> QED
      BY <1>5, <1>6, <1>8, <2>1
  <1> QED
    BY <1>1, <1>3, <1>7, <1>8, <1>11, <1>12, <1>13, <1>14, TxStep

LEMMA ResolveKeeps ==
  ASSUME ArchiveInv, NEW w \in Writers, Resolve(w)
  PROVE  ArchiveInv'
  <1>1. PICK c \in Unresolved(w) :
          \/ /\ Cardinality(Seen(w, c)) = 1
             /\ \E x \in Seen(w, c) : Put(w, [arc[w] EXCEPT !.new[c] = x.by])
             /\ UNCHANGED txs
          \/ /\ Seen(w, c) = {} /\ w \in Registers
             /\ Put(w, [arc[w] EXCEPT !.new[c] = Batch(w)])
             /\ Becomes(w, [Tx(w) EXCEPT !.rows = @ \cup {[chan |-> c, by |-> Batch(w)]}])
    BY DEF Resolve
  <1>2. arc[w].pc = "resolve" /\ UNCHANGED <<rows, values, commits, report>>
    BY DEF Resolve
  <1>3. CASE \E x \in Seen(w, c) : Put(w, [arc[w] EXCEPT !.new[c] = x.by]) /\ UNCHANGED txs
    BY <1>2, <1>3, LookUpKeeps
  <1>4. CASE /\ Seen(w, c) = {} /\ w \in Registers
             /\ Put(w, [arc[w] EXCEPT !.new[c] = Batch(w)])
             /\ Becomes(w, [Tx(w) EXCEPT !.rows = @ \cup {[chan |-> c, by |-> Batch(w)]}])
    BY <1>2, <1>4, RegisterKeeps
  <1> QED
    BY <1>1, <1>3, <1>4

\* What is inserted refers to rows that are committed or go with it.
LEMMA InsertKeeps ==
  ASSUME ArchiveInv, NEW w \in Writers, Insert(w)
  PROVE  ArchiveInv'
  <1> DEFINE a == arc[w]
             samples == {[batch |-> Batch(w), chan |-> c, row |-> ChannelId(w, c)] : c \in a.batch.chans}
             b == [a EXCEPT !.pc = "commit"]
             t == [Tx(w) EXCEPT !.sent = TRUE, !.values = samples]
  <1>1. /\ a.pc = "resolve" /\ Unresolved(w) = {} /\ Put(w, b) /\ Becomes(w, t)
        /\ UNCHANGED <<rows, values, commits, report>>
    BY DEF Insert
  <1>2. Stored(txs, rows, values, commits) /\ a \in WriterType(w)
    BY ArchiveParts, WriterParts
  <1>3. /\ Tx(w) \in txs /\ Tx(w) \in TxType /\ Tx(w).id = Batch(w) /\ Batch(w) \in Batches
    BY <1>1, TxFacts
  <1>4. /\ a.ids \in [Channels -> Batches \cup {NoId}] /\ a.new \in [Channels -> Batches \cup {NoId}]
        /\ a.batch.chans \subseteq Channels
    BY <1>2, WriterFields DEF Ids
  <1>5. ASSUME NEW c \in a.batch.chans
        PROVE  ChannelId(w, c) \in Batches /\ Row(c, ChannelId(w, c)) \in rows \cup Tx(w).rows
    <2>1. c \in Channels /\ (a.ids[c] # NoId \/ a.new[c] # NoId)
      BY <1>1, <1>4, <1>5 DEF Unresolved
    <2> QED
      BY <1>1, <1>4, <2>1, Found DEF ChannelId
  <1>6. samples \subseteq [batch : Batches, chan : Channels, row : Batches]
    BY <1>3, <1>4, <1>5
  <1>7. \A v \in samples : Row(v.chan, v.row) \in rows \cup Tx(w).rows
    BY <1>5
  <1> HIDE DEF samples
  <1>8. /\ t \in TxType /\ t.id = Batch(w) /\ t.lock = Tx(w).lock /\ t.sent = TRUE
        /\ t.values = samples /\ t.rows = Tx(w).rows
    BY <1>3, <1>6 DEF TxType
  <1>9. /\ b \in WriterType(w) /\ b.queue = a.queue /\ b.pc = "commit" /\ b.batch = a.batch
        /\ b.ids = a.ids /\ b.new = a.new /\ b.finished = a.finished
    BY <1>2 DEF WriterType
  <1> HIDE DEF b, t
  <1>10. \A c \in Channels : b.new[c] # NoId => Row(c, b.new[c]) \in rows \cup t.rows
    BY <1>1, <1>8, <1>9, Found
  <1>11. /\ t.lock => \A u \in txs : u.lock => u = Tx(w)
         /\ t.rows # {} => t.lock
         /\ \A y \in t.rows : \A z \in rows \cup t.rows : y.chan = z.chan => y = z
    BY <1>2, <1>3, <1>8 DEF Stored
  <1>12. \A v \in t.values : Row(v.chan, v.row) \in rows \cup t.rows
    BY <1>7, <1>8
  <1> QED
    BY <1>1, <1>8, <1>9, <1>10, <1>11, <1>12, TxStep

LEMMA ArchiveKeeps ==
  ASSUME ArchiveInv, ArchiveNext \/ UNCHANGED archiveVars
  PROVE  ArchiveInv'
  <1>1. CASE UNCHANGED archiveVars
    BY <1>1 DEF archiveVars, ArchiveInv
  <1>2. ASSUME NEW w \in Writers, WriterStep(w)
        PROVE  ArchiveInv'
    <2>1. \/ submit(w) \/ close(w) \/ Take(w) \/ OpenDb(w) \/ Lock(w) \/ Resolve(w) \/ Insert(w)
          \/ Committed(w) \/ WriteFails(w) \/ ArchiveCrash(w)
      BY <1>2 DEF WriterStep
    <2> QED
      BY <2>1, SubmitKeeps, CloseKeeps, TakeKeeps, OpenDbKeeps, LockKeeps, ResolveKeeps, InsertKeeps,
         CommittedKeeps, WriteFailsKeeps, CrashKeeps
  <1> QED
    BY <1>1, <1>2, DatabaseKeeps DEF ArchiveNext

LEMMA ArchiveInitHolds == ASSUME ArchiveInit PROVE ArchiveInv
  <1> DEFINE none == [made |-> 0, written |-> {}, dropped |-> {}, early |-> 0]
  <1>1. /\ arc = [w \in Writers |-> Idle] /\ report = [w \in Writers |-> none]
        /\ txs = {} /\ rows = {} /\ values = {} /\ commits = [b \in Batches |-> 0]
    BY DEF ArchiveInit
  <1>2. none.made = 0 /\ none.written = {} /\ none.dropped = {} /\ none.early = 0
    OBVIOUS
  <1>3. ASSUME NEW w \in Writers
        PROVE  WriterInv(w, Idle, none, txs, rows, commits)
    <2>1. 0 \in 0..Bound[w] /\ Bound[w] \in Nat /\ QueueSize \in Nat
      BY BatchFacts, ArchiveAssumption
    <2>2. none \in ReportType(w)
      BY <2>1 DEF ReportType
    <2> HIDE DEF none
    <2>3. Idle \in WriterType(w) /\ Idle.queue = <<>> /\ Idle.pc = "get" /\ Idle.batch = NoBatch
          /\ Idle.new = NoIds /\ NoBatch.n = 0 /\ \A c \in Channels : Idle.ids[c] = NoId
      BY IdleFacts
    <2>4. Len(Idle.queue) <= QueueSize /\ DOMAIN Idle.queue = {}
      BY <2>1, <2>3
    <2>5. Placed(Idle, none)
      BY <1>2 DEF Placed
    <2>6. Queued(w, Idle, none, txs, commits)
      BY <2>4 DEF Queued
    <2>7. Ahead(w, none, txs, commits)
      BY <1>1, <1>2, <2>1, BatchFacts DEF Ahead, Unopened
    <2>8. Settled(w, Idle, none, commits)
      BY <1>2, <2>3 DEF Settled
    <2>9. InStep(w, Idle, txs, commits) /\ Known(w, Idle, txs, rows, commits)
      BY <1>1, <2>3, NoThread
    <2> QED
      BY <2>2, <2>3, <2>4, <2>5, <2>6, <2>7, <2>8, <2>9 DEF WriterInv
  <1> HIDE DEF none
  <1>4. \A w \in Writers : WriterInv(w, arc[w], report[w], txs, rows, commits)
    BY <1>1, <1>3
  <1>5. Stored(txs, rows, values, commits) /\ commits \in [Batches -> Nat]
    BY <1>1 DEF Stored
  <1> QED
    BY <1>1, <1>4, <1>5 DEF ArchiveInv

\* What the invariant of the archive says of it.
LEMMA ArchiveFacts == ASSUME ArchiveInv PROVE ArchiveTypeOK /\ ArchiveIsSound
  <1>1. /\ txs \subseteq TxType /\ rows \subseteq Rows /\ commits \in [Batches -> Nat]
        /\ Stored(txs, rows, values, commits)
    BY ArchiveParts
  <1>2. ASSUME NEW w \in Writers
        PROVE  /\ arc[w] \in WriterType(w) /\ report[w] \in ReportType(w)
               /\ Len(arc[w].queue) <= QueueSize /\ Settled(w, arc[w], report[w], commits)
               /\ Known(w, arc[w], txs, rows, commits)
    BY ArchiveParts, WriterParts
  <1>3. ArchiveTypeOK
    <2>1. ASSUME NEW w \in Writers
          PROVE  /\ Len(arc[w].queue) <= QueueSize
                 /\ arc[w].pc \in {"get", "connect", "lock", "resolve", "commit", "ended"}
                 /\ arc[w].batch.n \in 0..Bound[w] /\ arc[w].batch.chans \subseteq Channels
                 /\ arc[w].finished \in BOOLEAN
                 /\ arc[w].ids \in [Channels -> Batches \cup {NoId}]
                 /\ arc[w].new \in [Channels -> Batches \cup {NoId}]
      BY <1>2, WriterFields DEF Ids
    <2>2. \A w \in Writers :
            report[w] \in [made : 0..Bound[w], written : SUBSET (1..Bound[w]),
                           dropped : SUBSET (1..Bound[w]), early : 0..Bound[w]]
      BY <1>2 DEF ReportType
    <2> QED
      BY <1>1, <2>1, <2>2 DEF ArchiveTypeOK, TxType
  <1>4. RegisteredOnce
    BY <1>1 DEF Stored, RegisteredOnce
  <1>5. IdsAreCommitted
    <2>1. \A v \in values : [chan |-> v.chan, by |-> v.row] \in rows
      BY <1>1 DEF Stored, Row
    <2>2. \A w \in Writers, c \in Channels :
            arc[w].ids[c] # NoId => [chan |-> c, by |-> arc[w].ids[c]] \in rows
      BY <1>2 DEF Known, Row
    <2> QED
      BY <2>1, <2>2 DEF IdsAreCommitted
  <1>6. ArchivedOnce
    BY <1>1, <1>2 DEF Stored, Settled, ArchivedOnce
  <1>7. DrainedAtEnd
    BY <1>2 DEF Settled, DrainedAtEnd
  <1> QED
    BY <1>3, <1>4, <1>5, <1>6, <1>7 DEF ArchiveIsSound

LEMMA CollectIsHonest ==
  ASSUME CollectInv, ViewInv
  PROVE  CollectTypeOK /\ ViewTypeOK /\ PolledWhenPowered /\ TelemetryIsHonest
  <1>1. /\ col \in ColType /\ v6 \in 0..OffLong /\ WireInv(col, v6) /\ CycleInv(col)
        /\ InPlace(col.heard) /\ RowsInv(view) /\ view \in ViewType
    BY DEF CollectInv, WorkerInv, WireInv, ViewInv
  <1>2. Len(col.wire) <= 1
    <2>1. CASE col.pc = "wait"
      <3>1. PICK on \in BOOLEAN, kind \in Kinds :
              col.wire = <<[to |-> Asks(col), on |-> on, kind |-> kind]>>
        BY <1>1, <2>1 DEF WireInv
      <3> QED
        BY <3>1
    <2>2. CASE col.pc # "wait"
      <3>1. col.wire = <<>>
        BY <1>1, <2>2 DEF WireInv
      <3> QED
        BY <3>1
    <2> QED
      BY <2>1, <2>2
  <1>3. CollectTypeOK
    BY <1>1, <1>2 DEF CollectTypeOK, ColType
  <1>4. ViewTypeOK
    BY <1>1 DEF ViewTypeOK, ViewType
  <1>5. PolledWhenPowered
    BY <1>1 DEF CycleInv, PolledWhenPowered
  <1>6. ASSUME col.pc = "publish", col.success = "yes", NEW i \in DOMAIN Questions[col.group]
        PROVE  \E x \in col.heard : x[1] = Questions[col.group][i] /\ x[2] = x[1]
    <2>1. i <= Len(Questions[col.group])
      BY <1>1, <1>6, QuestionFacts DEF ColType
    <2> QED
      BY <1>1, <1>6, <2>1 DEF CycleInv, Heard
  <1>7. ASSUME col.pc = "publish", col.success = "yes", col.group = "rs485"
        PROVE  /\ \A x \in col.heard : x[3] = "values"
               /\ col.panels # {} /\ col.panels \X {1, 2} \subseteq col.got
    BY <1>1, <1>7 DEF CycleInv
  <1>8. col.pc = "publish" /\ col.success = "disabled" => ~col.gate.powered
    BY <1>1 DEF CycleInv
  <1>9. TelemetryIsHonest
    BY <1>1, <1>6, <1>7, <1>8 DEF TelemetryIsHonest, RowsInv
  <1> QED
    BY <1>3, <1>4, <1>5, <1>9

-----------------------------------------------------------------------------
(* The clients together *)

ClientsInv ==
  /\ focus \in Parts
  /\ RampInv /\ ArchiveInv /\ CollectInv /\ ViewInv /\ SensorInv /\ TunnelInv

LEMMA ClientsKeep ==
  ASSUME ClientsInv, [Next]_vars
  PROVE  ClientsInv'
  <1>1. /\ focus' \in Parts
        /\ RampNext \/ UNCHANGED hvRampVars
        /\ ArchiveNext \/ UNCHANGED archiveVars
        /\ CollectNext \/ UNCHANGED collectVars
        /\ ViewNext \/ UNCHANGED view
        /\ SensorNext \/ UNCHANGED sensorVars
        /\ TunnelNext \/ UNCHANGED tunnelVars
    BY DEF ClientsInv, vars, Next, Ramping, Archiving, Collecting, Viewing, Sensing, Typing
  <1> QED
    BY <1>1, RampKeeps, ArchiveKeeps, CollectKeeps, ViewKeeps, SensorKeeps, TunnelKeeps DEF ClientsInv

\* The inductive invariant of the clients: each part's own, whichever part moves.
THEOREM ClientsInvariant == Spec => []ClientsInv
  <1>1. Init => ClientsInv
    BY RampInitHolds, ArchiveInitHolds, CollectInitHolds, ViewInitHolds, SensorInitHolds,
       TunnelInitHolds DEF Init, ClientsInv
  <1>2. ClientsInv /\ [Next]_vars => ClientsInv'
    BY ClientsKeep
  <1> QED
    BY <1>1, <1>2, PTL DEF Spec

\* Every part of the clients stays in its types: among others, a writer's queue
\* never holds more than postgres_queue_size batches and a collector has at most
\* one answer on its connection.
THEOREM ClientsTypeOK == Spec => []TypeOK
  <1>1. ClientsInv => TypeOK
    BY ArchiveFacts, CollectIsHonest DEF ClientsInv, TypeOK, RampInv, SensorInv, TunnelInv
  <1> QED
    BY <1>1, ClientsInvariant, PTL

\* PostgresWriter: however many processes register channels at a time, die or
\* lose the answer to COMMIT, trk_channel holds one row for a channel, every
\* sample of trk_value and every cached id refers to a committed row of its
\* channel, no batch is archived twice, one that is reported written is archived,
\* and a thread that has ended has dealt with all that close found queued.
THEOREM ClientsArchiveIsSound == Spec => []ArchiveIsSound
  <1>1. ClientsInv => ArchiveIsSound
    BY ArchiveFacts DEF ClientsInv
  <1> QED
    BY <1>1, ClientsInvariant, PTL

\* What graphite_pusher and hv-monitor tell: no answer of lvhv-server stands under
\* another question than its own, the values of the second HV block stand under
\* its channels unless the answer for the first was an error, success means that
\* every question was answered and every panel read, disabled that the power was
\* seen off; for every delay, error, failure and order of the loops.
THEOREM ClientsTelemetryIsHonest == Spec => []TelemetryIsHonest
  <1>1. ClientsInv => TelemetryIsHonest
    BY CollectIsHonest DEF ClientsInv
  <1> QED
    BY <1>1, ClientsInvariant, PTL

\* The RS485 worker of graphite_pusher never reads a panel whose PSU has been off
\* for longer than the age of the power gate and the time-out of its question,
\* for every number of panels and every age.
THEOREM ClientsPolledWhenPowered == Spec => []PolledWhenPowered
  <1>1. ClientsInv => PolledWhenPowered
    BY CollectIsHonest DEF ClientsInv
  <1> QED
    BY <1>1, ClientsInvariant, PTL

\* i2c-sensor-server shows ok exactly when its last round had a sample, with the
\* streak of rounds without one, for every number of retries.
THEOREM ClientsHealthIsHonest == Spec => []HealthIsHonest
  <1>1. ClientsInv => HealthIsHonest
    BY DEF ClientsInv, SensorInv, HealthIsHonest
  <1> QED
    BY <1>1, ClientsInvariant, PTL

\* A command of the command line goes to another station only if a foreign
\* listener took the port between the look at it and ssh, and no tunnel is left
\* when it goes to the next host or ends, for any hosts and ports.
THEOREM ClientsRightStation == Spec => []RightStation
  <1>1. ClientsInv => RightStation
    BY DEF ClientsInv, TunnelInv, RightStation
  <1> QED
    BY <1>1, ClientsInvariant, PTL

\* A ramp sends at most one more write once its process was told to stop, and
\* one that raises the output once the HV has tripped, whatever it reads and
\* whoever else writes; and no write of a ramp, failed ones included, raises the
\* output by more than the largest step while nobody else writes the channel and
\* the ramp did not begin with a cache above the output.
THEOREM ClientsWritesAreBounded == Spec => WritesAreBounded
  <1>1. ClientsInv => AtMostOneMore
    BY DEF ClientsInv, RampInv, ProcInv, AtMostOneMore
  <1>2. ClientsInv => NoJumpUp
    BY OneStepUp DEF ClientsInv, NoJumpUp
  <1> QED
    BY <1>1, <1>2, ClientsInvariant, PTL DEF WritesAreBounded

=============================================================================
