# Formal models of LVHVBox

TLA+ specifications of the software that controls and monitors the low- and
high-voltage supplies of the detector, checked with TLC and, in part, proved
with TLAPS. `PROJECT.json` lists runs, theorems, hazards and, for every
definition, the lines of code it stands for.

## The system

| Part | State it keeps | Operations | Talks to |
|---|---|---|---|
| `lvhv-server` threads (`lvhv-server.c`, `connections.c`, `handler.c`, `Task.c`, `PriorityQueue.c`, `BinaryHeap.c`) | one task on the stack of each handler, three bounded queues, the connected Picos | accept, receive, queue, execute, signal, reply | TCP clients, the i2c worker, the Pico workers |
| Wire commands (`Command.c`, `handler.c`) | none | `command_is_valid`, routing to a queue | handlers, i2c worker |
| LV power (`i2c_routines.c`, `MCP23S08.c`, `rs485_notify.c`) | cached output byte, shared enable, reset line | `powerOn`, `powerOff`, `station_reset`, start | expander over SPI, GPIO, power-on datagram to rs485-server |
| HV set points (`i2c_routines.c`, `dac8164.c`) | cached expander byte, cached set points | `set_hv_by_dac`, `query_hv_dac_cache`, start | three DAC chips behind the second expander |
| Pico link (`pico_routines.c`, `Pico.c`) and `SmartSwitch` firmware | USB streams; trip counters, thresholds, buffers | queries, trip control | each other over USB |
| `rs485-server` queue (`fair_queue.py`) | tickets per client class, active class, last class | `turn`, `request`, `close` | HTTP threads, discovery thread, device lock |
| `rs485-server` bus (`rs485.py`) | transaction number and hold-off in a file, frame stream | exchange, discovery | ROCs on one RS485 line |
| `rs485-server` discovery (`power_on_discovery.py`, `discovery_history.py`) | due and expiry times, saved history | event, step, save, notify | lvhv-server's datagram, the bus |
| `rs485-server` HTTP front end (`rs485_server.py`) | one request per handler thread; the phases of `main` | route, take a turn, answer, stop | HTTP clients, queue, bus |
| Protection monitors (`roc_temperature_monitor.py`, `network-watch.py`, `i2c-sensor-alerts.py`) | counters, grace periods, alert states, a state file | poll, alert, power off, restore | lvhv-server, rs485-server |
| Pi health server (`pi-health-server.py`) | AC losses, the X728 pulse, the soft shutdown under way | edge, power off, pulse | GPIO, lvhv-server, HTTP clients |
| HV ramp (`PowerSupplyServerConnection.py`, `ramp-hv.py`) | the station's lock, HV locks, a ramp thread per channel | lock, ramp, stop | set points of lvhv-server |
| Collectors (`graphite_pusher.py`, `hv-monitor.py`) | connections, the age of the power gate | poll, publish | lvhv-server, rs485-server, Graphite |
| Archive (`PostgresWriter` in `graphite_pusher.py` and `i2c-sensor-server.py`) | bounded queue, cached channel ids | submit, register, insert, commit, close | PostgreSQL |
| Sensor server (`i2c-sensor-server.py`) | bus, sensor, the state shown | read, reopen, show | BME680, HTTP clients, archive |
| Command line (`Client.py`) | SSH tunnel, cached connections, current host | look for a port, tunnel, send, close | all servers |
| GUI and plots | none that matters here | display | all of the above |

What is hard in it:

* **Pointers to another thread's stack.** A handler queues a pointer to a task
  on its own stack and the worker signals the task's condition after it has
  released the mutex.
* **Writes that fail half way.** Every pin goes through a cached byte that is
  changed before the SPI transfer that may fail; power commands are sequences of
  such writes, and a DAC word is 24 bits of them on lines shared by the chips.
* **Crashes.** systemd restarts the server while the hardware keeps its state.
* **One bus, several client classes**, with deadlines, cancellation and a stop.
* **Late answers** on USB and RS485 and on connections whose answers carry no
  number, and discovery that races power changes.
* **Shutdowns nobody watches.** Four monitors may switch a station off, each with
  streaks, grace periods and saved state that restarts cut through. Both a shutdown
  without cause and a danger without shutdown are failures.
* **Writes that outlive their writer**: an HV write of a ramp that was killed, a
  transaction of a process that is gone, a tunnel of a client that was killed.

## Modules

| Module | Models | State and actions against the code |
|---|---|---|
| `Command` | `command_is_valid`, the dispatch of `client_handler` | `Route` gives the queue or the immediate reply |
| `LvhvServer` | threads, tasks, queues | `session[c]` is the program counter of a handler, `task[c]` its stack slot, `queue[q]` the heap buffer, `worker[q]` the loop of `i2c_loop` or `pico_loop`. One action per critical section: `Receive`, `CheckComplete` (one test of the `while`), `SendReply`, `Pop`, `Complete` (under the mutex), `Signal` (after it) |
| `MCLvhvServer` | instance | one request for each way through the dispatch |
| `LvhvServerProofs` | theorems | |
| `LvPower` | `i2c_lv_power_control` and its callers, `initialize_i2c`, MCP23S08 writes, the power-on event | `cmd.pc` is the place in `i2c_lv_power_control`; one action per GPIO write, SPI transfer or wait that can fail. `asked`, `acked`, `lastOk`, and `whole` (the start had worked as a whole) are history |
| `LvPowerProofs` | theorems | |
| `HvDac` | `DAC8164_write`, `i2c_dac_write`, the chips | `xfer.pc` is the place in the bit loop; every `MCP_pinWrite` drives the pins and each chip sees the edges. `lastAck`, `attempts` are history |
| `HvDacProofs` | theorems | |
| `FairQueue` | `FairQueue` | an action is what a thread does under the condition between two waits; `passed` is history |
| `MCFairQueue` | instance | three of the four client classes |
| `FairQueueProofs` | theorems | |
| `BusSession` | `BusSession`, `PiBus`, `RS485.discover` of `rs485.py` | `disk` is the state file, `sess` the process with its copy of the file and its place in `reserve`, `save` or `_exchange`; `scan` is the loop of `discover`, `published` is `_discovery`. `save` is two actions, `SaveWrite` and `SaveTruncate`, or fails. `window`, `late` (the request outlived its reservation before it left) and `probed` are history |
| `BusSessionProofs` | theorems | |
| `Station` | what the monitors share | `power`, and `lvhv`: whether calls to lvhv-server work. `Operator` changes either at any time |
| `NetworkWatch` | `network-watch.py` | one action per probe, per evaluation, for `powerOff` and the sleep; `watch.outage` is the outage timer. A failing `powerOff` ends the process |
| `RocMonitor` | `roc_temperature_monitor.py` | `mon` is the `Monitor` object, `step` the place in `cycle`, `file` the state file; `BeginCycle`, `ReadAll`, `Recheck`, `Act`, `Notify`, `Save` in order, a crash between any two. `seen` is the history of the readings and messages, which no crash touches; `unsaved` and `lost` say what of it the file does not have |
| `SensorAlerts` | `i2c-sensor-alerts.py` | one action per fetch, condition, alert and for the counting `except` of `main` (`Handler`); the other one swallows a failure uncounted (`FetchUnexpected`). `polled` is history |
| `PiHealth` | the GPIO thread and the soft shutdown of `pi-health-server.py` | `edges` is the queue of the GPIO request; the level is read when an edge is taken; `soft.at[w]` is the place in `run_x728_soft_shutdown` |
| `Protection`, `MCProtection` | the monitors composed | properties over all of them |
| `ProtectionProofs` | theorems | |
| `PowerOnDiscovery` | `power_on_discovery.py` | `pod.due`, `pod.expires` as ticks left; `Select` drains the socket; `StepAsks` finds the window open and asks for the power, whose answer (`PowerOff`, `PowerUnknown`, `StepDiscovers`) may take any time |
| `DiscoveryHistory` | `discovery_history.py`, `run_discovery` and the life of `main` | `scan[c]` for each caller of `run_discovery`, `data` and `disk` the history and its file, `mail` the notification thread with its copy, `srv` the phase of `main` |
| `Outbox` | abstract | at-least-once delivery; `DiscoveryHistory` is checked to implement it |
| `HttpFront` | a request of `rs485_server.py` | `web.pc` is the place in the handler; `Clauses` is the order of the `except` clauses with the class hierarchy of the exceptions |
| `Rs485Service` | the three composed | |
| `Rs485ServiceProofs` | theorems | |
| `HvRamp` | `ramp-hv.py`, `SetWireVoltage` | `ramp[p].main` is `main`, `ramp[p].pc` the ramp thread; a write is sent (`Send`) and executed (`Execute`, `ExecuteFails`) in two steps; a reading is any voltage of a range (`Sees`); `OtherWrite` is everybody else's `set_hv_by_dac`, `LockLost` the death of the ssh that holds the lock |
| `Archive` | both `PostgresWriter`s, which take the same steps (the map names one or the other for each) | `arc[w].pc` is the place in `run` and `write_batch`; `txs` are the database's open transactions, some without a client |
| `Collectors` | `collection_worker` with `RS485PowerGate`; `hv-monitor.py` | `wire` is what was asked on a connection and not heard yet, with the kind of the answer: values, an error code or the characters of `ERROR`; `heard` and `row` are the answers as they were taken |
| `SensorServer` | `SensorLoop` | `loop` is the thread, `shown` the state under `state_lock` |
| `Tunnels` | `Client.py` | `cli.pc` is the place in `run_one_shot` or `run_interactive` and `ensure_tunnel`; `ssh` its tunnel, `others` foreign listeners on the ports |
| `StationClients`, `MCStationClients` | the clients composed | |
| `StationClientsProofs` | theorems | |

`LvhvServer` extends `Command`. `LvPower` and `HvDac` refine what the i2c worker
does in one `Complete` step of `LvhvServer`: there is one i2c worker, so their
commands never overlap. `FairQueue` and `BusSession` stand beside them in another
process: what a caller of `FairQueue` does in its turn is an exchange of
`BusSession`; `HttpFront`, `DiscoveryHistory` and `PowerOnDiscovery` are those
callers.

**Composition by focus.** `Protection`, `Rs485Service` and `StationClients` join
modules whose processes share no memory and meet only in servers, a bus or the
station's power. Each module has everything that the others may do to it as
actions of its own environment (the power is switched, the queue refuses, the
server restarts, a foreign ssh listens), free to occur at any time. A product of
the parts would add no behaviour to any of them, so a behaviour explores one part,
chosen by `focus` in the initial state; the others stay in their initial state.
Within a part everything interleaves.

### Abstractions

* A request's float is one of three cases (a DAC integer, another finite number,
  not finite): `command_is_valid` tells no more apart.
* Every queued item has key 0, so `heap_push` appends and `heap_pop` moves the
  last item to the root; the sift loops stop at once.
* A signal on a destroyed task is lost, wakes the handler that now sleeps in that
  slot, or, when the thread has ended, may end the process (`SignalUnmapped`).
* A failed SPI transfer may or may not have reached the chip. A failed GPIO write
  has not (`write_gpio_value` fails before it touches a register).
* A crash in the middle of a station reset leaves the stations held in reset.
* The reads (`readMon*`, `query_hv_dac_cache`) change no state.
* `HvDac` gives a chip one channel, and words of a short setting and one spare
  bit. The real words start with address, command and channel bits, the same for
  every word to a channel. While the lines float during a restart a chip is taken
  to see at most one more clock.
* In `FairQueue` time is open: a caller may give up at any look. Statistics are
  left out.
* In `BusSession` time is a number of ticks and a hold-off is what is left of it.
  The wall clock is taken to run steadily. Saving, writing and draining take any
  time.
* The advisory lock means one process has the file, so there is one process, which
  may die and be started again. A reply never comes so late that its transaction
  number is in use again (65536 transactions).
* Frames are delivered or lost as a whole; a damaged one is a lost one. The two
  words of a pressure reading are two reads, and a probe may come between them in
  the model although the code holds the lock.
* Failing `malloc` and logging are not modelled.
* Times of the monitors and of discovery are ages or remaining ticks, capped where
  they no longer matter. A cycle may take any time up to `MaxCycle`/`MaxPeriod`.
* A reading of a temperature, humidity or voltage is the outcome of its
  comparison (hot, cool, failed; safe, unsafe, stale). In `SensorAlerts` the fleet's
  `powerOff` is that of one station.
* `powerOff` that raises may or may not have switched the power off.
* A warning of a missing panel is its number and the users who have it.
* `HvRamp` has one channel (threads of different channels share nothing) and DAC
  units for volts. A reading may be any voltage from `Noise` below the scale to
  `Noise` above it. A request that is executed after its thread has gone, and a
  process whose lock another one has taken, are among the writers of `OtherWrite`.
  An error answer to the question for the trip, which Python takes for a trip, ends
  the thread (`Raises`); the write of 0 that a ramp to zero would send first is left
  out.
* An answer of lvhv-server in `Collectors` is its question, its kind and the number
  of entries it adds to a list (6, 1 or 5); of a list only the entry at which the
  second block begins matters.
* The database of `Archive` is external: read committed, an advisory lock held to
  the end of the transaction, a session that may commit after its client is gone.
  The column `quantity` is not named by the insert; the database generates it.
* In `Tunnels` the rest of the computer may listen on a local port, on behalf of
  any host, whenever the port is free.

## Runs

| Run | Checks | Result |
|---|---|---|
| `lvhv_server` | `TypeOK` (with the capacity of the queues), `NoDanglingTask`, `ExecutedOnce`, `ReplyAnswersRequest`, `StoredAnswerIsSent`, `QueuedIsServed` | hold |
| `lvhv_server_pico` | `QueuedForConnectedPico` | **violated**: `pcb_temp` on a channel below 6 is checked against Pico 0 and queued for Pico 1. Without Pico 1 nobody takes it and the handler waits for ever |
| `lv_power` | `TypeOK`, `AckedOutputsHold`, `AckSettlesEarlierFailures`, `ShutdownRepairs`, `EventMeansAllOn` | hold |
| `lv_power_start` | `StartDisablesGlobal` | **violated**: `initialize_i2c` adds +1 and -1 and `main` takes 0 for success with global LV as high as before |
| `hv_dac` | `TypeOK`, `SetPointWasRequested`, `OneChipClocked` | hold |
| `hv_dac_cache` | `CacheIsLastAcknowledged` | **violated**: a restart zeroes the cache, the chips keep their set points |
| `fair_queue` | `OneOnTheBus`, `TicketsAreWaiters`, `BoundedBypass`, `WaiterIsServed`, `StopDrains` | hold |
| `bus_session` | `TypeOK`, `AnswerIsFresh`, `ScanIsSound`, `WindowIsWaitedOut` | hold |
| `protection` | `ShutdownIsJustified`, `ToldOncePerIncident`, `DangerEndsInShutdown` | hold |
| `rs485_service` | `TypeOK`, `EventNotForgotten`, `ScanOwnsUart`, `AnswerIsHonest`, `BeginsInWindow`, `WarningsAreKept` (refinement of `Outbox`), `WarningIsDelivered` | hold |
| `station_clients` | `ArchiveIsSound`, `TelemetryIsHonest`, `PolledWhenPowered`, `HealthIsHonest`, `RightStation`, `WritesAreBounded`, `RampDownEnds` | hold |
| `bus_session_file` | `FileSurvivesRestart` | **violated**: `save` overwrites the file and truncates it afterwards. A process killed in between leaves the end of a longer text, which no later start can parse |

What the holding properties say of the code:

* The `while` loop around `pthread_cond_wait`, and nothing else, keeps a task
  alive while a queue or a worker refers to it, whatever wakeups come. The late
  signal is harmless to the protocol itself: it can only wake a handler that then
  tests its own task.
* `QueuedIsServed` has an escape that is needed: with three requests waiting in a
  queue, the heap can pass over the second one for ever. A request dropped by a
  full queue is never answered; the code has no answer for it.
* Sending the whole cached byte with each write has a good side: a write that
  works repairs the failed ones before it, so an acknowledged command leaves every
  output as last asked, and a shutdown whose last write worked has switched all
  outputs off, also when it reports a failure. That is about the latch. The pins
  follow it only if the start set the directions, and a start whose results were +1
  and -1 did not: `AckedOutputsHold` and `EventMeansAllOn` speak of the pins for a
  start that worked as a whole (`whole`), and of the latch for any.
* A failed DAC transfer leaves a chip at the old or the new set point, never at a
  mixture, and the best-effort restoration of the lines keeps one chip's word from
  reaching another even when it fails too: the cached byte raises the line with
  the first write of the next transfer, before a clock edge.
* `BoundedBypass` is tight: with `per_client` places and N classes a waiting
  request sees at most `per_client * N - 1` other turns.
* `WaiterIsServed` has an escape that is needed: a caller at the head whose
  deadline passes as its turn comes has kept the others back, and such callers can
  come for ever.
* The transaction number and the hold-off do different work. A late answer is
  told apart by its number alone; the hold-off keeps two transmitters off the line,
  and it does so through a crash at any point only because `reserve` saves it
  before the line is driven and a probe shortens it only after it has left.
* The docstring of `BusSession` (`rs485.py:160-161`) promises that the response window
  of an interrupted request is waited out. The code reserves 1.1 s more than the
  window and bounds neither the save, the write and the drain together by that: a request
  that leaves later than its reservation allows and is then interrupted leaves a
  window that nobody waits for. `WindowIsWaitedOut` excepts exactly these (`late`).
* No restart makes a monitor switch off too early: network-watch begins a new
  grace period, the ROC monitor drops a saved streak that is too old. There is one
  exception: a reading that ended a streak is forgotten if the process dies before
  the save, and the restored streak counts on from before it (`lost.ended` in
  `ShutdownIsJustified`). In the same way a message that went out before a crash and
  was not saved is sent once more (`lost.told` in `ToldOncePerIncident`); and a file
  that still has an incident whose end was not saved may keep a new one from being
  told. The price of the fresh start is
  that a process which keeps dying never acts, so the liveness properties ask that
  it is left alone from some time on.
* In `i2c-sensor-alerts` a notification that fails counts as a poll without data.
  That is why an unsafe condition ends in a shutdown even when no notification ever
  gets through, and why the count of missing data may include a poll that had data.
  An exception that is not in the list of `main` (a truncated answer, an answer of
  another shape) is logged and counted nowhere: a sensor server that fails only in
  such ways is never acted on, and `UnsafeEndsInShutdown` has to exclude it.
* `pi-health-server` reads the level after the edge, so an edge that was undone by
  then does nothing; a `powerOff` that fails is not tried again, and
  `AcLossEndsInShutdown` needs lvhv-server to work. A loss whose edge no process got,
  because it came between two of them or its process ended first, is not answered.
* The status of a soft shutdown is set before the pin is released. A new pulse may
  be accepted in between; it fails then, because the pin has one holder, and
  no two pulses overlap.
* A saved warning leaves the file for a user only after it was sent to that user,
  through crashes and failed saves at any point. It may be sent twice. A warning
  whose save failed is in memory only and lost in a crash.
* `AnswerIsHonest` rests on the order of the `except` clauses: `ResponseTimeout`
  and `QueueExpired` are both timeouts, and only one of them says that nothing was
  sent.
* The window of a power-on discovery is tested before the power is read over TCP, so
  the discovery itself may begin later than the window by as long as that takes.
  `BeginsInWindow` says what holds: the step found the window open, and no retry
  makes it longer.
* After a stop at most the write already on its way reaches the DAC, after a trip at
  most one that raises it, whatever the readings say and whoever else writes.
* That one write raises the output by no more than the largest step needs the channel
  for the ramp alone. `_take_dac_steps` looks at the cache once and then counts, so
  `Client.py set_hv_by_dac`, a second ramp after the ssh of the lock died unseen, a
  write of a killed ramp that is executed late, or a cache that a failed write left
  above the output at the start each make a larger step possible; `odd` in `NoJumpUp`
  is that exception.
* A ramp to zero ends by a reading and not by the DAC. A reading below zero while the
  DAC is above turns it upwards, so it ends only if the readings agree with the output
  from some time on; and if the reading at zero never falls below zero the inner loop
  goes on for ever. Both are premises of `RampDownEnds`. It also needs a wrong reading to
  be less than `2 * MedTol` below zero (`Noise`); a lower one sets the loop a goal that no
  right reading reaches.
* The advisory lock keeps registrations of channels apart, and a failed batch is
  not tried again, so an ambiguous commit never archives a sample twice.
* An answer that comes late never meets a later question, because every failure
  closes the connection. `hv-monitor` never opens it again: its columns stay blank.
* An error answer is taken for values, except by the power gate, which looks. The one
  that stands for the first HV block is one or five entries long, so that the values
  of channels 6 to 11 are published, and shown by `hv-monitor`, under the names of other
  channels, with success = 1. `TelemetryIsHonest` states that exception and no other.
* A command of `Client.py` reaches another PSU in one way only: `ensure_tunnel` takes
  any listener on its port for its own tunnel, so a client that started at the same
  time, or one that was killed before its ssh listened, can take the port after the
  look (`raced` in `RightStation`). The run shows that nothing else (dead tunnels, those
  left behind earlier, cached connections) has that effect.
* A published scan has a place for every address, and a transport that fails never
  makes a panel silent: the scan is dropped and the last result stays.

### Bounds

* `lvhv_server`: three clients, because two leave the heap's reordering out; i2c
  queue of 3 (never full, so reordering shows), Pico queues of 1 (so the second
  request is dropped). Any set of connected Picos. The four requests take the i2c
  route, the rejection, the home queue of `pcb_temp`, and a channel that only the
  validity test keeps from the branch that leaves no answer.
* `lv_power`: three outputs, which give a first, a middle and a last one.
* `hv_dac`: two chips (one to disturb the other), settings 1 and 2 of two bits: a
  cut or mixed word is 0 or 3, which nobody asks for.
* `fair_queue`: three classes, four callers, two places per class, three in all,
  so that either limit is met first; one direct use (`MaxDirect`).
* `bus_session`: two ROCs (one answers for the other), two transaction numbers (a
  stale one and a new one), a window of two ticks, an allowance, a probe window and
  a guard of one each, so that a probe's hold-off is shorter than a read's.
* `protection`: two groups of endpoints, one of them with two; a grace period
  longer than a poll; two panels of which one suffices, streaks of two, restored
  ones of age one; two conditions with triggers of two; two edges in the queue; two
  soft shutdowns.
* `rs485_service`: a delay of 3, a window of 4 more, pauses of 1 and 2 (so that
  retries meet the end of the window and a scan may outlast them), two datagrams;
  one panel that comes and goes, two users (one told, one not), two warnings; two
  probes in a scan.
* `station_clients`: two ramps to 0 or 3 of 3, with steps of 1 and 2, readings every
  one or two steps and a `Noise` of one, so that a reading may be below zero and above
  the scale; all three distances of a macro step occur; two archiving processes with three batches in all on two
  channels and a queue of one; two panels; two retries of the sensor and a streak of
  three; two hosts and two ports, two commands a host, a list ended by two failed
  tunnels.

Deadlock is checked in every run.

### Fairness

`LvhvServer`: the operating system runs the threads, so a handler that can test
its task or send, and a worker that can go on, does (weak fairness). Commands end
because their I/O has time limits. Nothing is assumed of clients, spurious
wakeups or restarts. `FairQueue`: a waiting caller looks again at least every
50 ms and a bus exchange is bounded by its timeouts (weak fairness of `Start`,
`LeaveClosed`, `Finish`, `DirectFinish`); nothing is assumed of deadlines,
disconnects or the stop. `Protection`: each process goes on and systemd restarts
one that has ended (`Restart=` in its unit); nothing is assumed of failures, kills,
the operator or the environment, and each property names the danger that lasts.
`Rs485Service`: the notification thread turns every 30 seconds.
`StationClients`: a ramp thread goes on and lvhv-server executes what it is sent
(`Going`). The other modules check safety only.

## Proofs

Everything is proved for all values of the constants, from the named assumptions
of the modules: every invariant and action property of the passing runs, 33 in
all, and the type invariants of `FairQueue`, `Protection` and `StationClients`, which
their runs leave out. The assumptions are what the code or the types of the constants give:
requests are commands and capacities positive (`ServerAssumption`); callers are
finitely many, classes distinct strings other than "none", limits positive
(`FairQueueAssumption`); a probe's window is no longer than a read's, and with
its guard no longer than the hold-off of a reservation (`BusSessionAssumption`;
55 ms against 7.1 s); at least one LV output (`NumOutputsAssumption`) and one bit
in a DAC setting (`HvDacAssumption`); the busy pause of power-on discovery is no
longer than the pause after an error (`PowerOnDiscoveryAssumption`; 0.25 s and 2 s);
a reboot pulse is shorter than a shutdown pulse (`PiHealthAssumption`); ramp steps
are positive and ordered (`HvRampAssumption`); a batch has samples
(`ArchiveAssumption`). The rest says that lists are sequences, that bounds are
natural numbers, and that names for "nobody" and the like are not the names of
processes or panels.

Hardly any of them is inductive as it stands. Each module says what has to be added
and why:

* **`LvhvServerProofs`.** `ServerInvariant` proves
  `IInv == TypeOK /\ NoDanglingTask /\ ExecutedOnce /\ ReplyAnswersRequest /\
  RightQueue /\ WaitedTask` inductive. The last two are the strengthening: a task
  is in the hands of the queue that its command is routed to, so that what a
  worker stores is the answer the handler is allowed to send; and a completed task
  that is still waited for holds that answer. `ExecutedOnce` is needed for
  `NoDanglingTask`: a second pointer to a completed task would outlive its wait.
  There is one lemma per action; the heap operators have lemmas of their own
  (a push adds one item or none, a pop removes exactly the root). The four
  properties follow.
* **`LvPowerProofs`.** `LvInvariant`. The properties speak of the latch of the
  expander, but a write sends the cached byte, so the invariant is about the cache:
  `Control` (where a command can be and with which output), `Written` (the cache
  has what was asked and the outputs of the command so far; the latch has the cache
  after a write that worked), `Directions` (the pins are outputs after a start that
  worked as a whole), `Enables` (the shared enable and the station reset as
  long as nothing has failed), `Acks` (what was acknowledged is in the cache, and
  nothing is acknowledged of an output under way). The five properties follow.
* **`HvDacProofs`.** `HvInvariant` follows the lines. `Lines` says what the cached
  byte and the pins show at each step, `Active` that the addressed chip has exactly
  the bits sent so far, `Chips` what any other chip holds: nothing when its sync
  line is high; when a failed transfer has left it low, the first bits of a setting
  attempted for it, with the next bit on the data line while the clock is high.
  Without the last part a later clock edge could complete a word that nobody asked
  for. The width is arbitrary, so the proof needs that powers of two double. That
  would be an induction, which is beyond the prover; it is drawn from the library's
  theorem on the number of subsets of a finite set.
* **`FairQueueProofs`.** `QueueInvariant` proves `IInv == TypeOK /\ OneOnTheBus /\
  TicketsAreWaiters /\ IsFiniteSet(Tickets)` inductive. Finiteness makes the
  cardinality of the tickets usable in the limit: adding a ticket adds one,
  removing one from the middle of a class removes one (lemmas on `Append`, `Tail`
  and `remove`). `QueueBoundedBypass` adds `BypassInv`: the turns that a request
  was passed over and those that may still come, its place in its class times the
  number of classes and the distance of its class from the last turn, are together
  no more than `per_client * N`. A turn of another class shortens the distance, a
  turn of its own moves the request up one place.
* **`BusSessionProofs`.** `BusInvariant` proves `IInv == TypeOK /\ AnswerIsFresh /\
  NoStaleId /\ HoldCovers /\ OutcomeAtEnd /\ RequestOut` inductive. `NoStaleId`
  (a reply still to come that has the number of the request that is out answers
  it) is what `AnswerIsFresh` needs when a reply is taken. `HoldCovers` (the
  hold-offs of the file and of the process both outlast the open window, unless its
  request left too late) is what
  `WindowIsWaitedOut` needs, and it must speak of the file because the next
  process has nothing else. `BusScanIsSound` adds `ScanInv`: the addresses below
  the next one are each in exactly one list, and a probe that can still time out
  has been sent.
* **`Rs485ServiceProofs`.** `ServiceInvariant` has one invariant per part.
  `PodInv`: the time since the last event is what delay and window have lost, and
  an event that came during a scan is still in the socket. `HistInv`: what each
  phase of `main` lets run, and that memory lacks of the warnings in the file only
  what was sent; that is the step simulation of `Outbox`
  (`HistWarningsAreKept`), in which every step of the part is an `Update`, a
  `Tell` or a stutter. `WebInv`: how many exchanges were sent and answered at each
  place in the handler, with which exceptions.
* **`ProtectionProofs`.** `ProtectionInvariant` relates what each monitor knows to
  the history of what it was shown: `WatchInv` (the outage timer never runs ahead of
  the time since every group answered), `RocInv` (streaks no longer than what was
  read and everybody who was told is remembered, in the process and, for as long as
  a streak would be restored, in the file, but for what happened since the save), `AlertsInv` (counts against polls, one
  more for the poll whose notification failed), `HealthInv` (an edge that waits on a
  line now in its worse state is of a line that got worse). None mentions the
  power, which the operator may change at any time.
* **`StationClientsProofs`.** `ClientsInvariant` has one invariant per part.
  `ArchiveInv` is the largest: for each process `WriterInv` (every batch made is
  queued, in hand or done with; no transaction was opened for one that is still to
  come; the transaction of the batch in hand is where the thread is; each id that
  was found is in a committed row, in the own transaction, or that transaction was
  rolled back), and for the database `Stored` (one transaction per batch, one that
  has the lock, rows only in that one, and none of a channel that has a row). The
  lock is needed for the last part only: while it is held no other transaction can
  commit a row. `WorkerInv` (what is on the connection is the answer to the
  question asked last; the list that a second block is appended to has six entries or
  an error among them; the gate is as old as it says; every parameter was read, is
  still to be read or has failed), `ViewInv` (the connection carries the question of
  the loop that has the lock), `SensorInv`, `TunnelInv` (a foreign listener on the
  port in use came there after the look), `RampInv` (one process at a time; after
  the one write that a stop or a trip has missed there is no other; while the ramp has
  the channel to itself the cache is never above the output and a write under way at
  most one step).

Each of these invariants was checked with TLC on the instance of its run before it
was proved. A few assumptions were made explicit on the way, which the models had
taken for granted: `Groups`, `Conditions` and `HostList` are sequences, the bound
`MaxEdges` is a natural number, no panel is called "PSU" or "none" and no process
"nobody".

Only model-checked: all liveness (`StoredAnswerIsSent`, `QueuedIsServed`,
`WaiterIsServed`, `StopDrains`, `DangerEndsInShutdown`, `WarningIsDelivered`,
`RampDownEnds`), which is beyond the prover.

## Plan

Done: the models above and the proofs of all their safety properties. Next, in this
order:

1. `PicoLink` and `TripLogic` (`pico_routines.c`, `SmartSwitch`): late USB answers,
   header and payload in two transfers, which channel a trip crowbars.
2. `Messages` and the frames of `FrameStream`: encode and decode over bounded
   messages.
3. An abstract request/reply service implemented by `LvhvServer`, an abstract bus
   lock implemented by `FairQueue`, each with its step simulation.

Seen while modelling and not stated as a property, because no document promises
otherwise: the sensor server waits 5 seconds for its sensor thread at a stop, less
than a sleep of it may last, and batches still queued then are lost;
`query_one_psu` of `v6_plot_all_pis.py` leaves its ssh running when the connection
through it fails; `run_one_shot` counts failed tunnels as consecutive across hosts
that failed otherwise, and commands for the health and sensor servers report a
failed tunnel themselves, so the exit status is 0.

## Not modelled

Beyond what the plan names: the GUI and the plots, and the formatting in the command
line (they show and keep nothing), the vendored BME680 driver (third party: a
reading works or fails), the protocol generator, the Pico boot utility, logging,
battery readings and event lists of the health server, and the access to buses,
pins and sockets, whose results are nondeterministic outcomes of the actions that
use them.
