-------------------------- MODULE Rs485ServiceProofs --------------------------
(***************************************************************************)
(* Rs485Service: what the threads around the bus promise, for any delays,  *)
(* any number of users, panels and probes.                                 *)
(*                                                                         *)
(* Each part has an invariant of its own and the parts never touch each    *)
(* other's variables, so the proofs are done part by part and put together *)
(* at the end.                                                             *)
(***************************************************************************)
EXTENDS Rs485Service, WellFoundedInduction, TLAPS

\* power_on_discovery: the time since the last event is what the delay and the
\* window have lost; a discovery runs only when it is due, and an event that
\* came in the middle of it is still in the socket.
PodInv ==
  /\ PodTypeOK
  /\ EventNotForgotten
  /\ pod.due # None => since + pod.due >= Delay
  /\ pod.expires >= 0 => since + pod.expires = Window
  /\ pod.pc = "power" => pod.due = 0 /\ checked <= Window
  /\ pod.pc = "scan" => pod.due = 0 /\ (owed = "yes" => sock > 0)

\* The life of main and what each phase lets run.
Phases ==
  /\ srv # "startup" => scan["startup"].pc = "none"
  /\ srv \in {"draining", "down"} => scan["power_on"].pc = "none"
  /\ srv = "down" => scan["http"].pc = "none" /\ mail.pc = "idle"

Owed(P) == UNION {{e.id} \X (Users \ e.delivered) : e \in P}

\* The notification thread, and what memory may have lost against the file:
\* only what was sent.
Mailing ==
  /\ mail.pc # "idle" => mail.copy # {}
  /\ mail.pc = "sent" => mail.user \in Users /\ <<Current.id, mail.user>> \in told
  /\ srv # "down" => Owed(disk.pending) \ Owed(data.pending) \subseteq told

HistInv == HistTypeOK /\ Phases /\ Mailing

\* What the status may say of the exchanges.
Honest(status) ==
  /\ status \in {404, 408, 409, 429} /\ web.op # "discover" => web.sent = 0
  /\ web.op = "recover-golden" =>
       /\ status = 400 => web.sent = 0
       /\ web.sent <= 1
  /\ status = 200 /\ web.op # "discover" => web.ok = web.sent /\ web.left = 0

\* A request at each step of its way.
WebInv ==
  /\ WebTypeOK
  /\ web.ok <= web.sent /\ web.sent + web.left <= Probes + 2
  /\ web.pc = "sent" => web.ok + 1 <= web.sent
  /\ web.op = "recover-golden" => web.sent + web.left <= 1
  /\ web.pc \in {"idle", "context", "route"} => web.sent = 0 /\ web.left = 0
  /\ web.pc \in {"turn", "bus"} => web.left > 0
  /\ web.pc = "turn" /\ web.op # "discover" => web.sent = 0
  /\ web.op # "discover" =>
       /\ web.pc \in {"bus", "convert"} => web.ok = web.sent
       /\ web.pc = "sent" => web.ok + 1 = web.sent
  /\ web.pc = "convert" => web.left = 0
  /\ web.pc = "raised" =>
       /\ web.exc # "none"
       /\ web.op # "discover" /\ web.exc \in {"QueueFull", "QueueExpired", "QueueCancelled",
                                             "BusyError"} => web.sent = 0
       /\ web.op = "recover-golden" =>
            /\ web.exc \in {"ValueError", "TypeError"} => web.sent = 0
            /\ web.exc \notin {"ArithmeticError", "NameError"}
  /\ web.pc \in {"answer", "rescue", "done"} => Honest(web.status)

ServiceInv == focus \in {"power_on", "history", "http"} /\ PodInv /\ HistInv /\ WebInv

-----------------------------------------------------------------------------
(* The power-on thread. *)

PodType == [pc : {"select", "step", "power", "scan"}, due : {None} \cup 0..(Delay + ErrorRetry),
            expires : {None} \cup -1..Window, spent : 0..ErrorRetry]

\* The constants, and the record of the thread by its fields.
LEMMA PodFacts ==
  /\ Delay \in Nat /\ RetrySeconds \in Nat /\ BusyRetry \in Nat /\ ErrorRetry \in Nat
  /\ BusyRetry <= ErrorRetry /\ SocketRoom \in Nat /\ SocketRoom > 0
  /\ None = -2 /\ Window = Delay + RetrySeconds /\ Late = Window + 1
  /\ 0 \in 0..ErrorRetry /\ Delay \in 0..(Delay + ErrorRetry) /\ Window \in -1..Window
  /\ Unscheduled \in PodType
  BY PowerOnDiscoveryAssumption DEF None, Window, Late, Unscheduled, PodType

LEMMA PodFields ==
  ASSUME PodInv
  PROVE  /\ pod \in PodType
         /\ pod.pc \in {"select", "step", "power", "scan"}
         /\ pod.due \in Int /\ (pod.due = None \/ 0 <= pod.due) /\ pod.due <= Delay + ErrorRetry
         /\ pod.expires \in Int /\ (pod.expires = None \/ -1 <= pod.expires)
         /\ pod.expires <= Window
         /\ pod.spent \in Nat /\ pod.spent <= ErrorRetry
         /\ pod.due = None <=> pod.expires = None
         /\ since \in Nat /\ since <= Late /\ checked \in Nat /\ sock \in Nat /\ sock <= SocketRoom
  BY PodFacts DEF PodInv, PodTypeOK, PodType

LEMMA SelectPod ==
  ASSUME PodInv, Select
  PROVE  PodInv'
  <1>1. pod.pc = "select" /\ sock' = 0 /\ volts' = volts /\ owed' = owed
        /\ checked' = checked
    BY DEF Select
  <1>2. CASE sock > 0
    <2>1. pod' = [pod EXCEPT !.pc = "step", !.due = Delay, !.expires = Window]
          /\ since' = 0
      BY <1>2, PodFields DEF Select, receive, PodType
    <2>2. /\ pod'.pc = "step" /\ pod'.due = Delay /\ pod'.expires = Window
          /\ pod' \in PodType
      <3>1. /\ pod \in PodType /\ 0 \in 0..ErrorRetry
            /\ Delay \in 0..(Delay + ErrorRetry) /\ Window \in -1..Window
        BY PodFields, PodFacts
      <3> QED
        BY <2>1, <3>1 DEF PodType
    <2>3. PodTypeOK'
      BY <1>1, <2>1, <2>2, PodFacts DEF PodInv, PodTypeOK, PodType
    <2> QED
      BY <1>1, <2>1, <2>2, <2>3, PodFacts DEF PodInv, EventNotForgotten
  <1>3. CASE ~(sock > 0)
    <2>1. pod' = [pod EXCEPT !.pc = "step"] /\ since' = since
      BY <1>3 DEF Select
    <2>2. /\ pod'.pc = "step" /\ pod'.due = pod.due /\ pod'.expires = pod.expires
          /\ pod' \in PodType
      <3>1. pod \in PodType /\ 0 \in 0..ErrorRetry
        BY PodFields, PodFacts
      <3> QED
        BY <2>1, <3>1 DEF PodType
    <2>3. PodTypeOK'
      BY <1>1, <2>1, <2>2, PodFacts DEF PodInv, PodTypeOK, PodType
    <2> QED
      BY <1>1, <1>3, <2>1, <2>2, <2>3, PodFacts, PodFields DEF PodInv, EventNotForgotten
  <1> QED
    BY <1>2, <1>3

LEMMA StepIdlePod ==
  ASSUME PodInv, StepIdle
  PROVE  PodInv'
  <1>1. /\ pod' = [pod EXCEPT !.pc = "select"]
        /\ sock' = sock /\ volts' = volts /\ since' = since /\ checked' = checked /\ owed' = owed
    BY DEF StepIdle
  <1>2. /\ pod'.pc = "select" /\ pod'.due = pod.due /\ pod'.expires = pod.expires
        /\ pod'.spent = pod.spent /\ pod' \in PodType
    BY <1>1, PodFields DEF PodType
  <1>3. PodTypeOK'
    BY <1>1, <1>2 DEF PodInv, PodTypeOK, PodType
  <1> QED
    BY <1>1, <1>2, <1>3 DEF PodInv, EventNotForgotten

\* Another attempt is scheduled from a step that was due.
LEMMA AgainPod ==
  ASSUME PodInv, NEW pause \in {BusyRetry, ErrorRetry}, pod' = Again(pause), pod.due = 0,
         sock' = sock, volts' = volts, since' = since, checked' = checked,
         owed' \in {"no", "yes", "scanning"}
  PROVE  PodInv'
  <1>1. /\ pod'.pc = "select" /\ pod'.due = (IF pause > pod.spent THEN pause - pod.spent ELSE 0)
        /\ pod'.expires = pod.expires /\ pod'.spent = 0
    BY PodFields DEF Again, PodType
  <1>2. pod'.due \in 0..ErrorRetry /\ pause \in Nat
    BY <1>1, PodFields, PodFacts
  <1>3. pod' \in PodType
    <2>1. (IF pause > pod.spent THEN pause - pod.spent ELSE 0) \in 0..(Delay + ErrorRetry)
      BY <1>1, <1>2, PodFacts
    <2>2. pod \in PodType /\ 0 \in 0..ErrorRetry
      BY PodFields, PodFacts
    <2>3. pod' = [pod EXCEPT !.pc = "select", !.spent = 0, !.due = pod'.due]
      BY <1>1, <2>2 DEF Again, PodType
    <2>4. pod'.due \in 0..(Delay + ErrorRetry)
      BY <1>1, <2>1
    <2> QED
      BY <2>2, <2>3, <2>4 DEF PodType
  <1>4. since >= Delay /\ pod.expires # None
    BY PodFields, PodFacts DEF PodInv
  <1>5. PodTypeOK'
    BY <1>1, <1>2, <1>3, <1>4, PodFacts DEF PodInv, PodTypeOK, PodType
  <1> QED
    BY <1>1, <1>2, <1>4, <1>5, PodFields, PodFacts DEF PodInv, EventNotForgotten

\* The request is given up with the thread back at select.
LEMMA UnscheduledPod ==
  ASSUME PodInv, pod' = Unscheduled, sock' = sock, volts' = volts, since' = since,
         checked' = checked, owed' \in {"no", "yes", "scanning"}, owed' = "no" \/ sock > 0
  PROVE  PodInv'
  <1>1. pod'.pc = "select" /\ pod'.due = None /\ pod'.expires = None /\ pod' \in PodType
    BY PodFacts DEF Unscheduled
  <1>2. PodTypeOK'
    BY <1>1 DEF PodInv, PodTypeOK, PodType
  <1> QED
    BY <1>1, <1>2, PodFacts DEF PodInv, EventNotForgotten

LEMMA StepPod ==
  ASSUME PodInv, StepDrops \/ StepAsks \/ PowerOff \/ PowerUnknown \/ StepDiscovers
  PROVE  PodInv'
  <1>1. CASE StepDrops \/ PowerOff
    <2>1. /\ pod' = Unscheduled /\ sock' = sock /\ volts' = volts /\ since' = since
          /\ checked' = checked /\ owed' = IF sock = 0 THEN "no" ELSE owed
      BY <1>1 DEF StepDrops, PowerOff
    <2>2. owed' \in {"no", "yes", "scanning"} /\ (owed' = "no" \/ sock > 0)
      BY <2>1, PodFields DEF PodInv, PodTypeOK
    <2> QED
      BY <2>1, <2>2, UnscheduledPod
  <1>2. CASE StepAsks
    <2>1. /\ pod' = [pod EXCEPT !.pc = "power", !.spent = 0] /\ pod.due = 0
          /\ pod.expires >= 0 /\ checked' = since
          /\ sock' = sock /\ volts' = volts /\ since' = since /\ owed' = owed
      BY <1>2 DEF StepAsks
    <2>2. /\ pod'.pc = "power" /\ pod'.due = pod.due /\ pod'.expires = pod.expires
          /\ pod'.spent = 0 /\ pod' \in PodType
      <3>1. pod \in PodType /\ 0 \in 0..ErrorRetry
        BY PodFields, PodFacts
      <3> QED
        BY <2>1, <3>1 DEF PodType
    <2>3. checked' <= Window
      BY <2>1, PodFields, PodFacts DEF PodInv
    <2>4. PodTypeOK'
      BY <2>1, <2>2 DEF PodInv, PodTypeOK, PodType
    <2> QED
      BY <2>1, <2>2, <2>3, <2>4, PodFields, PodFacts DEF PodInv, EventNotForgotten
  <1>3. CASE PowerUnknown
    <2>1. /\ pod' = Again(ErrorRetry) /\ pod.due = 0
          /\ sock' = sock /\ volts' = volts /\ since' = since /\ checked' = checked
          /\ owed' = owed
      BY <1>3 DEF PowerUnknown, PodInv
    <2>2. owed' \in {"no", "yes", "scanning"}
      BY <2>1 DEF PodInv, PodTypeOK
    <2> QED
      BY <2>1, <2>2, AgainPod
  <1>4. CASE StepDiscovers
    <2>1. /\ pod' = [pod EXCEPT !.pc = "scan"] /\ pod.due = 0
          /\ owed' = IF owed = "yes" /\ sock = 0 THEN "scanning" ELSE owed
          /\ sock' = sock /\ volts' = volts /\ since' = since /\ checked' = checked
      BY <1>4 DEF StepDiscovers, PodInv
    <2>2. /\ pod'.pc = "scan" /\ pod'.due = pod.due /\ pod'.expires = pod.expires
          /\ pod'.spent = pod.spent /\ pod' \in PodType
      BY <2>1, PodFields DEF PodType
    <2>3. PodTypeOK'
      BY <2>1, <2>2 DEF PodInv, PodTypeOK, PodType
    <2> QED
      BY <2>1, <2>2, <2>3, PodFields, PodFacts DEF PodInv, EventNotForgotten
  <1> QED
    BY <1>1, <1>2, <1>3, <1>4

LEMMA ScanPod ==
  ASSUME PodInv, ScanDone \/ ScanFails
  PROVE  PodInv'
  <1>1. pod.pc = "scan" /\ pod.due = 0 /\ (owed = "yes" => sock > 0)
        /\ owed \in {"no", "yes", "scanning"}
    BY DEF ScanDone, ScanFails, PodInv, PodTypeOK
  <1>2. CASE ScanDone
    <2>1. /\ pod' = Unscheduled /\ sock' = sock /\ volts' = volts /\ since' = since
          /\ checked' = checked /\ owed' = IF owed = "scanning" THEN "no" ELSE owed
      BY <1>2 DEF ScanDone
    <2> QED
      BY <1>1, <2>1, UnscheduledPod
  <1>3. CASE ScanFails
    <2>1. /\ \E pause \in {BusyRetry, ErrorRetry} : pod' = Again(pause)
          /\ sock' = sock /\ volts' = volts /\ since' = since
          /\ checked' = checked /\ owed' = IF owed = "scanning" THEN "yes" ELSE owed
      BY <1>3 DEF ScanFails
    <2> QED
      BY <1>1, <2>1, AgainPod
  <1> QED
    BY <1>2, <1>3

LEMMA TickPod ==
  ASSUME PodInv, Tick
  PROVE  PodInv'
  <1> DEFINE due == IF pod.due > 0 THEN pod.due - 1 ELSE pod.due
             expires == IF pod.expires > -1 THEN pod.expires - 1 ELSE pod.expires
             spent == IF pod.pc \in {"power", "scan"} /\ pod.spent < ErrorRetry
                        THEN pod.spent + 1 ELSE pod.spent
  <1>1. /\ pod' = [pod EXCEPT !.due = due, !.expires = expires, !.spent = spent]
        /\ since' = (IF since < Late THEN since + 1 ELSE since)
        /\ sock' = sock /\ volts' = volts /\ checked' = checked /\ owed' = owed
    BY DEF Tick, Down
  <1>2. /\ due \in {None} \cup 0..(Delay + ErrorRetry)
        /\ due = None <=> pod.due = None
        /\ pod.due = 0 => due = 0
    BY PodFields, PodFacts
  <1>3. /\ expires \in {None} \cup -1..Window
        /\ expires = None <=> pod.expires = None
    BY PodFields, PodFacts
  <1>4. spent \in 0..ErrorRetry
    BY PodFields, PodFacts
  <1>5. since' \in 0..Late
    BY <1>1, PodFields, PodFacts
  <1>6. due # None => since' + due >= Delay
    <2>1. pod.due # None => since + pod.due >= Delay
      BY DEF PodInv
    <2> QED
      BY <1>1, <2>1, PodFields, PodFacts
  <1>7. expires >= 0 => since' + expires = Window
    <2>1. pod.expires >= 0 => since + pod.expires = Window
      BY DEF PodInv
    <2> QED
      BY <1>1, <2>1, PodFields, PodFacts
  <1> HIDE DEF due, expires, spent
  <1>8. /\ pod'.pc = pod.pc /\ pod'.due = due /\ pod'.expires = expires /\ pod'.spent = spent
        /\ pod' \in PodType
    BY <1>1, <1>2, <1>3, <1>4, PodFields DEF PodType
  <1>9. PodTypeOK'
    BY <1>1, <1>2, <1>3, <1>5, <1>8, PodFields DEF PodInv, PodTypeOK, PodType
  <1> QED
    BY <1>1, <1>2, <1>6, <1>7, <1>8, <1>9 DEF PodInv, EventNotForgotten

LEMMA OtherPod ==
  ASSUME PodInv, PowerOnSent \/ PowerChanges \/ UNCHANGED podVars
  PROVE  PodInv'
  <1>1. CASE PowerOnSent
    BY <1>1, PodFields, PodFacts DEF PowerOnSent, PodInv, PodTypeOK, EventNotForgotten
  <1>2. CASE PowerChanges
    BY <1>2 DEF PowerChanges, PodInv, PodTypeOK, EventNotForgotten
  <1>3. CASE UNCHANGED podVars
    BY <1>3 DEF podVars, PodInv, PodTypeOK, EventNotForgotten
  <1> QED
    BY <1>1, <1>2, <1>3

LEMMA PodKeeps ==
  ASSUME PodInv, PodNext \/ UNCHANGED podVars
  PROVE  PodInv'
  BY SelectPod, StepIdlePod, StepPod, ScanPod, TickPod, OtherPod DEF PodNext, PodStep

LEMMA PodInitHolds == ASSUME PodInit PROVE PodInv
  <1>1. pod \in PodType /\ pod.pc = "select" /\ pod.due = None /\ pod.expires = None
    BY PodFacts DEF PodInit, Unscheduled
  <1>2. PodTypeOK
    BY <1>1, PodFacts DEF PodInit, PodTypeOK, PodType
  <1> QED
    BY <1>1, <1>2, PodFacts DEF PodInit, PodInv, EventNotForgotten

-----------------------------------------------------------------------------
(* The HTTP handler. *)

Raised == {"QueueFull", "QueueExpired", "QueueCancelled", "QueueClosed", "BusyError",
           "ResponseTimeout", "TimeoutError", "ROCError", "ValueError", "TypeError",
           "ArithmeticError", "OSError", "NameError"}

\* The clauses in their order: what each one catches and answers.
LEMMA ClauseFacts ==
  ASSUME NEW op
  PROVE  /\ DOMAIN Clauses(op) = 1..(IF op = "recover-golden" THEN 8 ELSE 9)
         /\ Clauses(op)[1][1] = {"QueueFull"} /\ Clauses(op)[1][2] = 429
         /\ Clauses(op)[2][1] = {"QueueExpired", "QueueCancelled"} /\ Clauses(op)[2][2] = 408
         /\ Clauses(op)[3][1] = {"QueueClosed"} /\ Clauses(op)[3][2] = 503
         /\ Clauses(op)[4][1] = {"BusyError"} /\ Clauses(op)[4][2] = 409
         /\ Clauses(op)[5][1] = {"TimeoutError"} /\ Clauses(op)[5][2] = 504
         /\ Clauses(op)[6][1] = {"ROCError"} /\ Clauses(op)[6][2] = 502
         /\ op = "recover-golden" =>
              /\ Clauses(op)[7][1] = {"ValueError", "TypeError"} /\ Clauses(op)[7][2] = 400
         /\ op # "recover-golden" =>
              /\ Clauses(op)[7][1] = {"ValueError", "ArithmeticError"} /\ Clauses(op)[7][2] = 400
              /\ Clauses(op)[9][1] = {"NameError", "TypeError"} /\ Clauses(op)[9][2] = 500
         /\ Clauses(op)[8][1] = {"OSError", "RuntimeError", "ImportError"} /\ Clauses(op)[8][2] = 503
  <1>1. CASE op = "recover-golden"
    <2>1. Clauses(op) = QueueClauses \o BusClauses \o
            <<<<{"ValueError", "TypeError"}, 400>>, ServerClause>>
      BY <1>1 DEF Clauses
    <2>2. DOMAIN Clauses(op) = 1..8
      BY <2>1 DEF QueueClauses, BusClauses, ServerClause
    <2>3. /\ Clauses(op)[1] = <<{"QueueFull"}, 429>>
          /\ Clauses(op)[2] = <<{"QueueExpired", "QueueCancelled"}, 408>>
          /\ Clauses(op)[3] = <<{"QueueClosed"}, 503>>
          /\ Clauses(op)[4] = <<{"BusyError"}, 409>>
          /\ Clauses(op)[5] = <<{"TimeoutError"}, 504>>
          /\ Clauses(op)[6] = <<{"ROCError"}, 502>>
          /\ Clauses(op)[7] = <<{"ValueError", "TypeError"}, 400>>
          /\ Clauses(op)[8] = <<{"OSError", "RuntimeError", "ImportError"}, 503>>
      BY <2>1 DEF QueueClauses, BusClauses, ServerClause
    <2> QED
      BY <1>1, <2>2, <2>3
  <1>2. CASE op # "recover-golden"
    <2>1. Clauses(op) = QueueClauses \o BusClauses \o
            <<<<{"ValueError", "ArithmeticError"}, 400>>, ServerClause,
              <<{"NameError", "TypeError"}, 500>>>>
      BY <1>2 DEF Clauses
    <2>2. DOMAIN Clauses(op) = 1..9
      BY <2>1 DEF QueueClauses, BusClauses, ServerClause
    <2>3. /\ Clauses(op)[1] = <<{"QueueFull"}, 429>>
          /\ Clauses(op)[2] = <<{"QueueExpired", "QueueCancelled"}, 408>>
          /\ Clauses(op)[3] = <<{"QueueClosed"}, 503>>
          /\ Clauses(op)[4] = <<{"BusyError"}, 409>>
          /\ Clauses(op)[5] = <<{"TimeoutError"}, 504>>
          /\ Clauses(op)[6] = <<{"ROCError"}, 502>>
          /\ Clauses(op)[7] = <<{"ValueError", "ArithmeticError"}, 400>>
          /\ Clauses(op)[8] = <<{"OSError", "RuntimeError", "ImportError"}, 503>>
          /\ Clauses(op)[9] = <<{"NameError", "TypeError"}, 500>>
      BY <2>1 DEF QueueClauses, BusClauses, ServerClause
    <2> QED
      BY <1>2, <2>2, <2>3
  <1> QED
    BY <1>1, <1>2

\* An exception ends in the first clause that catches it.
LEMMA FirstClause ==
  ASSUME NEW op, NEW e, NEW k \in DOMAIN Clauses(op), DOMAIN Clauses(op) \subseteq Nat,
         Clauses(op)[k][1] \cap Classes(e) # {},
         \A j \in DOMAIN Clauses(op) : j < k => Clauses(op)[j][1] \cap Classes(e) = {}
  PROVE  Caught(op, e) = Clauses(op)[k][2]
  <1> DEFINE catches == {i \in DOMAIN Clauses(op) : Clauses(op)[i][1] \cap Classes(e) # {}}
             first == CHOOSE i \in catches : \A j \in catches : i <= j
  <1>1. k \in catches /\ \A j \in catches : k <= j
    OBVIOUS
  <1>2. first \in catches /\ \A j \in catches : first <= j
    BY <1>1, Zenon
  <1>3. catches \subseteq Nat
    OBVIOUS
  <1>4. first = k
    <2> HIDE DEF catches, first
    <2> QED
      BY <1>1, <1>2, <1>3
  <1>5. Caught(op, e) = Clauses(op)[first][2]
    BY Zenon DEF Caught
  <1> HIDE DEF first, catches
  <1> QED
    BY <1>4, <1>5

\* The status each exception ends in.
LEMMA CaughtIs ==
  ASSUME NEW op, NEW e \in Raised,
         op = "recover-golden" => e \notin {"ArithmeticError", "NameError"}
  PROVE  /\ Caught(op, e) \in {400, 408, 409, 429, 500, 502, 503, 504}
         /\ Caught(op, e) = 408 => e \in {"QueueExpired", "QueueCancelled"}
         /\ Caught(op, e) = 409 => e = "BusyError"
         /\ Caught(op, e) = 429 => e = "QueueFull"
         /\ op = "recover-golden" /\ Caught(op, e) = 400 => e \in {"ValueError", "TypeError"}
  <1> DEFINE C(i) == Clauses(op)[i]
             Catch(i) == C(i)[1] \cap Classes(e) # {}
  <1>1. /\ DOMAIN Clauses(op) \subseteq Nat /\ \A i \in 1..8 : i \in DOMAIN Clauses(op)
        /\ op # "recover-golden" => 9 \in DOMAIN Clauses(op)
        /\ \A i \in DOMAIN Clauses(op) : i \in 1..9
    <2>1. DOMAIN Clauses(op) = 1..(IF op = "recover-golden" THEN 8 ELSE 9)
      BY ClauseFacts
    <2> QED
      BY <2>1
  <1>2. /\ C(1)[1] = {"QueueFull"} /\ C(1)[2] = 429
        /\ C(2)[1] = {"QueueExpired", "QueueCancelled"} /\ C(2)[2] = 408
        /\ C(3)[1] = {"QueueClosed"} /\ C(3)[2] = 503
        /\ C(4)[1] = {"BusyError"} /\ C(4)[2] = 409
        /\ C(5)[1] = {"TimeoutError"} /\ C(5)[2] = 504
        /\ C(6)[1] = {"ROCError"} /\ C(6)[2] = 502
        /\ C(8)[1] = {"OSError", "RuntimeError", "ImportError"} /\ C(8)[2] = 503
    BY ClauseFacts
  <1>3. op = "recover-golden" => C(7)[1] = {"ValueError", "TypeError"} /\ C(7)[2] = 400
    BY ClauseFacts
  <1>4. op # "recover-golden" => /\ C(7)[1] = {"ValueError", "ArithmeticError"} /\ C(7)[2] = 400
                                 /\ C(9)[1] = {"NameError", "TypeError"} /\ C(9)[2] = 500
    BY ClauseFacts
  <1>5. ASSUME NEW k \in 1..9, k \in DOMAIN Clauses(op), Catch(k),
               \A j \in 1..9 : j < k => ~Catch(j)
        PROVE  Caught(op, e) = C(k)[2]
    BY <1>1, <1>5, FirstClause
  <1> HIDE DEF C
  <1>6. CASE e = "QueueFull"
    <2>1. Classes(e) = {"QueueFull", "BusyError", "RuntimeError"}
      BY <1>6 DEF Classes
    <2>2. Catch(1)
      BY <1>2, <1>3, <1>4, <1>6, <2>1
    <2> HIDE DEF Catch
    <2>3. Caught(op, e) = C(1)[2]
      BY <1>1, <1>5, <1>6, <2>2
    <2> QED
      BY <1>2, <1>3, <1>4, <1>6, <2>3
  <1>7. CASE e \in {"QueueExpired", "QueueCancelled"}
    <2>1. e \in Classes(e) /\ Classes(e) \subseteq {e, "TimeoutError", "OSError", "RuntimeError"}
      BY <1>7 DEF Classes
    <2>2. Catch(2) /\ ~Catch(1)
      BY <1>2, <1>3, <1>4, <1>7, <2>1
    <2> HIDE DEF Catch
    <2>3. Caught(op, e) = C(2)[2]
      BY <1>1, <1>5, <1>7, <2>2
    <2> QED
      BY <1>2, <1>3, <1>4, <1>7, <2>3
  <1>8. CASE e = "QueueClosed"
    <2>1. Classes(e) = {"QueueClosed", "RuntimeError"}
      BY <1>8 DEF Classes
    <2>2. Catch(3) /\ ~Catch(1) /\ ~Catch(2)
      BY <1>2, <1>3, <1>4, <1>8, <2>1
    <2> HIDE DEF Catch
    <2>3. Caught(op, e) = C(3)[2]
      BY <1>1, <1>5, <1>8, <2>2
    <2> QED
      BY <1>2, <1>3, <1>4, <1>8, <2>3
  <1>9. CASE e = "BusyError"
    <2>1. Classes(e) = {"BusyError", "RuntimeError"}
      BY <1>9 DEF Classes
    <2>2. Catch(4) /\ ~Catch(1) /\ ~Catch(2) /\ ~Catch(3)
      BY <1>2, <1>3, <1>4, <1>9, <2>1
    <2> HIDE DEF Catch
    <2>3. Caught(op, e) = C(4)[2]
      BY <1>1, <1>5, <1>9, <2>2
    <2> QED
      BY <1>2, <1>3, <1>4, <1>9, <2>3
  <1>10. CASE e \in {"ResponseTimeout", "TimeoutError"}
    <2>1. Classes(e) = {e, "TimeoutError", "OSError"}
      BY <1>10 DEF Classes
    <2>2. Catch(5) /\ ~Catch(1) /\ ~Catch(2) /\ ~Catch(3) /\ ~Catch(4)
      BY <1>2, <1>3, <1>4, <1>10, <2>1
    <2> HIDE DEF Catch
    <2>3. Caught(op, e) = C(5)[2]
      BY <1>1, <1>5, <1>10, <2>2
    <2> QED
      BY <1>2, <1>3, <1>4, <1>10, <2>3
  <1>11. CASE e = "ROCError"
    <2>1. Classes(e) = {"ROCError", "RuntimeError"}
      BY <1>11 DEF Classes
    <2>2. Catch(6) /\ ~Catch(1) /\ ~Catch(2) /\ ~Catch(3) /\ ~Catch(4) /\ ~Catch(5)
      BY <1>2, <1>3, <1>4, <1>11, <2>1
    <2> HIDE DEF Catch
    <2>3. Caught(op, e) = C(6)[2]
      BY <1>1, <1>5, <1>11, <2>2
    <2> QED
      BY <1>2, <1>3, <1>4, <1>11, <2>3
  <1>12. CASE \/ e = "ValueError" \/ (e = "TypeError" /\ op = "recover-golden")
              \/ e = "ArithmeticError"
    <2>1. Classes(e) = {e}
      BY <1>12 DEF Classes
    <2>2. Catch(7) /\ ~Catch(1) /\ ~Catch(2) /\ ~Catch(3) /\ ~Catch(4) /\ ~Catch(5) /\ ~Catch(6)
      BY <1>2, <1>3, <1>4, <1>12, <2>1
    <2> HIDE DEF Catch
    <2>3. Caught(op, e) = C(7)[2]
      BY <1>1, <1>5, <1>12, <2>2
    <2> QED
      BY <1>2, <1>3, <1>4, <1>12, <2>3
  <1>13. CASE e = "OSError"
    <2>1. Classes(e) = {"OSError"}
      BY <1>13 DEF Classes
    <2>2. Catch(8) /\ ~Catch(1) /\ ~Catch(2) /\ ~Catch(3) /\ ~Catch(4)
          /\ ~Catch(5) /\ ~Catch(6) /\ ~Catch(7)
      BY <1>2, <1>3, <1>4, <1>13, <2>1
    <2> HIDE DEF Catch
    <2>3. Caught(op, e) = C(8)[2]
      BY <1>1, <1>5, <1>13, <2>2
    <2> QED
      BY <1>2, <1>3, <1>4, <1>13, <2>3
  <1>14. CASE op # "recover-golden" /\ e \in {"NameError", "TypeError"}
    <2>1. Classes(e) = {e}
      BY <1>14 DEF Classes
    <2>2. Catch(9) /\ ~Catch(1) /\ ~Catch(2) /\ ~Catch(3) /\ ~Catch(4)
          /\ ~Catch(5) /\ ~Catch(6) /\ ~Catch(7) /\ ~Catch(8)
      BY <1>2, <1>3, <1>4, <1>14, <2>1
    <2> HIDE DEF Catch
    <2>3. Caught(op, e) = C(9)[2]
      BY <1>1, <1>5, <1>14, <2>2
    <2> QED
      BY <1>2, <1>3, <1>4, <1>14, <2>3
  <1> QED
    BY <1>6, <1>7, <1>8, <1>9, <1>10, <1>11, <1>12, <1>13, <1>14 DEF Raised

WebPcs == {"idle", "context", "route", "turn", "bus", "sent", "convert", "raised",
           "answer", "rescue", "done"}
WebType == [pc : WebPcs, op : Ops, left : 0..(Probes + 2), sent : 0..(Probes + 2),
            ok : 0..(Probes + 2), exc : {"none"} \cup Raised, status : Statuses \cup {0}]

\* The request by its fields.
LEMMA WebFields ==
  ASSUME WebInv
  PROVE  /\ web \in WebType /\ Probes \in Nat /\ Probes > 0
         /\ web.pc \in WebPcs /\ web.op \in Ops
         /\ web.left \in Nat /\ web.left <= Probes + 2
         /\ web.sent \in Nat /\ web.sent <= Probes + 2
         /\ web.ok \in Nat /\ web.ok <= Probes + 2
  BY HttpFrontAssumption DEF WebInv, WebTypeOK, WebType, WebPcs, Raised

\* The type, for a request of which the provers know the fields.
LEMMA WebTypeKept ==
  ASSUME web' \in WebType
  PROVE  WebTypeOK'
  BY DEF WebType, WebTypeOK, WebPcs, Raised

\* Back to idle.
LEMMA IdleWeb ==
  ASSUME WebInv, web' = Idle
  PROVE  WebInv'
  <1>1. /\ web'.pc = "idle" /\ web'.op = "unknown" /\ web'.left = 0 /\ web'.sent = 0
        /\ web'.ok = 0
    BY DEF Idle
  <1>2. web' \in WebType
    BY WebFields DEF Idle, WebType, WebPcs, Ops
  <1> QED
    BY <1>1, <1>2, WebTypeKept, WebFields DEF WebInv

\* A step that moves the request on without a word to the bus.
LEMMA ConnectWeb ==
  ASSUME WebInv, Connect \/ InContext \/ Routed \/ Turn
  PROVE  WebInv'
  <1>1. CASE Connect
    <2>1. PICK op \in Ops : web' = [Idle EXCEPT !.pc = "context", !.op = op]
      BY <1>1 DEF Connect
    <2>2. /\ web'.pc = "context" /\ web'.op = op /\ web'.left = 0 /\ web'.sent = 0
          /\ web'.ok = 0
      BY <2>1 DEF Idle
    <2>3. web' \in WebType
      <3>1. 0 \in 0..(Probes + 2)
        BY WebFields
      <3>2. web' = [pc |-> "context", op |-> op, left |-> 0, sent |-> 0, ok |-> 0,
                    exc |-> "none", status |-> 0]
        BY <2>1 DEF Idle
      <3> QED
        BY <3>1, <3>2 DEF WebType, WebPcs
    <2> QED
      BY <2>2, <2>3, WebTypeKept, WebFields DEF WebInv
  <1>2. CASE InContext
    <2>1. web.pc = "context" /\ web' = [web EXCEPT !.pc = "route"]
      BY <1>2 DEF InContext
    <2>2. web' = [web EXCEPT !.pc = web'.pc] /\ web'.pc = "route" /\ web' \in WebType
          /\ web'.op = web.op /\ web'.left = web.left /\ web'.sent = web.sent /\ web'.ok = web.ok
      BY <2>1, WebFields DEF WebType, WebPcs
    <2> QED
      BY <2>1, <2>2, WebTypeKept DEF WebInv
  <1>3. CASE Turn
    <2>1. web.pc = "turn" /\ web' = [web EXCEPT !.pc = "bus"]
      BY <1>3 DEF Turn
    <2>2. web'.pc = "bus" /\ web' \in WebType
          /\ web'.op = web.op /\ web'.left = web.left /\ web'.sent = web.sent /\ web'.ok = web.ok
      BY <2>1, WebFields DEF WebType, WebPcs
    <2>3. web.op # "discover" => web.ok = web.sent
      BY <2>1, WebFields DEF WebInv
    <2> QED
      BY <2>1, <2>2, <2>3, WebTypeKept DEF WebInv
  <1>4. CASE Routed
    <2>1. PICK n \in Exchanges(web.op) \ {0} :
            web.pc = "route" /\ web' = [web EXCEPT !.pc = "turn", !.left = n]
      BY <1>4 DEF Routed
    <2>2. n \in Nat /\ n > 0 /\ n <= Probes + 2 /\ (web.op = "recover-golden" => n = 1)
      <3>1. n \in {Probes, 1, 2}
        BY <2>1, WebFields DEF Exchanges, Ops
      <3>2. web.op = "recover-golden" => n = 1
        BY <2>1 DEF Exchanges
      <3> QED
        BY <3>1, <3>2, WebFields
    <2>3. n \in 0..(Probes + 2)
      BY <2>2, WebFields
    <2>4. web'.pc = "turn" /\ web' \in WebType
          /\ web'.op = web.op /\ web'.left = n /\ web'.sent = web.sent /\ web'.ok = web.ok
      BY <2>1, <2>3, WebFields DEF WebType, WebPcs
    <2> QED
      BY <2>1, <2>2, <2>4, WebTypeKept, WebFields DEF WebInv
  <1> QED
    BY <1>1, <1>2, <1>3, <1>4

\* Raising leaves the exchanges as they are; the exceptions that stand for
\* "nothing was sent" may be raised only where that is so.
LEMMA RaiseWeb ==
  ASSUME WebInv, NEW e \in Raised, Raise(e),
         web.op # "discover" /\ e \in {"QueueFull", "QueueExpired", "QueueCancelled", "BusyError"}
           => web.sent = 0,
         web.op = "recover-golden" => /\ e \in {"ValueError", "TypeError"} => web.sent = 0
                                      /\ e \notin {"ArithmeticError", "NameError"}
  PROVE  WebInv'
  <1>1. web' = [web EXCEPT !.pc = "raised", !.exc = e]
    BY DEF Raise
  <1>2. /\ web'.pc = "raised" /\ web'.exc = e /\ web' \in WebType
        /\ web'.op = web.op /\ web'.left = web.left /\ web'.sent = web.sent /\ web'.ok = web.ok
    BY <1>1, WebFields DEF WebType, WebPcs
  <1>3. e # "none"
    BY DEF Raised
  <1> QED
    BY <1>2, <1>3, WebTypeKept DEF WebInv

\* The actions that end in an exception.
LEMMA RaisingWeb ==
  ASSUME WebInv, NoTurn \/ NotReserved \/ BusFails \/ NotConverted
  PROVE  WebInv'
  <1>1. CASE NoTurn
    <2>1. web.pc = "turn" /\ \E e \in {"QueueFull", "QueueExpired", "QueueCancelled",
                                       "QueueClosed", "BusyError"} : Raise(e)
      BY <1>1 DEF NoTurn
    <2>2. web.op # "discover" => web.sent = 0
      BY <2>1 DEF WebInv
    <2> QED
      BY <2>1, <2>2, RaiseWeb DEF Raised
  <1>2. CASE NotReserved
    BY <1>2, RaiseWeb DEF NotReserved, Raised
  <1>3. CASE BusFails
    BY <1>3, RaiseWeb DEF BusFails, Raised
  <1>4. CASE NotConverted
    BY <1>4, RaiseWeb DEF NotConverted, Raised
  <1> QED
    BY <1>1, <1>2, <1>3, <1>4

\* An answer of the try block.
LEMMA AnswerWeb ==
  ASSUME WebInv, NEW status \in {200, 400, 404},
         web' = [web EXCEPT !.pc = "answer", !.status = status], Honest(status)
  PROVE  WebInv'
  <1>1. /\ web'.pc = "answer" /\ web'.status = status /\ web' \in WebType
        /\ web'.op = web.op /\ web'.left = web.left /\ web'.sent = web.sent /\ web'.ok = web.ok
    <2>1. web \in WebType /\ status \in Statuses \cup {0} /\ "answer" \in WebPcs
      BY WebFields DEF Statuses, WebPcs
    <2> QED
      BY <2>1 DEF WebType
  <1>2. Honest(web.status)'
    BY <1>1 DEF Honest
  <1> QED
    BY <1>1, <1>2, WebTypeKept DEF WebInv

LEMMA AnsweringWeb ==
  ASSUME WebInv, BadContext \/ Refused \/ Local \/ Converted
  PROVE  WebInv'
  <1>1. web.pc \in {"context", "route"} => web.sent = 0 /\ web.left = 0 /\ web.ok = 0
    BY WebFields DEF WebInv
  <1>2. CASE BadContext
    BY <1>1, <1>2, AnswerWeb DEF BadContext, Honest
  <1>3. CASE Local
    BY <1>1, <1>3, AnswerWeb DEF Local, Honest
  <1>4. CASE Converted
    <2>1. web.pc = "convert" /\ web' = [web EXCEPT !.pc = "answer", !.status = 200]
      BY <1>4 DEF Converted
    <2>2. Honest(200)
      BY <2>1, WebFields DEF WebInv, Honest
    <2> QED
      BY <2>1, <2>2, AnswerWeb
  <1>5. CASE Refused
    <2>1. web.pc = "route" /\ web.sent = 0
      BY <1>1, <1>5 DEF Refused
    <2>2. CASE web.op = "unknown" /\ web' = [web EXCEPT !.pc = "answer", !.status = 404]
      BY <1>1, <2>1, <2>2, AnswerWeb DEF Honest
    <2>3. CASE \E e \in {"ValueError", "TimeoutError", "OSError", "BusyError"} : Raise(e)
      BY <2>1, <2>3, RaiseWeb DEF Raised
    <2> QED
      BY <1>5, <2>2, <2>3 DEF Refused
  <1> QED
    BY <1>2, <1>3, <1>4, <1>5

LEMMA TransmitWeb ==
  ASSUME WebInv, Transmit
  PROVE  WebInv'
  <1>1. web.pc = "bus" /\ web' = [web EXCEPT !.pc = "sent", !.sent = @ + 1, !.left = @ - 1]
    BY DEF Transmit
  <1>2. web.sent + 1 \in 0..(Probes + 2) /\ web.left - 1 \in 0..(Probes + 2) /\ web.left > 0
    BY <1>1, WebFields DEF WebInv
  <1>3. /\ web'.pc = "sent" /\ web' \in WebType /\ web'.op = web.op
        /\ web'.left = web.left - 1 /\ web'.sent = web.sent + 1 /\ web'.ok = web.ok
    BY <1>1, <1>2, WebFields DEF WebType, WebPcs
  <1>4. /\ web.ok <= web.sent /\ web.sent + web.left <= Probes + 2
        /\ web.op = "recover-golden" => web.sent + web.left <= 1
        /\ web.op # "discover" => web.ok = web.sent
    BY <1>1 DEF WebInv
  <1>5. /\ web'.ok <= web'.sent /\ web'.sent + web'.left <= Probes + 2
        /\ web'.op = "recover-golden" => web'.sent + web'.left <= 1
        /\ web'.op # "discover" => web'.ok + 1 = web'.sent
        /\ web'.ok + 1 <= web'.sent
    BY <1>3, <1>4, WebFields
  <1> QED
    BY <1>3, <1>5, WebTypeKept DEF WebInv

\* After an exchange: the next one, or the conversion.
LEMMA ExchangedWeb ==
  ASSUME WebInv, web.pc = "sent", NEW answered \in BOOLEAN, Exchanged(answered),
         web.op # "discover" => answered
  PROVE  WebInv'
  <1> DEFINE ok == IF answered THEN web.ok + 1 ELSE web.ok
             pc == IF web.left = 0 THEN "convert" ELSE IF web.op = "discover" THEN "turn" ELSE "bus"
  <1>1. web' = [web EXCEPT !.ok = ok, !.pc = pc]
    BY DEF Exchanged
  <1>2. ok \in 0..(Probes + 2) /\ ok <= web.sent
    BY WebFields DEF WebInv
  <1>3. pc \in WebPcs
    BY DEF WebPcs
  <1>4. web.op # "discover" => ok = web.sent
    BY WebFields DEF WebInv
  <1>5. web.left # 0 => web.left > 0
    BY WebFields
  <1> HIDE DEF ok
  <1>6. /\ web' \in WebType /\ web'.op = web.op /\ web'.pc = pc
        /\ web'.left = web.left /\ web'.sent = web.sent /\ web'.ok = ok
    BY <1>1, <1>2, <1>3, WebFields DEF WebType
  <1> QED
    BY <1>2, <1>4, <1>5, <1>6, WebTypeKept DEF WebInv

\* What handler code makes of an exception.
LEMMA HandleWeb ==
  ASSUME WebInv, Handle
  PROVE  WebInv'
  <1> DEFINE status == Caught(web.op, web.exc)
  <1>1. web.pc = "raised" /\ web' = [web EXCEPT !.pc = "rescue", !.status = status, !.exc = "none"]
    BY DEF Handle
  <1>2. /\ web.exc \in Raised
        /\ web.op = "recover-golden" => web.exc \notin {"ArithmeticError", "NameError"}
    BY <1>1, WebFields DEF WebInv, WebType
  <1>3. /\ status \in {400, 408, 409, 429, 500, 502, 503, 504}
        /\ status = 408 => web.exc \in {"QueueExpired", "QueueCancelled"}
        /\ status = 409 => web.exc = "BusyError"
        /\ status = 429 => web.exc = "QueueFull"
        /\ web.op = "recover-golden" /\ status = 400 => web.exc \in {"ValueError", "TypeError"}
    BY <1>2, CaughtIs
  <1> HIDE DEF status
  <1>4. /\ web' \in WebType /\ web'.op = web.op /\ web'.pc = "rescue" /\ web'.status = status
        /\ web'.left = web.left /\ web'.sent = web.sent /\ web'.ok = web.ok
    <2>1. web \in WebType /\ status \in Statuses \cup {0} /\ "rescue" \in WebPcs
      BY <1>3, WebFields DEF Statuses, WebPcs
    <2> QED
      BY <1>1, <2>1 DEF WebType
  <1>5. web.op = "recover-golden" => web.sent <= 1
    BY WebFields DEF WebInv
  <1>6. Honest(status)
    BY <1>1, <1>3, <1>5 DEF Honest, WebInv
  <1>7. Honest(web.status)'
    BY <1>4, <1>6 DEF Honest
  <1> QED
    BY <1>4, <1>7, WebTypeKept DEF WebInv

LEMMA ReplyWeb ==
  ASSUME WebInv, Reply \/ ReplyFails \/ Disconnect
  PROVE  WebInv'
  <1>1. CASE Reply
    <2>1. web.pc \in {"answer", "rescue"} /\ web' = [web EXCEPT !.pc = "done"]
      BY <1>1 DEF Reply
    <2>2. /\ web' \in WebType /\ web'.op = web.op /\ web'.pc = "done" /\ web'.status = web.status
          /\ web'.left = web.left /\ web'.sent = web.sent /\ web'.ok = web.ok
      BY <2>1, WebFields DEF WebType, WebPcs
    <2>3. Honest(web.status)'
      BY <2>1, <2>2 DEF WebInv, Honest
    <2> QED
      BY <2>2, <2>3, WebTypeKept DEF WebInv
  <1>2. CASE ReplyFails
    <2>1. CASE web' = Idle
      BY <2>1, IdleWeb
    <2>2. CASE \E e \in {"OSError", "TimeoutError"} : Raise(e)
      BY <2>2, RaiseWeb DEF Raised
    <2> QED
      BY <1>2, <2>1, <2>2 DEF ReplyFails
  <1>3. CASE Disconnect
    BY <1>3, IdleWeb DEF Disconnect
  <1> QED
    BY <1>1, <1>2, <1>3

LEMMA AnsweredWeb ==
  ASSUME WebInv, Answered \/ NotAnswered
  PROVE  WebInv'
  <1>1. web.pc = "sent"
    BY DEF Answered, NotAnswered
  <1>2. CASE Answered
    BY <1>1, <1>2, ExchangedWeb DEF Answered
  <1>3. CASE NotAnswered /\ web.op = "discover"
    BY <1>1, <1>3, ExchangedWeb DEF NotAnswered
  <1>4. CASE NotAnswered /\ web.op # "discover"
    BY <1>4, RaiseWeb DEF NotAnswered, Raised
  <1> QED
    BY <1>2, <1>3, <1>4

LEMMA WebKeeps ==
  ASSUME WebInv, WebNext \/ UNCHANGED web
  PROVE  WebInv'
  <1>1. CASE WebNext
    BY <1>1, ConnectWeb, RaisingWeb, AnsweringWeb, TransmitWeb, HandleWeb, ReplyWeb, AnsweredWeb
       DEF WebNext
  <1>2. CASE UNCHANGED web
    BY <1>2 DEF WebInv, WebTypeOK, Honest
  <1> QED
    BY <1>1, <1>2

LEMMA WebInitHolds == ASSUME WebInit PROVE WebInv
  <1>1. /\ web.pc = "idle" /\ web.op = "unknown" /\ web.left = 0 /\ web.sent = 0 /\ web.ok = 0
    BY DEF WebInit, Idle
  <1>2. WebTypeOK
    BY HttpFrontAssumption DEF WebInit, Idle, WebTypeOK, Ops
  <1> QED
    BY <1>1, <1>2, HttpFrontAssumption DEF WebInv

-----------------------------------------------------------------------------
(* Discoveries, their history and its notifications. *)

ScanPcs == {"none", "due", "wait", "bus", "after"}
ScanType == [Callers -> [pc : ScanPcs, before : BOOLEAN]]
MailType == [pc : {"idle", "send", "sent"}, copy : SUBSET Warning, user : Users \cup {"nobody"}]
Messages == (1..MaxWarnings) \X Users

\* What a step may do to the file: nothing while something is sent, and
\* otherwise it drops only what was sent before.
FileStep ==
  \/ told' = told /\ Owed(disk.pending) \ Owed(disk'.pending) \subseteq told
  \/ disk' = disk /\ \E m \in Messages : told' = told \cup {m}

LEMMA LeastNumber ==
  ASSUME NEW S \in SUBSET Nat, S # {}
  PROVE  \E n \in S : \A m \in S : n <= m
  <1>1. \A m, n \in Nat : <<m, n>> \in OpToRel(<, Nat) <=> m < n
    BY DEF OpToRel
  <1>2. \E n \in S : \A m \in S : ~(<<m, n>> \in OpToRel(<, Nat))
    BY NatLessThanWellFounded, WFMin
  <1>3. \E n \in S : \A m \in S : ~(m < n)
    BY <1>1, <1>2, Zenon
  <1> QED
    BY <1>3

\* The warning that the notification thread is at is one of its copy.
LEMMA CurrentFacts ==
  ASSUME mail.copy \in SUBSET Warning, mail.copy # {}
  PROVE  /\ Current \in mail.copy /\ Current \in Warning
         /\ Current.id \in 1..MaxWarnings /\ Current.delivered \subseteq Users
  <1> DEFINE ids == {e.id : e \in mail.copy}
  <1>1. ids \in SUBSET Nat /\ ids # {}
    BY DiscoveryHistoryAssumption DEF Warning
  <1>2. PICK n \in ids : \A m \in ids : n <= m
    <2> HIDE DEF ids
    <2> QED
      BY <1>1, LeastNumber
  <1>3. \E e \in mail.copy : \A f \in mail.copy : e.id <= f.id
    BY <1>2
  <1>4. Current \in mail.copy
    BY <1>3, Zenon DEF Current
  <1> QED
    BY <1>4 DEF Warning

LEMMA OwedFacts ==
  ASSUME NEW P
  PROVE  \A m : m \in Owed(P) <=> \E e \in P : \E u \in Users \ e.delivered : m = <<e.id, u>>
  BY DEF Owed

LEMMA HistFields ==
  ASSUME HistInv
  PROVE  /\ srv \in {"down", "startup", "serving", "joining", "draining"}
         /\ closing \in BOOLEAN /\ powered \in BOOLEAN /\ scan \in ScanType
         /\ data \in DataType /\ disk \in DataType /\ mail \in MailType
         /\ made \in Nat /\ MaxWarnings \in Nat /\ made <= MaxWarnings
         /\ told \subseteq Messages /\ mail.copy \in SUBSET Warning
  BY DiscoveryHistoryAssumption
     DEF HistInv, HistTypeOK, ScanType, ScanPcs, MailType, Messages

\* The type of the next state, from those of its parts.
LEMMA HistTypeKept ==
  ASSUME HistInv,
         srv' \in {"down", "startup", "serving", "joining", "draining"},
         closing' \in BOOLEAN, powered' \in BOOLEAN, scan' \in ScanType,
         data' \in DataType, disk' \in DataType, mail' \in MailType,
         made' \in 0..MaxWarnings, told' \subseteq Messages
  PROVE  HistTypeOK'
  BY DEF HistTypeOK, ScanType, ScanPcs, MailType, Messages

\* A step of a discovery that leaves the history alone.
LEMMA ScanOnlyHist ==
  ASSUME HistInv, scan' \in ScanType, Phases',
         srv' \in {"down", "startup", "serving", "joining", "draining"},
         srv' # "down" => srv # "down",
         UNCHANGED <<closing, powered, data, disk, mail, made, told>>
  PROVE  HistInv' /\ FileStep
  <1>1. HistTypeOK'
    BY HistFields, HistTypeKept
  <1>2. Current' = Current
    BY Zenon DEF Current
  <1>3. Mailing'
    BY <1>2 DEF HistInv, Mailing
  <1> QED
    BY <1>1, <1>3 DEF HistInv, FileStep

LEMMA ScanHist ==
  ASSUME HistInv, NEW c \in Callers,
         Begin(c) \/ TakesBus(c) \/ DiscoveryFails(c) \/ Scanned(c)
  PROVE  HistInv' /\ FileStep
  <1>1. CASE Begin(c)
    <2>1. /\ scan' = [scan EXCEPT ![c] = [NoScan EXCEPT !.pc = "wait", !.before = powered]]
          /\ UNCHANGED <<srv, closing, powered, data, disk, mail, made, told>>
          /\ MayBegin(c)
      BY <1>1 DEF Begin
    <2>2. scan' \in ScanType
      BY <2>1, HistFields DEF ScanType, NoScan, ScanPcs
    <2>3. /\ c = "startup" => srv = "startup"
          /\ c = "power_on" => srv \notin {"draining", "down"}
          /\ c = "http" => srv # "down"
      BY <2>1 DEF MayBegin, HistInv, Phases
    <2>4. Phases'
      BY <2>1, <2>3, HistFields DEF HistInv, Phases, ScanType, Callers
    <2> QED
      BY <2>1, <2>2, <2>4, HistFields, ScanOnlyHist
  <1>2. CASE TakesBus(c) \/ Scanned(c)
    <2>1. PICK pc \in {"bus", "after"} : scan' = [scan EXCEPT ![c].pc = pc]
      BY <1>2 DEF TakesBus, Scanned
    <2>2. /\ UNCHANGED <<srv, closing, powered, data, disk, mail, made, told>>
          /\ scan[c].pc # "none"
      BY <1>2 DEF TakesBus, Scanned
    <2>3. scan' \in ScanType
      BY <2>1, HistFields DEF ScanType, ScanPcs
    <2>4. \A d \in Callers : d # c => scan'[d] = scan[d]
      BY <2>1, HistFields DEF ScanType
    <2>5. Phases'
      BY <2>2, <2>4 DEF HistInv, Phases, Callers
    <2> QED
      BY <2>2, <2>3, <2>5, HistFields, ScanOnlyHist
  <1>3. CASE DiscoveryFails(c)
    <2>1. /\ scan' = [scan EXCEPT ![c] = NoScan]
          /\ srv' = IF c = "startup" THEN "serving" ELSE srv
          /\ UNCHANGED <<closing, powered, data, disk, mail, made, told>>
          /\ scan[c].pc # "none"
      BY <1>3 DEF DiscoveryFails, Over
    <2>2. scan' \in ScanType
      BY <2>1, HistFields DEF ScanType, NoScan, ScanPcs
    <2>3. c = "startup" => srv = "startup"
      BY <2>1 DEF HistInv, Phases
    <2>4. Phases'
      BY <2>1, <2>3, HistFields DEF HistInv, Phases, ScanType, Callers, NoScan
    <2> QED
      BY <2>1, <2>2, <2>3, <2>4, HistFields, ScanOnlyHist
  <1> QED
    BY <1>1, <1>2, <1>3

\* What a discovery found is added to what is known and pending.
LEMMA RecordHist ==
  ASSUME HistInv, NEW c \in Callers, NEW found \in SUBSET Mns, Recorded(c, found),
         disk' = data' \/ disk' = disk
  PROVE  HistInv' /\ FileStep
  <1> DEFINE on == scan[c].before /\ powered
             warns == on /\ c # "http" /\ (data.last \cap StartRange) \ found # {}
             new == [id |-> made + 1, delivered |-> {}]
  <1>1. /\ scan[c].pc = "after" /\ (warns => made < MaxWarnings)
        /\ made' = (IF warns THEN made + 1 ELSE made)
        /\ data' = [last |-> IF on THEN data.last \cup found ELSE data.last,
                    pending |-> IF warns THEN data.pending \cup {new} ELSE data.pending]
        /\ scan' = [scan EXCEPT ![c] = NoScan]
        /\ srv' = (IF c = "startup" THEN "serving" ELSE srv)
        /\ UNCHANGED <<closing, powered, mail, told>>
    BY DEF Recorded, Over
  <1>2. made' \in 0..MaxWarnings /\ (warns => new \in Warning)
    BY <1>1, HistFields DEF Warning
  <1>3. data.last \in SUBSET Mns /\ data.pending \in SUBSET Warning
    BY HistFields DEF DataType
  <1>4. /\ data'.pending = (IF warns THEN data.pending \cup {new} ELSE data.pending)
        /\ data'.last = (IF on THEN data.last \cup found ELSE data.last)
    BY <1>1
  <1>5. data' \in DataType
    BY <1>1, <1>2, <1>3 DEF DataType
  <1>6. data.pending \subseteq data'.pending
    BY <1>4
  <1>7. Owed(data.pending) \subseteq Owed(data'.pending)
    BY <1>6 DEF Owed
  <1> HIDE DEF on, warns, new
  <1>8. scan' \in ScanType
    BY <1>1, HistFields DEF ScanType, NoScan, ScanPcs
  <1>9. c = "startup" => srv = "startup"
    BY <1>1 DEF HistInv, Phases
  <1>10. Phases' /\ srv # "down"
    BY <1>1, <1>9, HistFields DEF HistInv, Phases, ScanType, Callers, NoScan
  <1>11. srv' \in {"down", "startup", "serving", "joining", "draining"}
    BY <1>1, HistFields
  <1>12. HistTypeOK'
    BY <1>1, <1>2, <1>5, <1>8, <1>11, HistFields, HistTypeKept
  <1>13. Owed(disk.pending) \ Owed(data'.pending) \subseteq told
    BY <1>7, <1>10 DEF HistInv, Mailing
  <1>14. Owed(disk.pending) \ Owed(disk'.pending) \subseteq told
    BY <1>13
  <1>15. Owed(disk'.pending) \ Owed(data'.pending) \subseteq told
    BY <1>13
  <1>16. Current' = Current
    BY <1>1, Zenon DEF Current
  <1>17. Mailing'
    BY <1>1, <1>15, <1>16 DEF HistInv, Mailing
  <1> QED
    BY <1>1, <1>10, <1>12, <1>14, <1>17 DEF HistInv, FileStep

\* Warnings of a copy with one more user tried.
LEMMA TriedFacts ==
  ASSUME HistInv, mail.pc # "idle", NEW u \in Users
  PROVE  Tried(u) \in SUBSET Warning /\ Tried(u) # {}
  <1>1. Current \in Warning /\ mail.copy \in SUBSET Warning
    BY HistFields, CurrentFacts DEF HistInv, Mailing
  <1>2. [Current EXCEPT !.delivered = @ \cup {u}] \in Warning
    BY <1>1 DEF Warning
  <1> QED
    BY <1>1, <1>2 DEF Tried

\* The notification thread takes a copy, sends, or fails to.
LEMMA SendHist ==
  ASSUME HistInv, Deliver \/ NotPowered \/ Send \/ SendFails
  PROVE  HistInv' /\ FileStep
  <1>1. UNCHANGED <<srv, closing, powered, scan, data, disk, made>>
    BY DEF Deliver, NotPowered, Send, SendFails
  <1>2. NoMail \in MailType /\ NoMail.pc = "idle"
    BY DEF NoMail, MailType
  <1>3. CASE Deliver
    <2>1. /\ srv = "serving" /\ data.pending # {} /\ told' = told
          /\ mail' = [NoMail EXCEPT !.pc = "send", !.copy = data.pending]
      BY <1>3 DEF Deliver
    <2>2. data.pending \in SUBSET Warning
      BY HistFields DEF DataType
    <2>3. mail' \in MailType /\ mail'.pc = "send" /\ mail'.copy = data.pending
      BY <2>1, <2>2 DEF NoMail, MailType
    <2>4. HistTypeOK'
      BY <1>1, <2>1, <2>3, HistFields, HistTypeKept
    <2>5. Phases' /\ Mailing'
      BY <1>1, <2>1, <2>3 DEF HistInv, Phases, Mailing
    <2> QED
      BY <1>1, <2>1, <2>4, <2>5 DEF HistInv, FileStep
  <1>4. CASE NotPowered
    <2>1. mail' = NoMail /\ told' = told
      BY <1>4 DEF NotPowered
    <2>2. HistTypeOK'
      BY <1>1, <1>2, <2>1, HistFields, HistTypeKept
    <2>3. Phases' /\ Mailing'
      BY <1>1, <1>2, <2>1 DEF HistInv, Phases, Mailing
    <2> QED
      BY <1>1, <2>1, <2>2, <2>3 DEF HistInv, FileStep
  <1>5. CASE Send
    <2>1. PICK u \in Untold : /\ told' = told \cup {<<Current.id, u>>}
                              /\ mail' = [mail EXCEPT !.pc = "sent", !.user = u]
      BY <1>5 DEF Send
    <2>2. mail.pc = "send"
      BY <1>5 DEF Send
    <2>3. u \in Users /\ <<Current.id, u>> \in Messages
      BY <2>2, HistFields, CurrentFacts DEF Untold, Messages, HistInv, Mailing
    <2>4. mail' \in MailType /\ mail'.pc = "sent" /\ mail'.user = u /\ mail'.copy = mail.copy
      BY <2>1, <2>3, HistFields DEF MailType
    <2>5. told' \subseteq Messages
      BY <2>1, <2>3, HistFields
    <2>6. HistTypeOK'
      BY <1>1, <2>4, <2>5, HistFields, HistTypeKept
    <2>7. Current' = Current
      BY <2>4, Zenon DEF Current
    <2>8. Mailing'
      BY <1>1, <2>1, <2>2, <2>3, <2>4, <2>7 DEF HistInv, Mailing
    <2>9. Phases'
      BY <1>1, <2>2 DEF HistInv, Phases
    <2>10. FileStep
      BY <1>1, <2>1, <2>3 DEF FileStep
    <2> QED
      BY <2>6, <2>8, <2>9, <2>10 DEF HistInv
  <1>6. CASE SendFails
    <2>1. PICK u \in Untold : mail' = [mail EXCEPT !.copy = Tried(u)]
      BY <1>6 DEF SendFails
    <2>2. mail.pc = "send" /\ told' = told
      BY <1>6 DEF SendFails
    <2>3. Tried(u) \in SUBSET Warning /\ Tried(u) # {}
      BY <2>2, TriedFacts DEF Untold
    <2>4. mail' \in MailType /\ mail'.pc = "send" /\ mail'.copy = Tried(u)
      BY <2>1, <2>2, <2>3, HistFields DEF MailType
    <2>5. HistTypeOK'
      BY <1>1, <2>2, <2>4, HistFields, HistTypeKept
    <2>6. Mailing' /\ Phases'
      BY <1>1, <2>2, <2>3, <2>4 DEF HistInv, Mailing, Phases
    <2> QED
      BY <1>1, <2>2, <2>5, <2>6 DEF HistInv, FileStep
  <1> QED
    BY <1>3, <1>4, <1>5, <1>6

\* A change of what is pending in memory that drops only what was sent, saved
\* or not, and the thread where it goes on after it.
LEMMA PendingHist ==
  ASSUME HistInv, mail.pc # "idle", NEW P \in SUBSET Warning, data' = [data EXCEPT !.pending = P],
         Owed(data.pending) \ Owed(P) \subseteq told,
         disk' = data' \/ disk' = disk, mail' \in MailType,
         mail'.pc \in {"idle", "send"}, mail'.pc = "send" => mail'.copy # {},
         UNCHANGED <<srv, closing, powered, scan, made, told>>
  PROVE  HistInv' /\ FileStep
  <1>1. data' \in DataType /\ data'.pending = P
    BY HistFields DEF DataType
  <1>2. HistTypeOK'
    BY <1>1, HistFields, HistTypeKept
  <1>3. srv # "down"
    BY DEF HistInv, Phases
  <1>4. Owed(disk.pending) \ Owed(P) \subseteq told
    BY <1>3 DEF HistInv, Mailing
  <1>5. Owed(disk.pending) \ Owed(disk'.pending) \subseteq told
        /\ Owed(disk'.pending) \ Owed(data'.pending) \subseteq told
    BY <1>1, <1>4
  <1>6. Mailing'
    BY <1>5 DEF Mailing
  <1>7. Phases'
    BY <1>3 DEF HistInv, Phases
  <1> QED
    BY <1>2, <1>5, <1>6, <1>7 DEF HistInv, FileStep

\* A delivery is noted after it was sent.
LEMMA NoteHist ==
  ASSUME HistInv, Note \/ NoteUnsaved
  PROVE  HistInv' /\ FileStep
  <1> DEFINE E(e) == [e EXCEPT !.delivered = IF e.id = Current.id THEN @ \cup {mail.user} ELSE @]
             P == {E(e) : e \in data.pending}
  <1>1. /\ mail.pc = "sent" /\ data' = [data EXCEPT !.pending = P]
        /\ UNCHANGED <<srv, closing, powered, scan, made, told>>
        /\ disk' = data' \/ disk' = disk
    BY DEF Note, NoteUnsaved, Noted
  <1>2. mail.user \in Users /\ <<Current.id, mail.user>> \in told
    BY <1>1 DEF HistInv, Mailing
  <1>3. data.pending \in SUBSET Warning
    BY HistFields DEF DataType
  <1>4. \A e \in data.pending :
          /\ E(e) \in Warning /\ E(e).id = e.id
          /\ E(e).delivered \subseteq e.delivered \cup {mail.user}
          /\ e.id # Current.id => E(e).delivered = e.delivered
    BY <1>2, <1>3 DEF Warning
  <1> HIDE DEF E
  <1>5. P \in SUBSET Warning
    BY <1>4
  <1>6. ASSUME NEW m \in Owed(data.pending), m \notin Owed(P)
        PROVE  m \in told
    <2>1. PICK e \in data.pending, u \in Users : u \notin e.delivered /\ m = <<e.id, u>>
      BY <1>6, OwedFacts
    <2>2. E(e) \in P
      BY <2>1
    <2>3. u \in E(e).delivered
      BY <1>4, <1>6, <2>1, <2>2, OwedFacts
    <2>4. e.id = Current.id /\ u = mail.user
      BY <1>4, <2>1, <2>3
    <2> QED
      BY <1>2, <2>1, <2>4
  <1> HIDE DEF P
  <1>7. /\ mail' \in MailType /\ mail'.pc \in {"idle", "send"}
        /\ mail'.pc = "send" => mail'.copy # {}
    <2>1. CASE Note
      <3>1. mail' = [mail EXCEPT !.pc = "send", !.copy = Tried(mail.user), !.user = "nobody"]
        BY <2>1 DEF Note
      <3>2. Tried(mail.user) \in SUBSET Warning /\ Tried(mail.user) # {}
        BY <1>1, <1>2, TriedFacts
      <3> QED
        BY <3>1, <3>2, HistFields DEF MailType
    <2>2. CASE NoteUnsaved
      BY <2>2 DEF NoteUnsaved, NoMail, MailType
    <2> QED
      BY <2>1, <2>2
  <1>8. Owed(data.pending) \ Owed(P) \subseteq told
    BY <1>6
  <1> QED
    BY <1>1, <1>5, <1>7, <1>8, PendingHist

\* A warning that everybody has goes; nothing was owed for it.
LEMMA PruneHist ==
  ASSUME HistInv, Prune \/ PruneUnsaved
  PROVE  HistInv' /\ FileStep
  <1>1. /\ mail.pc = "send" /\ mail.copy # {} /\ data' = [data EXCEPT !.pending = Left]
        /\ UNCHANGED <<srv, closing, powered, scan, made, told>>
        /\ disk' = data' \/ disk' = disk
    BY DEF Prune, PruneUnsaved, Pruned
  <1>2. Left \in SUBSET Warning
    BY HistFields DEF DataType, Left
  <1>3. Owed(data.pending) \subseteq Owed(Left)
    <2>1. ASSUME NEW e \in data.pending, NEW u \in Users \ e.delivered
          PROVE  e \in Left
      BY DEF Left
    <2> QED
      BY <2>1, OwedFacts
  <1>4. /\ mail' \in MailType /\ mail'.pc \in {"idle", "send"}
        /\ mail'.pc = "send" => mail'.copy # {}
    <2>1. NoMail \in MailType /\ NoMail.pc = "idle"
      BY DEF NoMail, MailType
    <2>2. CASE mail' = NoMail
      BY <2>1, <2>2
    <2>3. CASE mail' # NoMail
      <3>1. mail' = [mail EXCEPT !.copy = @ \ {Current}] /\ mail.copy # {Current}
        BY <2>3 DEF Prune, PruneUnsaved
      <3>2. mail'.copy = mail.copy \ {Current} /\ mail'.pc = "send" /\ mail' \in MailType
        BY <1>1, <3>1, HistFields DEF MailType
      <3>3. Current \in mail.copy
        BY <1>1, HistFields, CurrentFacts
      <3> QED
        BY <3>1, <3>2, <3>3
    <2> QED
      BY <2>2, <2>3
  <1>5. Owed(data.pending) \ Owed(Left) \subseteq told
    BY <1>3
  <1>6. mail.pc # "idle"
    BY <1>1
  <1> QED
    BY <1>1, <1>2, <1>4, <1>5, <1>6, PendingHist

\* The life of main.
LEMMA MainHist ==
  ASSUME HistInv, Start \/ Signal \/ Leave \/ Joined \/ Drained \/ Crash \/ PowerSwitched
  PROVE  HistInv' /\ FileStep
  <1>1. disk' = disk /\ made' = made /\ told' = told
    BY DEF Start, Signal, Leave, Joined, Drained, Crash, PowerSwitched
  <1>2. FileStep
    BY <1>1 DEF FileStep
  <1>3. NoData \in DataType /\ NoMail \in MailType /\ NoMail.pc = "idle"
    BY DEF NoData, DataType, NoMail, MailType
  <1>4. CASE Start
    <2>1. srv = "down" /\ data' = disk /\ closing' = FALSE /\ UNCHANGED <<powered, mail>>
      BY <1>4 DEF Start
    <2>2. /\ mail.pc = "idle"
          /\ scan["startup"].pc = "none" /\ scan["power_on"].pc = "none" /\ scan["http"].pc = "none"
      BY <2>1 DEF HistInv, Phases
    <2>3. /\ srv' \in {"serving", "startup"} /\ scan' \in ScanType
          /\ srv' # "startup" => scan'["startup"].pc = "none"
      <3>1. CASE srv' = "serving" /\ scan' = scan
        BY <2>2, <3>1, HistFields
      <3>2. CASE srv' = "startup" /\ scan' = [scan EXCEPT !["startup"].pc = "due"]
        BY <3>2, HistFields DEF ScanType, ScanPcs, Callers
      <3> QED
        BY <1>4, <3>1, <3>2 DEF Start
    <2>4. /\ srv' \in {"down", "startup", "serving", "joining", "draining"}
          /\ closing' \in BOOLEAN /\ powered' \in BOOLEAN /\ data' \in DataType
          /\ disk' \in DataType /\ mail' \in MailType /\ told' \subseteq Messages
      BY <1>1, <2>1, <2>3, HistFields, Zenon
    <2>5. made' \in 0..MaxWarnings
      BY <1>1, HistFields
    <2>6. HistTypeOK'
      BY <2>3, <2>4, <2>5, HistTypeKept, Zenon
    <2>7. Phases' /\ Mailing'
      BY <1>1, <2>1, <2>2, <2>3 DEF HistInv, Phases, Mailing
    <2> QED
      BY <1>2, <2>6, <2>7 DEF HistInv
  <1>5. CASE Drained \/ Crash
    <2>1. srv' = "down" /\ data' = NoData /\ mail' = NoMail /\ UNCHANGED <<closing, powered>>
      BY <1>5 DEF Drained, Crash
    <2>2. scan' \in ScanType /\ \A c \in Callers : scan'[c].pc = "none"
      <3>1. CASE Drained
        BY <3>1, HistFields DEF Drained, HistInv, Phases, Callers
      <3>2. CASE Crash
        BY <3>2 DEF Crash, NoScan, ScanType, ScanPcs
      <3> QED
        BY <1>5, <3>1, <3>2
    <2>3. HistTypeOK'
      BY <1>1, <1>3, <2>1, <2>2, HistFields, HistTypeKept
    <2>4. Phases' /\ Mailing'
      BY <1>1, <1>3, <2>1, <2>2 DEF Phases, Mailing, Callers
    <2> QED
      BY <1>2, <2>3, <2>4 DEF HistInv
  <1>6. CASE Signal \/ Leave \/ Joined \/ PowerSwitched
    <2>1. /\ UNCHANGED <<scan, data, mail>> /\ closing' \in BOOLEAN /\ powered' \in BOOLEAN
          /\ srv' = srv \/ (srv = "serving" /\ srv' = "joining")
               \/ (srv = "joining" /\ srv' = "draining" /\ scan["power_on"].pc = "none")
      BY <1>6, HistFields DEF Signal, Leave, Joined, PowerSwitched
    <2>2. HistTypeOK'
      BY <1>1, <2>1, HistFields, HistTypeKept
    <2>3. Current' = Current
      BY <2>1, Zenon DEF Current
    <2>4. Phases' /\ Mailing'
      BY <1>1, <2>1, <2>3 DEF HistInv, Phases, Mailing
    <2> QED
      BY <1>2, <2>2, <2>4 DEF HistInv
  <1> QED
    BY <1>4, <1>5, <1>6

LEMMA HistKeeps ==
  ASSUME HistInv, HistNext \/ UNCHANGED histVars
  PROVE  HistInv' /\ FileStep
  <1>1. ASSUME NEW c \in Callers, Record(c) \/ RecordUnsaved(c)
        PROVE  HistInv' /\ FileStep
    <2>1. PICK found \in Findable(c) : Recorded(c, found) /\ (disk' = data' \/ disk' = disk)
      BY <1>1 DEF Record, RecordUnsaved
    <2>2. found \in SUBSET Mns
      BY DiscoveryHistoryAssumption DEF Findable
    <2> QED
      BY <2>1, <2>2, RecordHist
  <1>2. CASE UNCHANGED histVars
    <2>1. /\ UNCHANGED <<srv, closing, powered, scan, data, disk, mail, made, told>>
      BY <1>2 DEF histVars
    <2>2. Phases'
      BY <2>1 DEF HistInv, Phases
    <2> QED
      BY <2>1, <2>2, HistFields, ScanOnlyHist
  <1>3. CASE MailStep \/ SendFails
    BY <1>3, SendHist, NoteHist, PruneHist DEF MailStep
  <1>4. CASE SaveFails
    BY <1>1, <1>4, NoteHist, PruneHist DEF SaveFails
  <1>5. CASE \E c \in Callers : ScanStep(c)
    BY <1>1, <1>5, ScanHist DEF ScanStep
  <1>6. CASE MainStep \/ Start \/ Signal \/ Crash \/ PowerSwitched
    BY <1>6, MainHist DEF MainStep
  <1> QED
    BY <1>2, <1>3, <1>4, <1>5, <1>6 DEF HistNext

LEMMA HistInitHolds == ASSUME HistInit PROVE HistInv
  <1>1. NoData \in DataType /\ NoMail \in MailType /\ NoMail.pc = "idle"
    BY DEF NoData, DataType, NoMail, MailType
  <1>2. HistTypeOK
    <2>1. closing \in BOOLEAN /\ powered \in BOOLEAN
      BY Zenon DEF HistInit
    <2>2. scan \in ScanType
      BY DEF HistInit, NoScan, ScanType, ScanPcs
    <2>3. made \in 0..MaxWarnings /\ told \subseteq Messages
      BY DiscoveryHistoryAssumption DEF HistInit
    <2> QED
      BY <1>1, <2>1, <2>2, <2>3 DEF HistInit, HistTypeOK, MailType, ScanType, ScanPcs, Messages
  <1> QED
    BY <1>1, <1>2 DEF HistInit, HistInv, Phases, Mailing, Callers, NoScan

-----------------------------------------------------------------------------
(* The theorems. *)

LEMMA InitHolds == Init => ServiceInv
  BY PodInitHolds, HistInitHolds, WebInitHolds DEF Init, ServiceInv

LEMMA NextKeeps == ASSUME ServiceInv, [Next]_vars PROVE ServiceInv' /\ FileStep
  <1>1. /\ focus' = focus
        /\ PodNext \/ UNCHANGED podVars
        /\ HistNext \/ UNCHANGED histVars
        /\ WebNext \/ UNCHANGED web
    BY DEF Next, PowerOnThread, History, Handler, vars
  <1> QED
    BY <1>1, PodKeeps, HistKeeps, WebKeeps DEF ServiceInv

\* The inductive invariant of the three parts together.
THEOREM ServiceInvariant == Spec => []ServiceInv
  <1>1. Init => ServiceInv
    BY InitHolds
  <1>2. ServiceInv /\ [Next]_vars => ServiceInv'
    BY NextKeeps
  <1> QED
    BY <1>1, <1>2, PTL DEF Spec

\* The types; among them that the times left stay within the delay and the
\* window, and that no request counts more exchanges than its operation has.
THEOREM ServiceTypeOK == Spec => []TypeOK
  <1>1. ServiceInv => TypeOK
    BY DEF ServiceInv, PodInv, HistInv, WebInv, TypeOK
  <1> QED
    BY <1>1, ServiceInvariant, PTL

\* An event that the socket of power_on_discovery.py took is in the socket or
\* scheduled until a discovery, the power or the window has settled it.
THEOREM PodEventNotForgotten == Spec => []EventNotForgotten
  <1>1. ServiceInv => EventNotForgotten
    BY DEF ServiceInv, PodInv
  <1> QED
    BY <1>1, ServiceInvariant, PTL

\* A discovery begins after the boot delay, from a step that found the window
\* of the last event open, whatever retries and ticks lie between.
THEOREM PodBeginsInWindow == Spec => BeginsInWindow
  <1>1. ServiceInv => [StepDiscovers => Delay <= since /\ checked <= Window]_podVars
    <2> SUFFICES ASSUME ServiceInv, StepDiscovers PROVE Delay <= since /\ checked <= Window
      OBVIOUS
    <2>1. pod.due = 0 /\ checked <= Window /\ PodInv
      BY DEF StepDiscovers, ServiceInv, PodInv
    <2>2. since + 0 >= Delay
      BY <2>1, PodFacts DEF PodInv
    <2> QED
      BY <2>1, <2>2, PodFields, PodFacts
  <1> QED
    BY <1>1, ServiceInvariant, PTL DEF BeginsInWindow

\* main closes the UART only after every discovery has ended.
THEOREM HistScanOwnsUart == Spec => []ScanOwnsUart
  <1>1. ServiceInv => ScanOwnsUart
    BY DEF ServiceInv, HistInv, Phases, ScanOwnsUart, Callers
  <1> QED
    BY <1>1, ServiceInvariant, PTL

\* What a status of the HTTP front end says of the exchanges is true.
THEOREM WebAnswerIsHonest == Spec => []AnswerIsHonest
  <1>1. ServiceInv => AnswerIsHonest
    BY DEF ServiceInv, WebInv, Honest, AnswerIsHonest
  <1> QED
    BY <1>1, ServiceInvariant, PTL

\* Every step is one of the outbox, or changes nothing of it.
LEMMA OutboxStep ==
  ASSUME ServiceInv, ServiceInv', FileStep
  PROVE  [Outgoing!OutboxNext]_(Outgoing!outboxVars)
  <1>1. Undelivered = Owed(disk.pending) /\ Undelivered' = Owed(disk'.pending)
    BY DEF Undelivered, Owed
  <1>2. Undelivered' \subseteq Messages
    <2>1. disk'.pending \in SUBSET Warning
      BY DEF ServiceInv, HistInv, HistTypeOK, DataType
    <2> QED
      BY <1>1, <2>1, OwedFacts DEF Warning, Messages
  <1>3. CASE told' = told /\ Owed(disk.pending) \ Owed(disk'.pending) \subseteq told
    <2> DEFINE done == Undelivered \ Undelivered'
    <2>1. done \in SUBSET told /\ Undelivered' = (Undelivered \ done) \cup Undelivered'
      BY <1>1, <1>3
    <2> HIDE DEF done
    <2>2. Outgoing!Update
      BY <1>2, <1>3, <2>1 DEF Outgoing!Update, Messages
    <2> QED
      BY <2>2 DEF Outgoing!OutboxNext
  <1>4. CASE disk' = disk /\ \E m \in Messages : told' = told \cup {m}
    <2>1. Undelivered' = Undelivered
      BY <1>1, <1>4
    <2>2. Outgoing!Tell
      BY <1>4, <2>1 DEF Outgoing!Tell, Messages
    <2> QED
      BY <2>2 DEF Outgoing!OutboxNext
  <1> QED
    BY <1>3, <1>4 DEF FileStep

\* discovery_history.py implements the outbox: a saved warning leaves the file
\* for a user only after it was sent to that user.
THEOREM HistWarningsAreKept == Spec => WarningsAreKept
  <1>1. Init => Outgoing!OutboxInit
    BY DEF Init, HistInit, NoData, Outgoing!OutboxInit, Undelivered
  <1>2. ServiceInv /\ [Next]_vars => [Outgoing!OutboxNext]_(Outgoing!outboxVars)
    BY NextKeeps, OutboxStep
  <1> QED
    BY <1>1, <1>2, ServiceInvariant, PTL DEF Spec, WarningsAreKept, Outgoing!OutboxSpec

=============================================================================
