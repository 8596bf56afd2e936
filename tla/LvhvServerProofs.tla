--------------------------- MODULE LvhvServerProofs ---------------------------
(***************************************************************************)
(* The safety of lvhv-server's hand-over between handlers and workers, for *)
(* any number of clients, any set of requests and any queue capacities.    *)
(***************************************************************************)
EXTENDS LvhvServer, SequenceTheorems, TLAPS

\* Whatever Picos are connected, every request of the protocol is either
\* answered by the handler or goes to one of the three queues: the validation
\* of Command.c leaves the branches of handler.c that only log out of reach.
LEMMA RouteTotal ==
  ASSUME NEW cmd \in CommandSet, NEW conn \in SUBSET Picos
  PROVE  Route(cmd, conn) \in Queues \cup {"reject", "no_pico"}
  BY DEF Route, command_is_valid, OnHvChannel, PicoQueue, Queues, CommandSet, HvChannels,
         PicoCommands, ReadMonCommands, Types, Names, Numerics

\* Two intervals from 1 with the same elements have the same length: what is
\* needed of DOMAIN to compare the sequences that heap_pop builds.
LEMMA IntervalLength ==
  ASSUME NEW m \in Nat, NEW n \in Nat, 1..m = 1..n
  PROVE  m = n
  <1>1. m > 0 => m \in 1..n
    OBVIOUS
  <1>2. n > 0 => n \in 1..m
    OBVIOUS
  <1> QED
    BY <1>1, <1>2

\* A push adds the item at the end of the buffer or leaves a full one as it is.
LEMMA PushFacts ==
  ASSUME NEW h \in Seq(Clients), NEW n \in Nat \ {0}, NEW c \in Clients,
         Len(h) <= n
  PROVE  /\ heap_push(h, n, c) \in Seq(Clients)
         /\ Len(heap_push(h, n, c)) <= n
         /\ \A i \in DOMAIN heap_push(h, n, c) :
              \/ i \in DOMAIN h /\ heap_push(h, n, c)[i] = h[i]
              \/ i = Len(h) + 1 /\ heap_push(h, n, c)[i] = c
  BY DEF heap_push

\* A pop leaves the other items, the last one in the place of the root.
LEMMA PopFacts ==
  ASSUME NEW h \in Seq(Clients), h # <<>>
  PROVE  /\ h[1] \in Clients /\ Len(h) \in Nat \ {0}
         /\ heap_pop(h) \in Seq(Clients)
         /\ Len(heap_pop(h)) = Len(h) - 1
         /\ \A i \in DOMAIN heap_pop(h) :
              /\ i \in 1..(Len(h) - 1)
              /\ heap_pop(h)[i] = h[IF i = 1 THEN Len(h) ELSE i]
  <1>1. /\ Len(h) \in Nat \ {0}
        /\ DOMAIN h = 1..Len(h)
        /\ \A i \in 1..Len(h) : h[i] \in Clients
    OBVIOUS
  <1>2. heap_pop(h) \in [1..(Len(h) - 1) -> Clients]
    BY <1>1 DEF heap_pop
  <1>3. heap_pop(h) \in Seq(Clients)
    <2>1. [1..(Len(h) - 1) -> Clients] \subseteq Seq(Clients)
      BY <1>1, SeqDef
    <2> QED
      BY <1>2, <2>1
  <1>4. Len(heap_pop(h)) = Len(h) - 1
    <2> DEFINE g == heap_pop(h)
    <2>1. DOMAIN g = 1..Len(g) /\ Len(g) \in Nat
      BY <1>3, LenProperties
    <2>2. DOMAIN g = 1..(Len(h) - 1)
      BY <1>2
    <2> HIDE DEF g
    <2>3. Len(h) - 1 \in Nat
      BY <1>1
    <2>4. 1..Len(g) = 1..(Len(h) - 1)
      BY <2>1, <2>2, Zenon
    <2>5. Len(g) = Len(h) - 1
      BY <2>1, <2>3, <2>4, IntervalLength, Zenon
    <2> QED
      BY <2>5 DEF g
  <1> QED
    BY <1>1, <1>2, <1>3, <1>4 DEF heap_pop

\* The server starts with empty queues and idle workers.
LEMMA InitIInv == Init => IInv
  BY ServerAssumption
  DEF Init, IInv, TypeOK, NoDanglingTask, ExecutedOnce, ReplyAnswersRequest,
      RightQueue, WaitedTask, Executing, InQueue, Idle, Sessions, Picos

\* Nothing is pending, queued or running after a restart of the process.
LEMMA RestartIInv == Restarted => IInv'
  BY ServerAssumption
  DEF Restarted, IInv, TypeOK, NoDanglingTask, ExecutedOnce,
      ReplyAnswersRequest, RightQueue, WaitedTask, Executing, InQueue, Idle,
      Sessions, Picos

\* A step of a handler that leaves its task and the queues alone, and keeps
\* every pending handler pending.
LEMMA SessionStep ==
  ASSUME IInv, NEW c \in Clients, NEW st \in Sessions,
         session' = [session EXCEPT ![c] = st],
         UNCHANGED <<connected, task, queue, worker>>,
         Pending(c) => st \in {"wait", "sleep"},
         st \in {"wait", "sleep"} => session[c] \in {"wait", "sleep"},
         st = "reply" => session[c] = "wait" /\ task[c].complete
  PROVE  IInv'
  <1>1. TypeOK'
    BY DEF IInv, TypeOK
  <1>2. \A d \in Clients : Pending(d) => Pending(d)'
    BY DEF IInv, TypeOK, Pending
  <1>3. NoDanglingTask'
    BY <1>2 DEF IInv, TypeOK, NoDanglingTask, RightQueue
  <1>4. ExecutedOnce' /\ RightQueue'
    BY DEF IInv, ExecutedOnce, RightQueue, Executing, InQueue
  <1>5. WaitedTask'
    BY DEF IInv, TypeOK, WaitedTask
  <1>6. ReplyAnswersRequest'
    <2> SUFFICES ASSUME NEW d \in Clients, session'[d] = "reply"
                 PROVE  /\ task[d].rv.cmd = task[d].cmd
                        /\ \/ task[d].rv.by = Route(task[d].cmd, connected)
                           \/ /\ task[d].rv.by = "handler"
                              /\ Route(task[d].cmd, connected)
                                   \in {"reject", "no_pico"}
      BY DEF ReplyAnswersRequest
    <2>1. CASE session[d] = "reply"
      BY <2>1 DEF IInv, ReplyAnswersRequest
    <2>2. CASE session[d] # "reply"
      <3>1. d = c /\ session[c] = "wait" /\ task[c].complete
        BY <2>2 DEF IInv, TypeOK
      <3>2. task[d].rv = Reply(Route(task[d].cmd, connected), task[d].cmd)
        BY <3>1 DEF IInv, WaitedTask
      <3> QED
        BY <3>2 DEF Reply
    <2> QED
      BY <2>1, <2>2
  <1> QED
    BY <1>1, <1>3, <1>4, <1>5, <1>6 DEF IInv

\* foyer hands a new connection to a handler.
LEMMA AcceptIInv ==
  ASSUME IInv, NEW c \in Clients, Accept(c)
  PROVE  IInv'
  BY SessionStep DEF Accept, Pending, Sessions

\* A handler leaves its receive loop.
LEMMA HangupIInv ==
  ASSUME IInv, NEW c \in Clients, Hangup(c)
  PROVE  IInv'
  BY SessionStep DEF Hangup, Pending, Sessions

\* A handler tests its task once under the mutex.
LEMMA CheckCompleteIInv ==
  ASSUME IInv, NEW c \in Clients, CheckComplete(c)
  PROVE  IInv'
  BY SessionStep DEF CheckComplete, Pending, Sessions

\* pthread_cond_wait returns without a signal.
LEMMA SpuriousWakeupIInv ==
  ASSUME IInv, NEW c \in Clients, SpuriousWakeup(c)
  PROVE  IInv'
  BY SessionStep DEF SpuriousWakeup, Pending, Sessions

\* A handler that is not pending owns no queued or running task.
LEMMA NotPendingNotHeld ==
  ASSUME IInv, NEW c \in Clients, ~Pending(c)
  PROVE  /\ \A q \in Queues : \A i \in DOMAIN queue[q] : queue[q][i] # c
         /\ \A q \in Queues : worker[q].st = "exec" => worker[q].item # c
  BY DEF IInv, NoDanglingTask

\* The handler of c puts its slot to another use while nothing refers to it
\* and the queues stay as they are.
LEMMA SlotStep ==
  ASSUME IInv, NEW c \in Clients, ~Pending(c),
         NEW st \in {"recv", "closed", "reply"}, NEW t \in Tasks \cup {NoTask},
         session' = [session EXCEPT ![c] = st],
         task' = [task EXCEPT ![c] = t],
         UNCHANGED <<connected, queue, worker>>,
         st = "reply" => /\ t.rv.cmd = t.cmd
                         /\ t.rv.by = "handler"
                         /\ Route(t.cmd, connected) \in {"reject", "no_pico"}
  PROVE  IInv'
  <1>1. TypeOK'
    BY DEF IInv, TypeOK, Sessions
  <1>2. \A d \in Clients : d # c => /\ session'[d] = session[d]
                                    /\ task'[d] = task[d]
                                    /\ Pending(d) => Pending(d)'
    BY DEF IInv, TypeOK, Pending
  <1>3. session'[c] = st /\ task'[c] = t
    BY DEF IInv, TypeOK
  <1>4. /\ \A q \in Queues : \A i \in DOMAIN queue[q] :
             queue[q][i] # c /\ queue[q][i] \in Clients
        /\ \A q \in Queues : worker[q].st = "exec" =>
             worker[q].item # c /\ worker[q].item \in Clients
    BY NotPendingNotHeld DEF IInv, TypeOK, RightQueue
  <1>5. NoDanglingTask'
    BY <1>2, <1>4 DEF IInv, NoDanglingTask
  <1>6. ExecutedOnce'
    BY DEF IInv, ExecutedOnce, Executing, InQueue
  <1>7. RightQueue'
    BY <1>2, <1>4 DEF IInv, RightQueue
  <1>8. WaitedTask'
    BY <1>2, <1>3 DEF IInv, WaitedTask
  <1>9. ReplyAnswersRequest'
    BY <1>2, <1>3 DEF IInv, ReplyAnswersRequest
  <1> QED
    BY <1>1, <1>5, <1>6, <1>7, <1>8, <1>9 DEF IInv

\* A handler sends its reply and destroys the task.
LEMMA SendReplyIInv ==
  ASSUME IInv, NEW c \in Clients, SendReply(c)
  PROVE  IInv'
  <1>1. PICK st \in {"recv", "closed"} : session' = [session EXCEPT ![c] = st]
    BY DEF SendReply
  <1> QED
    BY <1>1, SlotStep DEF SendReply, Pending

\* A handler answers a request without a worker.
LEMMA AnswerAtOnceIInv ==
  ASSUME IInv, NEW c \in Clients, NEW cmd \in Requests,
         session[c] = "recv", AnswerAtOnce(c, cmd),
         UNCHANGED <<connected, worker>>
  PROVE  IInv'
  <1> DEFINE t == [cmd |-> cmd, complete |-> FALSE, rv |-> Reply("handler", cmd)]
  <1>1. Route(cmd, connected) \in {"reject", "no_pico"}
    BY RouteTotal, ServerAssumption DEF AnswerAtOnce, IInv, TypeOK
  <1>2. t \in Tasks /\ t.rv.cmd = t.cmd /\ t.rv.by = "handler" /\ t.cmd = cmd
    BY DEF Tasks, Replies, Reply
  <1>3. task' = [task EXCEPT ![c] = t]
    BY <1>1 DEF AnswerAtOnce
  <1>4. /\ session' = [session EXCEPT ![c] = "reply"]
        /\ UNCHANGED queue
        /\ ~Pending(c)
    BY DEF AnswerAtOnce, Pending
  <1> HIDE DEF t
  <1> QED
    BY <1>1, <1>2, <1>3, <1>4, SlotStep

\* A handler queues its task, or loses it to a full queue.
LEMMA SubmitIInv ==
  ASSUME IInv, NEW c \in Clients, NEW cmd \in Requests,
         session[c] = "recv", Submit(c, cmd),
         UNCHANGED <<connected, worker>>
  PROVE  IInv'
  <1> DEFINE q == Route(cmd, connected)
             t == [cmd |-> cmd, complete |-> FALSE, rv |-> NoReply]
  <1>1. /\ q \in Queues
        /\ task' = [task EXCEPT ![c] = t]
        /\ queue' = [queue EXCEPT ![q] = heap_push(queue[q], QueueSize[q], c)]
        /\ session' = [session EXCEPT ![c] = "wait"]
    BY DEF Submit
  <1>2. t \in Tasks /\ ~t.complete /\ t.cmd = cmd
    BY DEF Tasks
  <1> HIDE DEF t
  <1>3. /\ queue[q] \in Seq(Clients) /\ QueueSize[q] \in Nat \ {0}
        /\ Len(queue[q]) <= QueueSize[q]
    BY <1>1, ServerAssumption DEF IInv, TypeOK
  <1>4. /\ queue'[q] \in Seq(Clients) /\ Len(queue'[q]) <= QueueSize[q]
        /\ \A i \in DOMAIN queue'[q] :
             \/ i \in DOMAIN queue[q] /\ queue'[q][i] = queue[q][i]
             \/ i = Len(queue[q]) + 1 /\ queue'[q][i] = c
    BY <1>1, <1>3, PushFacts DEF IInv, TypeOK
  <1>5. \A p \in Queues : p # q => queue'[p] = queue[p]
    BY <1>1 DEF IInv, TypeOK
  <1>6. ~Pending(c)
    BY DEF Pending
  <1> HIDE DEF q
  <1>7. TypeOK'
    BY <1>1, <1>2, <1>4, <1>5 DEF IInv, TypeOK, Sessions
  <1>8. session'[c] = "wait" /\ task'[c] = t /\ connected' = connected
    BY <1>1, <1>2 DEF IInv, TypeOK
  <1>9. \A d \in Clients : d # c => /\ session'[d] = session[d]
                                    /\ task'[d] = task[d]
    BY <1>1 DEF IInv, TypeOK
  <1>10. /\ \A p \in Queues : \A i \in DOMAIN queue[p] :
              queue[p][i] # c /\ queue[p][i] \in Clients
         /\ \A p \in Queues : worker[p].st = "exec" =>
              worker[p].item # c /\ worker[p].item \in Clients
    BY <1>6, NotPendingNotHeld DEF IInv, TypeOK, RightQueue
  \* Where an item of the new buffers comes from.
  <1>11. \A p \in Queues : \A i \in DOMAIN queue'[p] :
           \/ i \in DOMAIN queue[p] /\ queue'[p][i] = queue[p][i]
           \/ p = q /\ i = Len(queue[q]) + 1 /\ queue'[p][i] = c
    BY <1>4, <1>5
  <1>12. NoDanglingTask'
    BY <1>2, <1>8, <1>9, <1>10, <1>11 DEF IInv, NoDanglingTask, Pending
  <1>13. ExecutedOnce'
    <2>1. ASSUME NEW p \in Queues, NEW r \in Queues,
                 NEW i \in DOMAIN queue'[p], NEW j \in DOMAIN queue'[r],
                 queue'[p][i] = queue'[r][j]
          PROVE  p = r /\ i = j
      BY <1>10, <1>11, <2>1 DEF IInv, ExecutedOnce
    <2>2. ASSUME NEW d \in Clients, NEW p \in Queues, NEW r \in Queues,
                 Executing(d, p)
          PROVE  ~InQueue(d, r)' /\ (Executing(d, r) => p = r)
      BY <1>10, <1>11, <2>2 DEF IInv, ExecutedOnce, InQueue, Executing
    <2> QED
      BY <2>1, <2>2 DEF ExecutedOnce, Executing
  <1>14. RightQueue'
    BY <1>2, <1>8, <1>9, <1>10, <1>11 DEF IInv, RightQueue, q
  <1>15. WaitedTask'
    BY <1>2, <1>8, <1>9 DEF IInv, WaitedTask
  <1>16. ReplyAnswersRequest'
    BY <1>8, <1>9 DEF IInv, ReplyAnswersRequest
  <1> QED
    BY <1>7, <1>12, <1>13, <1>14, <1>15, <1>16 DEF IInv

\* A worker takes the root of its heap.
LEMMA PopIInv ==
  ASSUME IInv, NEW q \in Queues, Pop(q)
  PROVE  IInv'
  <1> DEFINE c == queue[q][1]
             n == Len(queue[q])
  <1>1. /\ queue[q] # <<>> /\ worker[q].st = "idle"
        /\ worker' = [worker EXCEPT ![q] = [st |-> "exec", item |-> c]]
        /\ queue' = [queue EXCEPT ![q] = heap_pop(queue[q])]
        /\ UNCHANGED <<connected, session, task>>
    BY DEF Pop
  <1>2. /\ c \in Clients /\ n \in Nat \ {0} /\ DOMAIN queue[q] = 1..n
        /\ queue'[q] \in Seq(Clients)
        /\ Len(queue'[q]) = n - 1
        /\ \A i \in DOMAIN queue'[q] :
             /\ i \in 1..(n - 1)
             /\ queue'[q][i] = queue[q][IF i = 1 THEN n ELSE i]
    BY <1>1, PopFacts DEF IInv, TypeOK
  <1>3. \A p \in Queues : p # q => queue'[p] = queue[p] /\ worker'[p] = worker[p]
    BY <1>1 DEF IInv, TypeOK
  <1>4. worker'[q] = [st |-> "exec", item |-> c]
    BY <1>1 DEF IInv, TypeOK
  <1>5. c = queue[q][1] /\ 1 \in DOMAIN queue[q]
    BY <1>2
  <1> HIDE DEF c, n
  <1>6. TypeOK'
    <2>1. \A p \in Queues : Len(queue'[p]) <= QueueSize[p]
      <3>1. n <= QueueSize[q] /\ QueueSize[q] \in Nat
        BY ServerAssumption DEF IInv, TypeOK, n
      <3>2. Len(queue'[q]) <= QueueSize[q]
        BY <1>2, <3>1
      <3>3. \A p \in Queues : Len(queue[p]) <= QueueSize[p]
        BY DEF IInv, TypeOK
      <3> QED
        BY <1>3, <3>2, <3>3
    <2>2. queue' \in [Queues -> Seq(Clients)]
      BY <1>1, <1>2, <1>3 DEF IInv, TypeOK
    <2>3. worker' \in [Queues -> [st : {"idle", "exec", "signal"},
                                 item : Clients \cup {"none"}]]
      BY <1>1, <1>2 DEF IInv, TypeOK
    <2> QED
      BY <1>1, <2>1, <2>2, <2>3 DEF IInv, TypeOK
  \* An item still in a buffer was there before, and is not the root of q.
  <1>7. \A p \in Queues : \A i \in DOMAIN queue'[p] :
          \E k \in DOMAIN queue[p] :
            /\ queue'[p][i] = queue[p][k]
            /\ p = q => k = (IF i = 1 THEN n ELSE i) /\ k # 1
            /\ p # q => k = i
    BY <1>2, <1>3
  <1>8. NoDanglingTask'
    BY <1>1, <1>3, <1>4, <1>5, <1>7 DEF IInv, NoDanglingTask, Pending
  <1>9. ExecutedOnce'
    <2>1. ASSUME NEW p \in Queues, NEW r \in Queues,
                 NEW i \in DOMAIN queue'[p], NEW j \in DOMAIN queue'[r],
                 queue'[p][i] = queue'[r][j]
          PROVE  p = r /\ i = j
      <3>1. PICK k \in DOMAIN queue[p] :
              /\ queue'[p][i] = queue[p][k]
              /\ p = q => k = (IF i = 1 THEN n ELSE i) /\ k # 1
              /\ p # q => k = i
        BY <1>7
      <3>2. PICK l \in DOMAIN queue[r] :
              /\ queue'[r][j] = queue[r][l]
              /\ r = q => l = (IF j = 1 THEN n ELSE j) /\ l # 1
              /\ r # q => l = j
        BY <1>7
      <3>3. p = r /\ k = l
        <4>1. queue[p][k] = queue[r][l]
          BY <2>1, <3>1, <3>2
        <4> QED
          BY <4>1 DEF IInv, ExecutedOnce
      <3>4. CASE p # q
        BY <3>1, <3>2, <3>3, <3>4
      <3>5. CASE p = q
        BY <1>2, <3>1, <3>2, <3>3, <3>5
      <3> QED
        BY <3>4, <3>5
    <2>2. ASSUME NEW d \in Clients, NEW p \in Queues, NEW r \in Queues,
                 Executing(d, p)'
          PROVE  ~InQueue(d, r)' /\ (Executing(d, r)' => p = r)
      <3>1. CASE p = q
        <4>1. d = queue[q][1]
          BY <1>4, <1>5, <2>2, <3>1 DEF Executing
        <4>2. ~InQueue(d, r)'
          BY <1>5, <1>7, <4>1 DEF IInv, ExecutedOnce, InQueue
        <4>3. \A s \in Queues : ~Executing(d, s)
          BY <1>5, <4>1 DEF IInv, ExecutedOnce, InQueue
        <4> QED
          BY <1>3, <3>1, <4>2, <4>3 DEF Executing
      <3>2. CASE p # q
        <4>1. Executing(d, p)
          BY <1>3, <2>2, <3>2 DEF Executing
        <4>2. d # queue[q][1]
          BY <1>5, <4>1 DEF IInv, ExecutedOnce, InQueue
        <4>3. ~InQueue(d, r)'
          BY <1>7, <4>1 DEF IInv, ExecutedOnce, InQueue
        <4>4. Executing(d, r)' => r # q
          BY <1>4, <1>5, <4>2 DEF Executing
        <4> QED
          BY <1>3, <4>1, <4>3, <4>4 DEF IInv, ExecutedOnce, Executing
      <3> QED
        BY <3>1, <3>2
    <2> QED
      BY <2>1, <2>2 DEF ExecutedOnce
  <1>10. RightQueue'
    BY <1>1, <1>2, <1>3, <1>4, <1>5, <1>7 DEF IInv, RightQueue
  <1>11. WaitedTask' /\ ReplyAnswersRequest'
    BY <1>1 DEF IInv, WaitedTask, ReplyAnswersRequest
  <1> QED
    BY <1>6, <1>8, <1>9, <1>10, <1>11 DEF IInv

\* A worker stores its answer through the task pointer.
LEMMA CompleteIInv ==
  ASSUME IInv, NEW q \in Queues, Complete(q)
  PROVE  IInv'
  <1> DEFINE c == worker[q].item
             t == [task[c] EXCEPT !.complete = TRUE,
                                  !.rv = Reply(q, task[c].cmd)]
  <1>1. /\ worker[q].st = "exec"
        /\ task' = [task EXCEPT ![c] = t]
        /\ worker' = [worker EXCEPT ![q].st = "signal"]
        /\ UNCHANGED <<connected, session, queue>>
    BY DEF Complete
  <1>2. /\ c \in Clients
        /\ session[c] \in {"wait", "sleep"}
        /\ task[c] \in Tasks
        /\ Route(task[c].cmd, connected) = q
    BY <1>1 DEF IInv, NoDanglingTask, RightQueue, WaitedTask, Pending
  <1>3. t \in Tasks /\ t.complete /\ t.cmd = task[c].cmd
        /\ t.rv = Reply(q, task[c].cmd)
    BY <1>2 DEF Tasks, Replies, Reply
  <1>4. /\ worker'[q].st = "signal" /\ worker'[q].item = c
        /\ \A p \in Queues : p # q => worker'[p] = worker[p]
    BY <1>1 DEF IInv, TypeOK
  <1>5. task'[c] = t /\ \A d \in Clients : d # c => task'[d] = task[d]
    BY <1>1, <1>2 DEF IInv, TypeOK
  \* Nothing else refers to the task that has just been completed.
  <1>6. /\ \A p \in Queues : \A i \in DOMAIN queue[p] :
             queue[p][i] # c /\ queue[p][i] \in Clients
        /\ \A p \in Queues : p # q /\ worker[p].st = "exec" =>
             worker[p].item # c /\ worker[p].item \in Clients
    BY <1>1, <1>2 DEF IInv, TypeOK, RightQueue, ExecutedOnce, Executing, InQueue
  <1>7. TypeOK'
    BY <1>1, <1>2, <1>3 DEF IInv, TypeOK
  <1> HIDE DEF c, t
  <1>8. NoDanglingTask'
    BY <1>1, <1>4, <1>5, <1>6 DEF IInv, NoDanglingTask, Pending
  <1>9. ExecutedOnce'
    BY <1>1, <1>4 DEF IInv, ExecutedOnce, Executing, InQueue
  <1>10. RightQueue'
    BY <1>1, <1>2, <1>4, <1>5, <1>6 DEF IInv, RightQueue
  <1>11. WaitedTask'
    BY <1>1, <1>2, <1>3, <1>5 DEF IInv, WaitedTask
  <1>12. ReplyAnswersRequest'
    BY <1>1, <1>2, <1>5 DEF IInv, ReplyAnswersRequest
  <1> QED
    BY <1>7, <1>8, <1>9, <1>10, <1>11, <1>12 DEF IInv

\* A worker signals the condition of a slot that may have a new use.
LEMMA SignalIInv ==
  ASSUME IInv, NEW q \in Queues, Signal(q)
  PROVE  IInv'
  <1> DEFINE c == worker[q].item
  <1>1. /\ worker[q].st = "signal" /\ c \in Clients
        /\ session' = [session EXCEPT
                         ![c] = IF @ = "sleep" THEN "wait" ELSE @]
        /\ worker' = [worker EXCEPT ![q] = Idle]
        /\ UNCHANGED <<connected, task, queue>>
    BY DEF Signal, IInv, RightQueue
  <1>2. /\ worker'[q] = Idle
        /\ \A p \in Queues : p # q => worker'[p] = worker[p]
    BY <1>1 DEF IInv, TypeOK
  <1>3. \A d \in Clients :
          /\ session'[d] = session[d] \/ (session[d] = "sleep" /\ session'[d] = "wait")
          /\ session'[d] \in Sessions
    BY <1>1 DEF IInv, TypeOK, Sessions
  <1> HIDE DEF c
  <1>4. TypeOK'
    BY <1>1, <1>2, <1>3 DEF IInv, TypeOK, Idle
  <1>5. NoDanglingTask'
    BY <1>1, <1>2, <1>3 DEF IInv, TypeOK, NoDanglingTask, Pending, Idle, RightQueue
  <1>6. ExecutedOnce'
    BY <1>1, <1>2 DEF IInv, ExecutedOnce, Executing, InQueue, Idle
  <1>7. RightQueue'
    BY <1>1, <1>2 DEF IInv, RightQueue, Idle
  <1>8. WaitedTask'
    BY <1>1, <1>3 DEF IInv, WaitedTask
  <1>9. ReplyAnswersRequest'
    BY <1>1, <1>3 DEF IInv, ReplyAnswersRequest
  <1> QED
    BY <1>4, <1>5, <1>6, <1>7, <1>8, <1>9 DEF IInv

\* A step that changes nothing.
LEMMA StutterIInv ==
  ASSUME IInv, UNCHANGED vars
  PROVE  IInv'
  BY DEF vars, IInv, TypeOK, NoDanglingTask, ExecutedOnce, ReplyAnswersRequest,
         RightQueue, WaitedTask, Pending, Executing, InQueue

\* The inductive invariant holds in every state of the server: no handler or
\* worker step, late signal, spurious wakeup, hangup or restart breaks it.
THEOREM ServerInvariant == Spec => []IInv
  <1>1. IInv /\ [Next]_vars => IInv'
    <2> SUFFICES ASSUME IInv, [Next]_vars PROVE IInv'
      OBVIOUS
    <2>1. ASSUME NEW c \in Clients, Accept(c) PROVE IInv'
      BY <2>1, AcceptIInv
    <2>2. ASSUME NEW c \in Clients, Hangup(c) PROVE IInv'
      BY <2>2, HangupIInv
    <2>3. ASSUME NEW c \in Clients, CheckComplete(c) PROVE IInv'
      BY <2>3, CheckCompleteIInv
    <2>4. ASSUME NEW c \in Clients, SpuriousWakeup(c) PROVE IInv'
      BY <2>4, SpuriousWakeupIInv
    <2>5. ASSUME NEW c \in Clients, SendReply(c) PROVE IInv'
      BY <2>5, SendReplyIInv
    <2>6. ASSUME NEW c \in Clients, NEW cmd \in Requests, Receive(c, cmd)
          PROVE  IInv'
      BY <2>6, AnswerAtOnceIInv, SubmitIInv DEF Receive
    <2>7. ASSUME NEW q \in Queues, Pop(q) PROVE IInv'
      BY <2>7, PopIInv
    <2>8. ASSUME NEW q \in Queues, Complete(q) PROVE IInv'
      BY <2>8, CompleteIInv
    <2>9. ASSUME NEW q \in Queues, Signal(q) PROVE IInv'
      BY <2>9, SignalIInv
    <2>10. ASSUME NEW q \in Queues, SignalUnmapped(q) PROVE IInv'
      BY <2>10, RestartIInv DEF SignalUnmapped
    <2>11. ASSUME FoyerFails PROVE IInv'
      BY <2>11, RestartIInv DEF FoyerFails
    <2>12. ASSUME UNCHANGED vars PROVE IInv'
      BY <2>12, StutterIInv
    <2> QED
      BY <2>1, <2>2, <2>3, <2>4, <2>5, <2>6, <2>7, <2>8, <2>9, <2>10, <2>11,
         <2>12 DEF Next
  <1> QED
    BY <1>1, InitIInv, PTL DEF Spec

\* The state of the server is well typed; in particular no queue outgrows the
\* buffer that queue_init allocated for it.
THEOREM ServerTypeOK == Spec => []TypeOK
  BY ServerInvariant, PTL DEF IInv

\* No queued or running command refers to a task its handler has given up.
THEOREM ServerNoDanglingTask == Spec => []NoDanglingTask
  BY ServerInvariant, PTL DEF IInv

\* A request is held in one place only, so it is carried out at most once.
THEOREM ServerExecutedOnce == Spec => []ExecutedOnce
  BY ServerInvariant, PTL DEF IInv

\* What a client is sent answers its own request and comes from the thread in
\* charge of it.
THEOREM ServerReplyAnswersRequest == Spec => []ReplyAnswersRequest
  BY ServerInvariant, PTL DEF IInv

=============================================================================
