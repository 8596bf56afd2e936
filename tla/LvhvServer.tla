------------------------------ MODULE LvhvServer ------------------------------
(***************************************************************************)
(* The threads of lvhv-server: one detached client_handler per connection, *)
(* the i2c worker, a worker for each Pico found at startup, and the three  *)
(* bounded queues between them.                                            *)
(*                                                                         *)
(* A handler keeps its task on its own stack and queues a pointer to it,   *)
(* so a task is named here by its client: there is one slot per handler,   *)
(* reused by each request of the session.  A worker pops a pointer, runs   *)
(* the command, stores the answer through the pointer under the task's     *)
(* mutex, and signals the task's condition AFTER it has released the       *)
(* mutex.  The handler may by then have taken the answer, destroyed the    *)
(* task, started another one in the same slot or ended its session.        *)
(*                                                                         *)
(* Every queued item has key 0 (handler.c), so the sift loops of the       *)
(* binary heap stop at their first comparison: a push appends, and a pop   *)
(* takes the root and moves the LAST item into its place.                  *)
(***************************************************************************)
EXTENDS Command, Sequences

CONSTANTS
  Clients,      \* the connections the server can have at a time
  Requests,     \* the requests a client may send
  QueueSize     \* the capacity given to each queue (1024 in lvhv-server.c)

ASSUME ServerAssumption ==
  /\ Requests \subseteq CommandSet
  /\ QueueSize \in [Queues -> Nat \ {0}]

VARIABLES
  connected,    \* the Picos whose USB handle was opened at startup
  session,      \* session[c]: where the handler of client c is
  task,         \* task[c]: the task on the stack of the handler of c
  queue,        \* queue[q]: the heap buffer, its items named by their task
  worker        \* worker[q]: what the worker of queue q is doing

vars == <<connected, session, task, queue, worker>>

Sessions == {"closed", "recv", "wait", "sleep", "reply"}

\* An answer carries the thread that made it and the command it answers.
NoCommand == [name |-> "none", type |-> "other", channel |-> 0,
              numeric |-> "nonfinite"]
NoReply == [by |-> "none", cmd |-> NoCommand]
Reply(by, cmd) == [by |-> by, cmd |-> cmd]
Replies == [by : Queues \cup {"handler"}, cmd : Requests]

NoTask == [cmd |-> NoCommand, complete |-> FALSE, rv |-> NoReply]
Tasks  == [cmd : Requests, complete : BOOLEAN, rv : Replies \cup {NoReply}]

Idle == [st |-> "idle", item |-> "none"]

TypeOK ==
  /\ connected \subseteq Picos
  /\ session \in [Clients -> Sessions]
  /\ task \in [Clients -> Tasks \cup {NoTask}]
  /\ queue \in [Queues -> Seq(Clients)]
  /\ \A q \in Queues : Len(queue[q]) <= QueueSize[q]
  /\ worker \in [Queues -> [st : {"idle", "exec", "signal"},
                            item : Clients \cup {"none"}]]

-----------------------------------------------------------------------------
(* The heap with equal keys. *)

\* Mutant of heap_push: no test of the capacity.
heap_push_Unbounded(h, size, c) == Append(h, c)

heap_push(h, size, c) == IF Len(h) >= size THEN h ELSE Append(h, c)

\* Mutant of heap_pop: the size is reduced and the root is left in place.
heap_pop_KeepsRoot(h) == [i \in 1..(Len(h) - 1) |-> h[i]]

\* What is left of the buffer once the root has been taken.
heap_pop(h) ==
  [i \in 1..(Len(h) - 1) |-> IF i = 1 THEN h[Len(h)] ELSE h[i]]

-----------------------------------------------------------------------------
(* A worker thread exists for the i2c queue and for each Pico opened. *)
HasWorker(q) == q = "i2c" \/ PicoOf(q) \in connected

Init ==
  /\ connected \in SUBSET Picos
  /\ session = [c \in Clients |-> "closed"]
  /\ task = [c \in Clients |-> NoTask]
  /\ queue = [q \in Queues |-> <<>>]
  /\ worker = [q \in Queues |-> Idle]

\* foyer accepts a connection and starts its detached handler.
Accept(c) ==
  /\ session[c] = "closed"
  /\ session' = [session EXCEPT ![c] = "recv"]
  /\ UNCHANGED <<connected, task, queue, worker>>

\* The client closes the connection, or sends what is no request.
Hangup(c) ==
  /\ session[c] = "recv"
  /\ session' = [session EXCEPT ![c] = "closed"]
  /\ UNCHANGED <<connected, task, queue, worker>>

\* The handler answers a request itself: error -3 for an invalid command,
\* "ERROR" for a Pico that is not there.  The two branches that only log leave
\* task.rv NULL.
AnswerAtOnce(c, cmd) ==
  LET r == Route(cmd, connected)
  IN  /\ r \notin Queues
      /\ task' = [task EXCEPT
                    ![c] = [cmd |-> cmd, complete |-> FALSE,
                            rv |-> IF r = "none" THEN NoReply
                                                 ELSE Reply("handler", cmd)]]
      /\ session' = [session EXCEPT ![c] = "reply"]
      /\ UNCHANGED queue

\* The handler submits the request and goes on to wait for its completion;
\* a full queue drops the item without telling the handler.
Submit(c, cmd) ==
  LET q == Route(cmd, connected)
  IN  /\ q \in Queues
      /\ task' = [task EXCEPT ![c] = [cmd |-> cmd, complete |-> FALSE,
                                      rv |-> NoReply]]
      /\ queue' = [queue EXCEPT ![q] = heap_push(@, QueueSize[q], c)]
      /\ session' = [session EXCEPT ![c] = "wait"]

Receive(c, cmd) ==
  /\ session[c] = "recv"
  /\ AnswerAtOnce(c, cmd) \/ Submit(c, cmd)
  /\ UNCHANGED <<connected, worker>>

\* while (!task.complete) pthread_cond_wait(...): one test of the loop, under
\* the task's mutex, which the wait gives up as it goes to sleep.
CheckComplete(c) ==
  /\ session[c] = "wait"
  /\ session' = [session EXCEPT
                   ![c] = IF task[c].complete THEN "reply" ELSE "sleep"]
  /\ UNCHANGED <<connected, task, queue, worker>>

\* Mutant of SpuriousWakeup: the test of complete is an if, not a while.
SpuriousWakeup_NoRecheck(c) ==
  /\ session[c] = "sleep"
  /\ session' = [session EXCEPT ![c] = "reply"]
  /\ UNCHANGED <<connected, task, queue, worker>>

\* A wait on a condition may return without a signal.
SpuriousWakeup(c) ==
  /\ session[c] = "sleep"
  /\ session' = [session EXCEPT ![c] = "wait"]
  /\ UNCHANGED <<connected, task, queue, worker>>

\* message_send, then the task is destroyed; a failed send ends the session.
SendReply(c) ==
  /\ session[c] = "reply"
  /\ \E next \in {"recv", "closed"} :
       session' = [session EXCEPT ![c] = next]
  /\ task' = [task EXCEPT ![c] = NoTask]
  /\ UNCHANGED <<connected, queue, worker>>

\* Mutant of Pop: the last queued item is never taken.
Pop_LeavesOne(q) ==
  /\ HasWorker(q)
  /\ worker[q].st = "idle"
  /\ Len(queue[q]) > 1
  /\ worker' = [worker EXCEPT ![q] = [st |-> "exec", item |-> queue[q][1]]]
  /\ queue' = [queue EXCEPT ![q] = heap_pop(@)]
  /\ UNCHANGED <<connected, session, task>>

Pop(q) ==
  /\ HasWorker(q)
  /\ worker[q].st = "idle"
  /\ queue[q] # <<>>
  /\ worker' = [worker EXCEPT ![q] = [st |-> "exec", item |-> queue[q][1]]]
  /\ queue' = [queue EXCEPT ![q] = heap_pop(@)]
  /\ UNCHANGED <<connected, session, task>>

\* Mutant of Complete: the task is completed and never signalled.
Complete_NoSignal(q) ==
  LET c == worker[q].item
  IN  /\ worker[q].st = "exec"
      /\ task' = [task EXCEPT ![c] = [@ EXCEPT !.complete = TRUE,
                                        !.rv = Reply(q, task[c].cmd)]]
      /\ worker' = [worker EXCEPT ![q] = Idle]
      /\ UNCHANGED <<connected, session, queue>>

\* The command has run: rv and complete are set under the task's mutex.
Complete(q) ==
  LET c == worker[q].item
  IN  /\ worker[q].st = "exec"
      /\ task' = [task EXCEPT ![c] = [@ EXCEPT !.complete = TRUE,
                                        !.rv = Reply(q, task[c].cmd)]]
      /\ worker' = [worker EXCEPT ![q].st = "signal"]
      /\ UNCHANGED <<connected, session, queue>>

\* The signal on the condition in the slot, whatever the slot now holds: it
\* wakes the handler that sleeps there, and is lost on any other.
Signal(q) ==
  LET c == worker[q].item
  IN  /\ worker[q].st = "signal"
      /\ session' = [session EXCEPT ![c] = IF @ = "sleep" THEN "wait" ELSE @]
      /\ worker' = [worker EXCEPT ![q] = Idle]
      /\ UNCHANGED <<connected, task, queue>>

Restarted ==
  /\ connected' \in SUBSET Picos
  /\ session' = [c \in Clients |-> "closed"]
  /\ task' = [c \in Clients |-> NoTask]
  /\ queue' = [q \in Queues |-> <<>>]
  /\ worker' = [q \in Queues |-> Idle]

\* The signal of a destroyed task whose handler thread has ended: its stack
\* may have been unmapped, and the process dies.
SignalUnmapped(q) ==
  /\ worker[q].st = "signal"
  /\ session[worker[q].item] = "closed"
  /\ Restarted

\* accept fails: exit_on_error ends the process and systemd starts it again.
FoyerFails == Restarted

Next ==
  \/ \E c \in Clients :
       \/ Accept(c) \/ Hangup(c) \/ CheckComplete(c) \/ SpuriousWakeup(c)
       \/ SendReply(c)
       \/ \E cmd \in Requests : Receive(c, cmd)
  \/ \E q \in Queues : Pop(q) \/ Complete(q) \/ Signal(q) \/ SignalUnmapped(q)
  \/ FoyerFails

Spec == Init /\ [][Next]_vars

\* The threads are scheduled: a handler that can test its task or send its
\* reply does, and a worker goes on with its loop.  Nothing is assumed of the
\* clients, of spurious wakeups or of restarts.
Fairness ==
  /\ \A c \in Clients : WF_vars(CheckComplete(c)) /\ WF_vars(SendReply(c))
  /\ \A q \in Queues : WF_vars(Pop(q)) /\ WF_vars(Complete(q))
                       /\ WF_vars(Signal(q) \/ SignalUnmapped(q))

FairSpec == Spec /\ Fairness

-----------------------------------------------------------------------------
(* Properties. *)

\* The handler of c waits for an answer that has not been stored yet.
Pending(c) == session[c] \in {"wait", "sleep"} /\ ~task[c].complete

InQueue(c, q)   == \E i \in DOMAIN queue[q] : queue[q][i] = c
Executing(c, q) == worker[q].st = "exec" /\ worker[q].item = c

\* Every pointer a queue or a worker will still read or write through leads to
\* a task whose handler is waiting on it: the stack slot is never given up or
\* reused while a queued or running command refers to it, whatever the order
\* of wakeups, late signals and hangups (handler.c, i2c_loop, pico_loop).
NoDanglingTask ==
  /\ \A q \in Queues : \A i \in DOMAIN queue[q] : Pending(queue[q][i])
  /\ \A q \in Queues : worker[q].st = "exec" => Pending(worker[q].item)

\* A command is in one place only: no two queue positions and workers hold the
\* same task, so a request is carried out at most once.
ExecutedOnce ==
  /\ \A p, q \in Queues : \A i \in DOMAIN queue[p], j \in DOMAIN queue[q] :
       queue[p][i] = queue[q][j] => p = q /\ i = j
  /\ \A c \in Clients, p, q \in Queues :
       Executing(c, p) => ~InQueue(c, q) /\ (Executing(c, q) => p = q)

\* The answer a handler is about to send is there and answers the request the
\* client made, and it was made by the thread in charge of that request: a
\* wakeup that is spurious, or meant for an earlier task in the same slot,
\* never lets a handler send early (the while loop of handler.c), and the
\* branches of handler.c that leave task.rv NULL are out of reach.
ReplyAnswersRequest ==
  \A c \in Clients :
    session[c] = "reply" =>
      /\ task[c].rv.cmd = task[c].cmd
      /\ \/ task[c].rv.by = Route(task[c].cmd, connected)
         \/ /\ task[c].rv.by = "handler"
            /\ Route(task[c].cmd, connected) \in {"reject", "no_pico"}

\* The strengthening that makes the invariants above inductive: a task that is
\* waited for is in the hands of the queue its command is routed to, and once
\* complete it holds that queue's answer.
RightQueue ==
  /\ \A q \in Queues : \A i \in DOMAIN queue[q] :
       Route(task[queue[q][i]].cmd, connected) = q
  /\ \A q \in Queues :
       /\ worker[q].st # "idle" => worker[q].item \in Clients
       /\ worker[q].st = "exec" => Route(task[worker[q].item].cmd, connected) = q

WaitedTask ==
  \A c \in Clients :
    session[c] \in {"wait", "sleep"} =>
      /\ task[c] \in Tasks
      /\ task[c].complete =>
           task[c].rv = Reply(Route(task[c].cmd, connected), task[c].cmd)

IInv == /\ TypeOK /\ NoDanglingTask /\ ExecutedOnce /\ ReplyAnswersRequest
        /\ RightQueue /\ WaitedTask

\* An answer that has been stored is sent: the signal after the unlock is
\* never lost on a handler that goes to sleep (no lost wakeup).
StoredAnswerIsSent ==
  \A c \in Clients :
    (session[c] \in {"wait", "sleep"} /\ task[c].complete)
      ~> session[c] \in {"recv", "closed"}

\* A queued request whose queue has a worker is answered unless three
\* requests come to wait in one queue.  The escape is needed: a pop moves the
\* last item to the root, so with three waiting the second can be passed over
\* for ever (heap_pop).
QueuedIsServed ==
  \A c \in Clients :
    (\E q \in Queues : InQueue(c, q) /\ HasWorker(q))
      ~> (~Pending(c) \/ \E q \in Queues : Len(queue[q]) > 2)

\* "Check if the required pico is connected" (handler.c): a request that has
\* been queued for a Pico has a worker to take it.
QueuedForConnectedPico ==
  \A q \in Queues : queue[q] # <<>> => HasWorker(q)

=============================================================================
