------------------------------- MODULE FairQueue -------------------------------
(***************************************************************************)
(* The admission to the RS485 bus in rs485-server (fair_queue.py): callers *)
(* of several client classes wait in bounded queues and take turns on the  *)
(* one UART, round robin among the classes.                                *)
(*                                                                         *)
(* A caller is a thread.  All the state is read and written under one      *)
(* condition variable, so an action is what a thread does between two      *)
(* waits.  A waiting caller looks at the queue again at least every 50 ms, *)
(* so a notification that comes too early costs time and nothing else;     *)
(* there is no state to keep for it.  Whether its deadline has passed or   *)
(* its client has gone away is open at every look: the allowance that is   *)
(* taken off the deadline is worked out afresh and can shrink again.       *)
(*                                                                         *)
(* The in-process API, without a request context, takes the device lock    *)
(* directly and never waits; it does so at most MaxDirect times.           *)
(***************************************************************************)
EXTENDS Naturals, Sequences, FiniteSets

CONSTANTS
  Callers,     \* the threads that ask for a turn
  CLIENTS,     \* the client classes in their round-robin order
  per_client,  \* the waiting requests of a class (2)
  capacity,    \* the waiting requests of all classes (8)
  MaxDirect    \* bound: the direct uses of the device

N == Len(CLIENTS)
Classes == {CLIENTS[i] : i \in 1..N}

ASSUME FairQueueAssumption ==
  /\ IsFiniteSet(Callers)
  /\ CLIENTS \in Seq(STRING) /\ N > 0
  /\ \A i, j \in 1..N : CLIENTS[i] = CLIENTS[j] => i = j
  /\ per_client \in Nat \ {0} /\ capacity \in Nat \ {0} /\ MaxDirect \in Nat
  /\ "none" \notin Classes

VARIABLES
  waiting,     \* waiting[k]: the tickets of class k, named by their callers
  active,      \* the class whose turn it is, or "none"
  last,        \* the index of the class that had the last turn
  closed,      \* the queue is stopping
  locked,      \* the device lock
  st,          \* st[c]: what caller c is doing
  client,      \* client[c]: the class of the request of c, if it has one
  direct,      \* a direct user is on the bus
  directLeft,  \* the direct uses still to come
  passed       \* passed[c]: the turns begun since c joined the queue

vars == <<waiting, active, last, closed, locked, st, client, direct,
          directLeft, passed>>

\* The requests that wait, by class and place.
Tickets == UNION {{<<k, i>> : i \in DOMAIN waiting[k]} : k \in Classes}

TypeOK ==
  /\ waiting \in [Classes -> Seq(Callers)]
  /\ active \in Classes \cup {"none"}
  /\ last \in 0..(N - 1)
  /\ closed \in BOOLEAN
  /\ locked \in BOOLEAN
  /\ st \in [Callers -> {"idle", "waiting", "running"}]
  /\ client \in [Callers -> Classes]
  /\ direct \in BOOLEAN
  /\ directLeft \in 0..MaxDirect
  /\ passed \in [Callers -> Nat]

Init ==
  /\ waiting = [k \in Classes |-> <<>>]
  /\ active = "none"
  /\ last = N - 1
  /\ closed = FALSE
  /\ locked = FALSE
  /\ st = [c \in Callers |-> "idle"]
  /\ client = [c \in Callers |-> CLIENTS[1]]
  /\ direct = FALSE
  /\ directLeft = MaxDirect
  /\ passed = [c \in Callers |-> 0]

-----------------------------------------------------------------------------

\* The class o places after the last one served.
After(o) == CLIENTS[((last + o) % N) + 1]

\* Mutant of _next: every class in its turn, whether it has a request or not.
_next_WaitsForAbsent(w) == After(1)

\* The first class with a request in w, from the one after the last served.
_next(w) ==
  LET offsets == {o \in 1..N : w[After(o)] # <<>>}
  IN  IF offsets = {} THEN "none"
      ELSE After(CHOOSE o \in offsets : \A p \in offsets : o <= p)

\* Mutant of TurnOf: whether the device lock was free is not looked at.
TurnOf_IgnoresLock(c, k, w) ==
  /\ active = "none" /\ _next(w) = k
  /\ Head(w[k]) = c

\* With the queues w, the turn of caller c of class k has come and the device
\* is free.
TurnOf(c, k, w) ==
  /\ active = "none" /\ _next(w) = k
  /\ Head(w[k]) = c
  /\ ~locked

\* Mutant of indexOf: the turn is not recorded and the round starts anew.
indexOf_NotRecorded(k) == last

\* CLIENTS.index(client).
indexOf(k) == (CHOOSE i \in 1..N : CLIENTS[i] = k) - 1

TakeTurn(c, k, w) ==
  /\ locked' = TRUE
  /\ waiting' = [w EXCEPT ![k] = Tail(@)]
  /\ active' = k
  /\ last' = indexOf(k)
  /\ st' = [st EXCEPT ![c] = "running"]
  /\ passed' = [d \in Callers |-> IF st[d] = "waiting" /\ d # c
                                    THEN passed[d] + 1 ELSE 0]

\* turn() up to its first wait: the ticket is queued and looked at at once.
\* A request is refused, and nothing changes, when the queue is stopping, a
\* direct user has the device, a limit is reached or it is too late for it.
Request(c, k) ==
  LET w == [waiting EXCEPT ![k] = Append(@, c)]
  IN  /\ st[c] = "idle"
      /\ ~closed
      /\ ~(active = "none" /\ locked)
      /\ Len(waiting[k]) < per_client
      /\ Cardinality(Tickets) < capacity
      /\ \/ TurnOf(c, k, w) /\ TakeTurn(c, k, w)
         \/ /\ ~TurnOf(c, k, w)
            /\ waiting' = w
            /\ st' = [st EXCEPT ![c] = "waiting"]
            /\ UNCHANGED <<active, last, locked, passed>>
      /\ client' = [client EXCEPT ![c] = k]
      /\ UNCHANGED <<closed, direct, directLeft>>

\* deque.remove(ticket): the items behind it move up.
remove(s, c) ==
  LET i == CHOOSE i \in DOMAIN s : s[i] = c
  IN  [j \in 1..(Len(s) - 1) |-> IF j < i THEN s[j] ELSE s[j + 1]]

\* Mutant of Leave: the ticket stays in the queue.
Leave_KeepsTicket(c) ==
  /\ st[c] = "waiting"
  /\ st' = [st EXCEPT ![c] = "idle"]
  /\ client' = [client EXCEPT ![c] = CLIENTS[1]]
  /\ passed' = [passed EXCEPT ![c] = 0]
  /\ UNCHANGED <<waiting, active, last, closed, locked, direct, directLeft>>

\* A waiting caller leaves with an exception: QueueClosed once the queue is
\* stopping, else QueueExpired or QueueCancelled.
Leave(c) ==
  /\ st[c] = "waiting"
  /\ waiting' = [waiting EXCEPT ![client[c]] = remove(@, c)]
  /\ st' = [st EXCEPT ![c] = "idle"]
  /\ client' = [client EXCEPT ![c] = CLIENTS[1]]
  /\ passed' = [passed EXCEPT ![c] = 0]
  /\ UNCHANGED <<active, last, closed, locked, direct, directLeft>>

\* Mutant of LeaveClosed: closed keeps a caller from starting, and the loop
\* goes on waiting.
LeaveClosed_WaitsOn(c) == closed /\ FALSE /\ Leave(c)

LeaveClosed(c) == closed /\ Leave(c)
GiveUp(c) == ~closed /\ Leave(c)

\* A waiting caller wakes up and finds that its turn has come.
Start(c) ==
  /\ st[c] = "waiting"
  /\ ~closed
  /\ TurnOf(c, client[c], waiting)
  /\ TakeTurn(c, client[c], waiting)
  /\ UNCHANGED <<closed, client, direct, directLeft>>

\* The turn ends, by return or by exception.
Finish(c) ==
  /\ st[c] = "running"
  /\ locked' = FALSE
  /\ active' = "none"
  /\ st' = [st EXCEPT ![c] = "idle"]
  /\ client' = [client EXCEPT ![c] = CLIENTS[1]]
  /\ UNCHANGED <<waiting, last, closed, direct, directLeft, passed>>

\* turn() without a request context.
DirectStart ==
  /\ ~direct /\ directLeft > 0
  /\ ~locked
  /\ locked' = TRUE
  /\ direct' = TRUE
  /\ directLeft' = directLeft - 1
  /\ UNCHANGED <<waiting, active, last, closed, st, client, passed>>

DirectFinish ==
  /\ direct
  /\ locked' = FALSE
  /\ direct' = FALSE
  /\ UNCHANGED <<waiting, active, last, closed, st, client, directLeft, passed>>

close ==
  /\ closed' = TRUE
  /\ UNCHANGED <<waiting, active, last, locked, st, client, direct, directLeft,
                 passed>>

Next ==
  \/ \E c \in Callers :
       \/ \E k \in Classes : Request(c, k)
       \/ LeaveClosed(c) \/ GiveUp(c) \/ Start(c) \/ Finish(c)
  \/ DirectStart \/ DirectFinish
  \/ close

Spec == Init /\ [][Next]_vars

\* A waiting caller looks at the queue every 50 ms, an exchange on the bus is
\* bounded by its timeouts.  Nothing is assumed of deadlines, of clients that
\* go away or of the operator who stops the server.
Fairness ==
  /\ \A c \in Callers : WF_vars(LeaveClosed(c)) /\ WF_vars(Start(c))
                        /\ WF_vars(Finish(c))
  /\ WF_vars(DirectFinish)

FairSpec == Spec /\ Fairness

-----------------------------------------------------------------------------
(* Properties. *)

\* One user of the bus at a time, queued or direct, and the queue knows it:
\* the device lock is held exactly while someone is on the bus, and a class is
\* active exactly while a queued caller is.
OneOnTheBus ==
  /\ \A c, d \in Callers : st[c] = "running" /\ st[d] = "running" => c = d
  /\ direct => \A c \in Callers : st[c] # "running"
  /\ locked <=> direct \/ \E c \in Callers : st[c] = "running"
  /\ active # "none" <=> \E c \in Callers : st[c] = "running" /\ client[c] = active

\* The limits of the queue hold and every ticket is that of a caller still
\* waiting for it, once: a caller that expires, is cancelled or fails leaves
\* no ticket behind, which at the head of its class would block the bus.
TicketsAreWaiters ==
  /\ \A k \in Classes : Len(waiting[k]) <= per_client
  /\ Cardinality(Tickets) <= capacity
  /\ \A k \in Classes : \A i \in DOMAIN waiting[k] :
       st[waiting[k][i]] = "waiting" /\ client[waiting[k][i]] = k
  /\ \A k \in Classes : \A i, j \in DOMAIN waiting[k] :
       waiting[k][i] = waiting[k][j] => i = j
  /\ \A c \in Callers : st[c] = "waiting" =>
       \E i \in DOMAIN waiting[client[c]] : waiting[client[c]][i] = c

\* The strengthening of the two invariants above that makes them inductive.
IInv == /\ TypeOK /\ OneOnTheBus /\ TicketsAreWaiters
        /\ IsFiniteSet(Tickets)

\* Fair turns: while a request waits, each class has at most one turn for each
\* place the request can be from the head of its own class, whoever leaves,
\* joins again or uses the device directly in the meantime.
BoundedBypass ==
  \A c \in Callers : st[c] = "waiting" => passed[c] <= per_client * N - 1

\* A waiting request is served, or the queue stops, as long as requests do not
\* give up for ever: no class waits for an absent one and no caller is left
\* behind.  The escape is needed: a head that gives up as its turn comes has
\* kept the others from starting, and requests that all do so can come for
\* ever (turn, the deadline is tested before the turn).
WaiterIsServed ==
  (\A c \in Callers : []<>(st[c] # "waiting"))
    \/ []<><<\E c \in Callers : GiveUp(c)>>_vars

\* Stopping cancels what waits and lets the active turn finish: then nobody is
\* left to use the device when it is released.
StopDrains == closed ~> \A c \in Callers : st[c] = "idle"

=============================================================================
