--------------------------- MODULE FairQueueProofs ---------------------------
(***************************************************************************)
(* The safety of the admission to the RS485 bus, for any number of callers *)
(* and classes and any limits.                                             *)
(***************************************************************************)
EXTENDS FairQueue, FiniteSetTheorems, WellFoundedInduction, TLAPS

\* The place of a class in CLIENTS, and the classes reached by After.
LEMMA ClassFacts ==
  /\ N \in Nat /\ N > 0
  /\ \A k \in Classes : indexOf(k) \in 0..(N - 1)
  /\ CLIENTS[1] \in Classes
  <1>1. N \in Nat /\ N > 0
    BY FairQueueAssumption DEF N
  <1>2. \A k \in Classes : \E i \in 1..N : CLIENTS[i] = k
    BY DEF Classes
  <1>3. \A k \in Classes : indexOf(k) \in 0..(N - 1)
    BY <1>1, <1>2 DEF indexOf
  <1> QED
    BY <1>1, <1>3 DEF Classes

\* deque.remove of a ticket that is in the queue once.
LEMMA RemoveFacts ==
  ASSUME NEW s \in Seq(Callers), NEW i \in DOMAIN s, NEW c, s[i] = c,
         \A j \in DOMAIN s : s[j] = c => j = i
  PROVE  /\ remove(s, c) \in Seq(Callers)
         /\ Len(remove(s, c)) = Len(s) - 1
         /\ \A j \in 1..Len(remove(s, c)) :
              remove(s, c)[j] = IF j < i THEN s[j] ELSE s[j + 1]
  <1>1. (CHOOSE x \in DOMAIN s : s[x] = c) = i
    OBVIOUS
  <1>2. remove(s, c) = [j \in 1..(Len(s) - 1) |-> IF j < i THEN s[j] ELSE s[j + 1]]
    BY <1>1 DEF remove
  <1>3. Len(s) - 1 \in Nat
    OBVIOUS
  <1>4. \A j \in 1..(Len(s) - 1) : j \in 1..Len(s) /\ j + 1 \in 1..Len(s)
    OBVIOUS
  <1> QED
    BY <1>2, <1>3, <1>4

\* No ticket waits at the start.
LEMMA InitIInv == Init => IInv
  <1> SUFFICES ASSUME Init PROVE IInv
    OBVIOUS
  <1>1. TypeOK
    <2>1. waiting \in [Classes -> Seq(Callers)]
      BY DEF Init
    <2>2. last \in 0..(N - 1) /\ directLeft \in 0..MaxDirect
      BY ClassFacts, FairQueueAssumption DEF Init
    <2>3. /\ client \in [Callers -> Classes] /\ passed \in [Callers -> Nat]
          /\ st \in [Callers -> {"idle", "waiting", "running"}]
      BY ClassFacts DEF Init
    <2> QED
      BY <2>1, <2>2, <2>3 DEF Init, TypeOK
  <1>2. OneOnTheBus
    BY DEF Init, OneOnTheBus
  <1>3. Tickets = {}
    BY DEF Init, Tickets
  <1>4. IsFiniteSet(Tickets) /\ Cardinality(Tickets) = 0
    BY <1>3, FS_EmptySet
  <1>5. TicketsAreWaiters
    BY <1>4, FairQueueAssumption DEF Init, TicketsAreWaiters
  <1> QED
    BY <1>1, <1>2, <1>4, <1>5 DEF IInv

\* A ticket taken out of its queue by the caller that owns it, which waits no
\* more: what popleft and remove have in common.
LEMMA TicketTaken ==
  ASSUME IInv, NEW c \in Callers, st[c] = "waiting",
         NEW t \in Seq(Callers), NEW i \in DOMAIN waiting[client[c]],
         waiting[client[c]][i] = c,
         Len(t) = Len(waiting[client[c]]) - 1,
         \A j \in 1..Len(t) : t[j] = IF j < i THEN waiting[client[c]][j]
                                              ELSE waiting[client[c]][j + 1],
         waiting' = [waiting EXCEPT ![client[c]] = t],
         st'[c] # "waiting",
         \A d \in Callers : d # c => st'[d] = st[d] /\ client'[d] = client[d]
  PROVE  /\ waiting' \in [Classes -> Seq(Callers)]
         /\ TicketsAreWaiters' /\ IsFiniteSet(Tickets')
  <1> DEFINE k == client[c]
  <1>1. /\ k \in Classes
        /\ waiting \in [Classes -> Seq(Callers)]
        /\ client \in [Callers -> Classes]
    BY DEF IInv, TypeOK
  <1>2. /\ waiting' \in [Classes -> Seq(Callers)]
        /\ waiting'[k] = t
        /\ \A l \in Classes : l # k => waiting'[l] = waiting[l]
    BY <1>1
  <1>3. /\ Len(waiting[k]) \in Nat /\ DOMAIN waiting[k] = 1..Len(waiting[k])
        /\ Len(t) \in Nat /\ DOMAIN t = 1..Len(t)
        /\ i \in 1..Len(waiting[k])
    BY <1>1
  <1> HIDE DEF k
  <1>4. \A m, n \in DOMAIN waiting[k] : waiting[k][m] = waiting[k][n] => m = n
    BY <1>1 DEF IInv, TicketsAreWaiters
  <1>5. Tickets' \subseteq Tickets
    <2>1. \A l \in Classes : DOMAIN waiting'[l] \subseteq DOMAIN waiting[l]
      BY <1>2, <1>3 DEF k
    <2> QED
      BY <2>1 DEF Tickets
  <1>6. IsFiniteSet(Tickets') /\ Cardinality(Tickets') <= Cardinality(Tickets)
    BY <1>5, FS_Subset DEF IInv
  <1>7. Cardinality(Tickets') <= capacity
    <2>1. Cardinality(Tickets) \in Nat /\ Cardinality(Tickets') \in Nat
      BY <1>6, FS_CardinalityType DEF IInv
    <2> QED
      BY <1>6, <2>1, FairQueueAssumption DEF IInv, TicketsAreWaiters
  <1>8. \A l \in Classes : Len(waiting'[l]) <= per_client
    BY <1>1, <1>2, <1>3, FairQueueAssumption DEF IInv, TicketsAreWaiters, k
  \* Where the tickets that are left come from.
  <1>9. \A j \in 1..Len(t) : \E m \in DOMAIN waiting[k] :
          m # i /\ t[j] = waiting[k][m] /\ m = IF j < i THEN j ELSE j + 1
    <2> TAKE j \in 1..Len(t)
    <2> DEFINE m == IF j < i THEN j ELSE j + 1
    <2>1. m \in DOMAIN waiting[k] /\ m # i
      BY <1>3 DEF k
    <2>2. t[j] = waiting[k][m]
      BY <1>3 DEF k
    <2> QED
      BY <2>1, <2>2
  <1>10. \A l \in Classes : \A j \in DOMAIN waiting'[l] :
           st'[waiting'[l][j]] = "waiting" /\ client'[waiting'[l][j]] = l
    <2> TAKE l \in Classes
    <2> TAKE j \in DOMAIN waiting'[l]
    <2>1. /\ waiting'[l][j] \in Callers /\ waiting'[l][j] # c
          /\ st[waiting'[l][j]] = "waiting" /\ client[waiting'[l][j]] = l
      <3>1. CASE l # k
        BY <3>1, <1>1, <1>2 DEF IInv, TicketsAreWaiters, k
      <3>2. CASE l = k
        <4>1. PICK m \in DOMAIN waiting[k] : m # i /\ waiting'[l][j] = waiting[k][m]
          BY <3>2, <1>2, <1>3, <1>9
        <4>2. waiting[k][m] # c
          BY <4>1, <1>3, <1>4 DEF k
        <4> QED
          BY <3>2, <4>1, <4>2, <1>1 DEF IInv, TicketsAreWaiters
      <3> QED
        BY <3>1, <3>2
    <2> QED
      BY <2>1
  <1>11. \A l \in Classes : \A x, y \in DOMAIN waiting'[l] :
           waiting'[l][x] = waiting'[l][y] => x = y
    <2> TAKE l \in Classes
    <2> TAKE x, y \in DOMAIN waiting'[l]
    <2>1. CASE l # k
      BY <2>1, <1>2 DEF IInv, TicketsAreWaiters
    <2>2. CASE l = k
      <3>1. x \in 1..Len(t) /\ y \in 1..Len(t) /\ waiting'[l] = t
        BY <2>2, <1>2, <1>3
      <3>2. PICK m \in DOMAIN waiting[k] :
              t[x] = waiting[k][m] /\ m = IF x < i THEN x ELSE x + 1
        BY <3>1, <1>9
      <3>3. PICK n \in DOMAIN waiting[k] :
              t[y] = waiting[k][n] /\ n = IF y < i THEN y ELSE y + 1
        BY <3>1, <1>9
      <3>4. t[x] = t[y] => m = n
        BY <3>2, <3>3, <1>4
      <3> QED
        BY <3>1, <3>2, <3>3, <3>4, <1>3
    <2> QED
      BY <2>1, <2>2
  <1>12. ASSUME NEW d \in Callers, st'[d] = "waiting"
         PROVE  \E x \in DOMAIN waiting'[client'[d]] : waiting'[client'[d]][x] = d
    <2>1. d # c /\ st[d] = "waiting" /\ client'[d] = client[d]
      BY <1>12
    <2>2. PICK x \in DOMAIN waiting[client[d]] : waiting[client[d]][x] = d
      BY <2>1 DEF IInv, TicketsAreWaiters
    <2>3. client[d] \in Classes
      BY <1>1
    <2>4. CASE client[d] # k
      <3>1. waiting'[client[d]] = waiting[client[d]]
        BY <2>3, <2>4, <1>2
      <3> QED
        BY <2>1, <2>2, <3>1
    <2>5. CASE client[d] = k
      <3>1. x # i /\ x \in 1..Len(waiting[k])
        BY <2>1, <2>2, <2>5, <1>3 DEF k
      <3> DEFINE y == IF x < i THEN x ELSE x - 1
      <3>2. y \in 1..Len(t)
        BY <3>1, <1>3 DEF k
      <3>3. t[y] = waiting[k][x]
        BY <3>1, <3>2, <1>3 DEF k
      <3> QED
        BY <2>1, <2>2, <2>5, <3>2, <3>3, <1>2, <1>3
    <2> QED
      BY <2>4, <2>5
  <1> QED
    BY <1>2, <1>6, <1>7, <1>8, <1>10, <1>11, <1>12 DEF TicketsAreWaiters

\* A ticket queued by a caller that had none.
LEMMA TicketAdded ==
  ASSUME IInv, NEW c \in Callers, NEW k \in Classes, st[c] = "idle",
         Len(waiting[k]) < per_client, Cardinality(Tickets) < capacity,
         waiting' = [waiting EXCEPT ![k] = Append(@, c)],
         st' = [st EXCEPT ![c] = "waiting"],
         client' = [client EXCEPT ![c] = k]
  PROVE  /\ waiting' \in [Classes -> Seq(Callers)]
         /\ TicketsAreWaiters' /\ IsFiniteSet(Tickets')
  <1> DEFINE n == Len(waiting[k])
  <1>1. /\ waiting \in [Classes -> Seq(Callers)]
        /\ client \in [Callers -> Classes]
        /\ st \in [Callers -> {"idle", "waiting", "running"}]
    BY DEF IInv, TypeOK
  <1>2. /\ waiting' \in [Classes -> Seq(Callers)]
        /\ waiting'[k] = Append(waiting[k], c)
        /\ \A l \in Classes : l # k => waiting'[l] = waiting[l]
    BY <1>1
  <1>3. /\ n \in Nat /\ DOMAIN waiting[k] = 1..n
        /\ Len(waiting'[k]) = n + 1 /\ DOMAIN waiting'[k] = 1..(n + 1)
        /\ \A j \in 1..n : waiting'[k][j] = waiting[k][j]
        /\ waiting'[k][n + 1] = c
    BY <1>1, <1>2
  <1> HIDE DEF n
  <1>4. /\ st'[c] = "waiting" /\ client'[c] = k
        /\ \A d \in Callers : d # c => st'[d] = st[d] /\ client'[d] = client[d]
    BY <1>1
  <1>5. \A l \in Classes : \A j \in DOMAIN waiting[l] :
          waiting[l][j] \in Callers /\ waiting[l][j] # c
    BY <1>1 DEF IInv, TicketsAreWaiters
  <1>6. \A l \in Classes : \A j \in DOMAIN waiting'[l] :
          \/ j \in DOMAIN waiting[l] /\ waiting'[l][j] = waiting[l][j]
          \/ l = k /\ j = n + 1 /\ waiting'[l][j] = c
    BY <1>2, <1>3
  <1>7. Tickets' \subseteq Tickets \cup {<<k, n + 1>>}
    BY <1>6 DEF Tickets
  <1>8. IsFiniteSet(Tickets') /\ Cardinality(Tickets') <= capacity
    <2> DEFINE T == Tickets \cup {<<k, n + 1>>}
    <2>1. /\ IsFiniteSet(T)
          /\ Cardinality(T) = Cardinality(Tickets) \/ Cardinality(T) = Cardinality(Tickets) + 1
      BY FS_AddElement DEF IInv
    <2>2. IsFiniteSet(Tickets') /\ Cardinality(Tickets') <= Cardinality(T)
      BY <1>7, <2>1, FS_Subset
    <2>3. /\ Cardinality(Tickets) \in Nat /\ Cardinality(Tickets') \in Nat
          /\ Cardinality(T) \in Nat
      BY <2>1, <2>2, FS_CardinalityType DEF IInv
    <2> HIDE DEF T
    <2> QED
      BY <2>1, <2>2, <2>3, FairQueueAssumption
  <1>9. \A l \in Classes : Len(waiting'[l]) <= per_client
    <2>1. Len(waiting'[k]) <= per_client
      BY <1>3, FairQueueAssumption DEF n
    <2> QED
      BY <2>1, <1>2 DEF IInv, TicketsAreWaiters
  <1>10. \A l \in Classes : \A j \in DOMAIN waiting'[l] :
           st'[waiting'[l][j]] = "waiting" /\ client'[waiting'[l][j]] = l
    BY <1>4, <1>5, <1>6 DEF IInv, TicketsAreWaiters
  <1>11. \A l \in Classes : \A x, y \in DOMAIN waiting'[l] :
           waiting'[l][x] = waiting'[l][y] => x = y
    BY <1>5, <1>6 DEF IInv, TicketsAreWaiters
  <1>12. ASSUME NEW d \in Callers, st'[d] = "waiting"
         PROVE  \E x \in DOMAIN waiting'[client'[d]] : waiting'[client'[d]][x] = d
    <2>1. CASE d = c
      BY <2>1, <1>3, <1>4
    <2>2. CASE d # c
      <3>1. PICK x \in DOMAIN waiting[client[d]] : waiting[client[d]][x] = d
        BY <1>12, <2>2, <1>4 DEF IInv, TicketsAreWaiters
      <3>2. x \in DOMAIN waiting'[client[d]] /\ waiting'[client[d]][x] = d
        <4>1. CASE client[d] = k
          BY <3>1, <4>1, <1>3
        <4>2. CASE client[d] # k
          BY <3>1, <4>2, <1>1, <1>2
        <4> QED
          BY <4>1, <4>2
      <3> QED
        BY <3>2, <2>2, <1>4
    <2> QED
      BY <2>1, <2>2
  <1> QED
    BY <1>2, <1>8, <1>9, <1>10, <1>11, <1>12 DEF TicketsAreWaiters

\* A step that changes neither the tickets nor who waits.
LEMMA TicketsKept ==
  ASSUME IInv, waiting' = waiting,
         \A d \in Callers : (st[d] = "waiting" <=> st'[d] = "waiting"),
         \A d \in Callers : st[d] = "waiting" => client'[d] = client[d]
  PROVE  TicketsAreWaiters' /\ IsFiniteSet(Tickets')
  <1>1. Tickets' = Tickets
    BY DEF Tickets
  <1>2. \A k \in Classes : \A i \in DOMAIN waiting[k] : waiting[k][i] \in Callers
    BY DEF IInv, TypeOK
  <1> QED
    BY <1>1, <1>2 DEF IInv, TicketsAreWaiters

\* A caller gets its turn at once, or its ticket waits.
LEMMA RequestIInv ==
  ASSUME IInv, NEW c \in Callers, NEW k \in Classes, Request(c, k)
  PROVE  IInv'
  <1> DEFINE w == [waiting EXCEPT ![k] = Append(@, c)]
  <1>1. /\ st[c] = "idle" /\ Len(waiting[k]) < per_client
        /\ Cardinality(Tickets) < capacity
        /\ client' = [client EXCEPT ![c] = k]
        /\ UNCHANGED <<closed, direct, directLeft>>
    BY DEF Request
  <1>2. /\ waiting \in [Classes -> Seq(Callers)]
        /\ client \in [Callers -> Classes]
        /\ st \in [Callers -> {"idle", "waiting", "running"}]
        /\ passed \in [Callers -> Nat]
    BY DEF IInv, TypeOK
  <1>3. client' \in [Callers -> Classes]
    BY <1>1, <1>2
  <1>4. CASE TurnOf(c, k, w) /\ TakeTurn(c, k, w)
    <2>1. waiting[k] = <<>>
      <3>1. w[k] = Append(waiting[k], c)
        BY <1>2
      <3>2. Head(Append(waiting[k], c)) = c
        BY <1>4, <3>1 DEF TurnOf
      <3>3. waiting[k] # <<>> => 1 \in DOMAIN waiting[k] /\ waiting[k][1] = c
        BY <3>2, <1>2
      <3> QED
        BY <3>3, <1>1 DEF IInv, TicketsAreWaiters
    <2>2. waiting' = waiting
      <3>1. waiting' = [w EXCEPT ![k] = Tail(@)]
        BY <1>4 DEF TakeTurn
      <3>2. w[k] = <<c>>
        BY <2>1, <1>2
      <3>3. Tail(<<c>>) = <<>>
        OBVIOUS
      <3>4. waiting'[k] = waiting[k]
        BY <3>1, <3>2, <3>3, <2>1, <1>2
      <3> QED
        BY <3>1, <3>4, <1>2
    <2>3. /\ active = "none" /\ ~locked /\ locked' = TRUE /\ active' = k
          /\ last' = indexOf(k)
          /\ st' = [st EXCEPT ![c] = "running"]
          /\ passed' = [d \in Callers |-> IF st[d] = "waiting" /\ d # c
                                            THEN passed[d] + 1 ELSE 0]
      BY <1>4 DEF TurnOf, TakeTurn
    <2>4. TypeOK'
      <3>1. passed' \in [Callers -> Nat]
        BY <2>3, <1>2
      <3>2. last' \in 0..(N - 1)
        BY <2>3, ClassFacts
      <3> QED
        BY <2>2, <2>3, <3>1, <3>2, <1>1, <1>2, <1>3 DEF IInv, TypeOK
    <2>5. OneOnTheBus'
      BY <2>3, <1>1, <1>2, FairQueueAssumption DEF IInv, OneOnTheBus
    <2>6. TicketsAreWaiters' /\ IsFiniteSet(Tickets')
      BY <2>2, <2>3, <1>1, <1>2, TicketsKept
    <2> QED
      BY <2>4, <2>5, <2>6 DEF IInv
  <1>5. CASE /\ waiting' = w
             /\ st' = [st EXCEPT ![c] = "waiting"]
             /\ UNCHANGED <<active, last, locked, passed>>
    <2>1. /\ waiting' \in [Classes -> Seq(Callers)]
          /\ TicketsAreWaiters' /\ IsFiniteSet(Tickets')
      BY <1>1, <1>5, TicketAdded
    <2>2. TypeOK'
      BY <2>1, <1>1, <1>3, <1>5 DEF IInv, TypeOK
    <2>3. OneOnTheBus'
      BY <1>1, <1>2, <1>5 DEF IInv, OneOnTheBus
    <2> QED
      BY <2>1, <2>2, <2>3 DEF IInv
  <1> QED
    BY <1>4, <1>5 DEF Request

\* A waiting caller leaves with an exception and takes its ticket along.
LEMMA LeaveIInv ==
  ASSUME IInv, NEW c \in Callers, Leave(c)
  PROVE  IInv'
  <1> DEFINE k == client[c]
             t == remove(waiting[k], c)
  <1>1. /\ waiting \in [Classes -> Seq(Callers)]
        /\ client \in [Callers -> Classes]
        /\ st \in [Callers -> {"idle", "waiting", "running"}]
        /\ passed \in [Callers -> Nat]
        /\ st[c] = "waiting"
    BY DEF IInv, TypeOK, Leave
  <1>2. PICK i \in DOMAIN waiting[k] :
          waiting[k][i] = c /\ \A j \in DOMAIN waiting[k] : waiting[k][j] = c => j = i
    BY <1>1 DEF IInv, TicketsAreWaiters
  <1>3. waiting[k] \in Seq(Callers)
    BY <1>1
  <1>4. /\ t \in Seq(Callers)
        /\ Len(t) = Len(waiting[k]) - 1
        /\ \A j \in 1..Len(t) :
             t[j] = IF j < i THEN waiting[k][j] ELSE waiting[k][j + 1]
    BY <1>2, <1>3, RemoveFacts
  <1>5. /\ waiting' = [waiting EXCEPT ![k] = t]
        /\ st' = [st EXCEPT ![c] = "idle"]
        /\ client' = [client EXCEPT ![c] = CLIENTS[1]]
        /\ passed' = [passed EXCEPT ![c] = 0]
        /\ UNCHANGED <<active, last, closed, locked, direct, directLeft>>
    BY DEF Leave
  <1>6. /\ st'[c] = "idle"
        /\ \A d \in Callers : d # c => st'[d] = st[d] /\ client'[d] = client[d]
    BY <1>1, <1>5
  <1> HIDE DEF t
  <1>7. /\ waiting' \in [Classes -> Seq(Callers)]
        /\ TicketsAreWaiters' /\ IsFiniteSet(Tickets')
    BY <1>1, <1>2, <1>4, <1>5, <1>6, TicketTaken
  <1>8. TypeOK'
    BY <1>1, <1>5, <1>7, ClassFacts DEF IInv, TypeOK
  <1>9. OneOnTheBus'
    BY <1>1, <1>5, <1>6 DEF IInv, OneOnTheBus
  <1> QED
    BY <1>7, <1>8, <1>9 DEF IInv

\* The head of the next class takes the device.
LEMMA StartIInv ==
  ASSUME IInv, NEW c \in Callers, Start(c)
  PROVE  IInv'
  <1> DEFINE k == client[c]
  <1>1. /\ waiting \in [Classes -> Seq(Callers)]
        /\ client \in [Callers -> Classes]
        /\ st \in [Callers -> {"idle", "waiting", "running"}]
        /\ passed \in [Callers -> Nat]
        /\ st[c] = "waiting" /\ k \in Classes
    BY DEF IInv, TypeOK, Start
  <1>2. /\ active = "none" /\ ~locked /\ locked' = TRUE /\ active' = k
        /\ Head(waiting[k]) = c
        /\ waiting' = [waiting EXCEPT ![k] = Tail(@)]
        /\ last' = indexOf(k)
        /\ st' = [st EXCEPT ![c] = "running"]
        /\ passed' = [d \in Callers |-> IF st[d] = "waiting" /\ d # c
                                          THEN passed[d] + 1 ELSE 0]
        /\ UNCHANGED <<closed, client, direct, directLeft>>
    BY DEF Start, TurnOf, TakeTurn
  <1>3. waiting[k] \in Seq(Callers) /\ waiting[k] # <<>>
    BY <1>1 DEF IInv, TicketsAreWaiters
  <1>4. /\ 1 \in DOMAIN waiting[k] /\ waiting[k][1] = c
        /\ Tail(waiting[k]) \in Seq(Callers)
        /\ Len(Tail(waiting[k])) = Len(waiting[k]) - 1
        /\ \A j \in 1..Len(Tail(waiting[k])) :
             Tail(waiting[k])[j] = IF j < 1 THEN waiting[k][j] ELSE waiting[k][j + 1]
    BY <1>2, <1>3
  <1>5. /\ st'[c] = "running"
        /\ \A d \in Callers : d # c => st'[d] = st[d] /\ client'[d] = client[d]
    BY <1>1, <1>2
  <1>6. /\ waiting' \in [Classes -> Seq(Callers)]
        /\ TicketsAreWaiters' /\ IsFiniteSet(Tickets')
    BY <1>1, <1>2, <1>4, <1>5, TicketTaken
  <1>7. TypeOK'
    <2>1. passed' \in [Callers -> Nat]
      BY <1>1, <1>2
    <2>2. last' \in 0..(N - 1)
      BY <1>1, <1>2, ClassFacts
    <2> QED
      BY <2>1, <2>2, <1>1, <1>2, <1>6 DEF IInv, TypeOK
  <1>8. OneOnTheBus'
    BY <1>1, <1>2, <1>5, FairQueueAssumption DEF IInv, OneOnTheBus
  <1> QED
    BY <1>6, <1>7, <1>8 DEF IInv

\* A turn ends.
LEMMA FinishIInv ==
  ASSUME IInv, NEW c \in Callers, Finish(c)
  PROVE  IInv'
  <1>1. /\ client \in [Callers -> Classes]
        /\ st \in [Callers -> {"idle", "waiting", "running"}]
        /\ st[c] = "running" /\ CLIENTS[1] \in Classes
    BY ClassFacts DEF IInv, TypeOK, Finish
  <1>2. TypeOK'
    BY <1>1 DEF IInv, TypeOK, Finish
  <1>3. OneOnTheBus'
    BY <1>1 DEF IInv, OneOnTheBus, Finish
  <1>4. TicketsAreWaiters' /\ IsFiniteSet(Tickets')
    BY <1>1, TicketsKept DEF Finish
  <1> QED
    BY <1>2, <1>3, <1>4 DEF IInv

\* A direct use of the device, the stop of the queue, or no step at all.
LEMMA OtherIInv ==
  ASSUME IInv, DirectStart \/ DirectFinish \/ close \/ UNCHANGED vars
  PROVE  IInv'
  <1>1. waiting' = waiting /\ st' = st /\ client' = client
    BY DEF DirectStart, DirectFinish, close, vars
  <1>2. TicketsAreWaiters' /\ IsFiniteSet(Tickets')
    BY <1>1, TicketsKept
  <1>3. TypeOK'
    <2>1. directLeft' \in 0..MaxDirect
      BY FairQueueAssumption
         DEF IInv, TypeOK, DirectStart, DirectFinish, close, vars
    <2>2. /\ locked' \in BOOLEAN /\ direct' \in BOOLEAN /\ closed' \in BOOLEAN
          /\ active' = active /\ last' = last /\ passed' = passed
      BY DEF IInv, TypeOK, DirectStart, DirectFinish, close, vars
    <2> QED
      BY <1>1, <2>1, <2>2 DEF IInv, TypeOK
  <1>4. OneOnTheBus'
    BY DEF IInv, OneOnTheBus, DirectStart, DirectFinish, close, vars
  <1> QED
    BY <1>2, <1>3, <1>4 DEF IInv

\* The inductive invariant holds in every state of the queue: no order of
\* requests, expiries, disconnects, direct uses and the stop breaks it.
THEOREM QueueInvariant == Spec => []IInv
  <1>1. ASSUME IInv, [Next]_vars
        PROVE  IInv'
    <2>1. ASSUME NEW c \in Callers, NEW k \in Classes, Request(c, k)
          PROVE  IInv'
      BY <1>1, <2>1, RequestIInv
    <2>2. ASSUME NEW c \in Callers, LeaveClosed(c) \/ GiveUp(c)
          PROVE  IInv'
      BY <1>1, <2>2, LeaveIInv DEF LeaveClosed, GiveUp
    <2>3. ASSUME NEW c \in Callers, Start(c)
          PROVE  IInv'
      BY <1>1, <2>3, StartIInv
    <2>4. ASSUME NEW c \in Callers, Finish(c)
          PROVE  IInv'
      BY <1>1, <2>4, FinishIInv
    <2>5. CASE DirectStart \/ DirectFinish \/ close \/ UNCHANGED vars
      BY <1>1, <2>5, OtherIInv
    <2> QED
      BY <1>1, <2>1, <2>2, <2>3, <2>4, <2>5 DEF Next
  <1> QED
    BY InitIInv, <1>1, PTL DEF Spec

\* At most one user of the UART at any time, queued or direct, and the queue's
\* own account of it (active, the device lock) is right.
THEOREM QueueOneOnTheBus == Spec => []OneOnTheBus
  BY QueueInvariant, PTL DEF IInv

\* No limit of the queue is exceeded, no ticket outlives its caller's wait and
\* no waiting caller is without its ticket.
THEOREM QueueTicketsAreWaiters == Spec => []TicketsAreWaiters
  BY QueueInvariant, PTL DEF IInv

\* Every variable keeps its type through any sequence of turns.
THEOREM QueueTypeOK == Spec => []TypeOK
  BY QueueInvariant, PTL DEF IInv

-----------------------------------------------------------------------------
(***************************************************************************)
(* Fair turns.  BoundedBypass is not inductive: how often a request can    *)
(* still be passed over depends on its place in the queue of its class and *)
(* on how far the round is from that class.  Both together bound the turns *)
(* still to come, and every turn that passes the request over takes at     *)
(* least one off that bound.                                               *)
(***************************************************************************)

\* The turns until class k is the first to be looked at, its own included.
Distance(k) == IF indexOf(k) > last THEN indexOf(k) - last
                                    ELSE indexOf(k) + N - last

\* The turns a request has been passed over and those that may still do so
\* are together no more than its class has places in rounds of N classes; a
\* caller that does not wait has been passed over by none.
Bounded(c) ==
  /\ st[c] # "waiting" => passed[c] = 0
  /\ st[c] = "waiting" =>
       \A i \in DOMAIN waiting[client[c]] :
         waiting[client[c]][i] = c =>
           passed[c] + ((i - 1) * N + Distance(client[c])) <= per_client * N

BypassInv == \A c \in Callers : Bounded(c)

\* The round reaches a class after Distance steps, and no step before.
LEMMA RoundFacts ==
  ASSUME last \in 0..(N - 1)
  PROVE  /\ \A k \in Classes : Distance(k) \in 1..N /\ After(Distance(k)) = k
         /\ \A o \in 1..N : After(o) \in Classes /\ Distance(After(o)) = o
  <1>1. N \in Nat /\ N > 0
    BY ClassFacts
  <1>2. \A o \in 1..N : (last + o) % N = IF last + o < N THEN last + o ELSE last + o - N
    <2> TAKE o \in 1..N
    <2>1. CASE last + o < N
      BY <1>1, <2>1
    <2>2. CASE ~(last + o < N)
      <3>1. last + o - N \in 0..(N - 1)
        BY <1>1, <2>2
      <3>2. \E q \in Int : last + o = N * q + (last + o - N)
        BY <1>1
      <3> QED
        BY <1>1, <2>2, <3>1, <3>2
    <2> QED
      BY <2>1, <2>2
  <1>3. \A k \in Classes : indexOf(k) \in 0..(N - 1) /\ CLIENTS[indexOf(k) + 1] = k
    <2> TAKE k \in Classes
    <2>1. \E i \in 1..N : CLIENTS[i] = k
      BY DEF Classes
    <2> DEFINE i == CHOOSE j \in 1..N : CLIENTS[j] = k
    <2>2. i \in 1..N /\ CLIENTS[i] = k
      BY <2>1
    <2>3. indexOf(k) = i - 1
      BY DEF indexOf
    <2> HIDE DEF i
    <2> QED
      BY <1>1, <2>2, <2>3
  <1>4. \A i \in 0..(N - 1) : CLIENTS[i + 1] \in Classes /\ indexOf(CLIENTS[i + 1]) = i
    <2> TAKE i \in 0..(N - 1)
    <2>1. i + 1 \in 1..N
      BY <1>1
    <2>2. CLIENTS[i + 1] \in Classes
      BY <2>1 DEF Classes
    <2>3. indexOf(CLIENTS[i + 1]) + 1 \in 1..N
      BY <1>1, <1>3, <2>2
    <2>4. indexOf(CLIENTS[i + 1]) + 1 = i + 1
      BY <1>3, <2>1, <2>2, <2>3, FairQueueAssumption
    <2> QED
      BY <2>2, <2>4, <1>1, <1>3
  <1>5. ASSUME NEW k \in Classes
        PROVE  Distance(k) \in 1..N /\ After(Distance(k)) = k
    <2>1. Distance(k) \in 1..N
      BY <1>1, <1>3 DEF Distance
    <2>2. (last + Distance(k)) % N = indexOf(k)
      <3>1. (last + Distance(k)) % N = IF last + Distance(k) < N
              THEN last + Distance(k) ELSE last + Distance(k) - N
        BY <1>2, <2>1
      <3> QED
        BY <3>1, <1>1, <1>3 DEF Distance
    <2> QED
      BY <2>1, <2>2, <1>3 DEF After
  <1>6. ASSUME NEW o \in 1..N
        PROVE  After(o) \in Classes /\ Distance(After(o)) = o
    <2> DEFINE m == (last + o) % N
    <2>1. m = IF last + o < N THEN last + o ELSE last + o - N
      BY <1>2
    <2>2. m \in 0..(N - 1)
      BY <2>1, <1>1
    <2>3. After(o) = CLIENTS[m + 1]
      BY DEF After
    <2> HIDE DEF m
    <2>4. After(o) \in Classes /\ indexOf(After(o)) = m
      BY <1>4, <2>2, <2>3
    <2> QED
      BY <2>1, <2>4, <1>1 DEF Distance
  <1> QED
    BY <1>5, <1>6

\* A set of numbers that is not empty has a least one.
LEMMA LeastNumber ==
  ASSUME NEW S \in SUBSET Nat, S # {}
  PROVE  \E n \in S : \A m \in S : n <= m
  <1>1. \A m, n \in Nat : <<m, n>> \in OpToRel(<, Nat) <=> m < n
    BY DEF OpToRel
  <1>2. \E n \in S : \A m \in S : ~(<<m, n>> \in OpToRel(<, Nat))
    BY NatLessThanWellFounded, WFMin
  <1>3. \E n \in S : \A m \in S : ~(m < n)
    BY <1>1, <1>2, Zenon
  <1> QED
    BY <1>3

\* _next gives the nearest class that has a request.
LEMMA NextFacts ==
  ASSUME last \in 0..(N - 1), NEW w, NEW j \in Classes, _next(w) = j
  PROVE  /\ w[j] # <<>>
         /\ \A k \in Classes : w[k] # <<>> => Distance(j) <= Distance(k)
  <1> DEFINE offsets == {o \in 1..N : w[After(o)] # <<>>}
  <1>1. N \in Nat
    BY ClassFacts
  <1>2. offsets # {}
    BY FairQueueAssumption DEF _next
  <1>3. offsets \in SUBSET Nat
    BY <1>1
  <1>4. \E o \in offsets : \A p \in offsets : o <= p
    <2> HIDE DEF offsets
    <2> QED
      BY <1>2, <1>3, LeastNumber
  <1>5. PICK o \in offsets : (\A p \in offsets : o <= p) /\ j = After(o)
    <2> DEFINE least == CHOOSE o \in offsets : \A p \in offsets : o <= p
    <2>1. least \in offsets /\ \A p \in offsets : least <= p
      BY <1>4
    <2>2. j = After(least)
      BY <1>2 DEF _next
    <2> HIDE DEF least
    <2> QED
      BY <2>1, <2>2
  <1>6. o \in 1..N /\ w[After(o)] # <<>> /\ Distance(j) = o
    BY <1>5, RoundFacts
  <1>7. ASSUME NEW k \in Classes, w[k] # <<>>
        PROVE  Distance(j) <= Distance(k)
    <2>1. Distance(k) \in offsets
      BY <1>7, RoundFacts
    <2> QED
      BY <2>1, <1>5, <1>6
  <1> QED
    BY <1>5, <1>6, <1>7

\* A turn of class k takes one off what a request of another class is from its
\* own turn, and one place off what a request of class k is from the head.
LEMMA TurnPasses ==
  ASSUME IInv, NEW k \in Classes, last' = indexOf(k),
         NEW d \in Callers, Bounded(d), st[d] = "waiting",
         st'[d] = "waiting", client'[d] = client[d],
         passed'[d] = passed[d] + 1,
         \/ /\ client[d] # k /\ Distance(k) <= Distance(client[d])
            /\ waiting'[client[d]] = waiting[client[d]]
         \/ /\ client[d] = k
            /\ \A i \in DOMAIN waiting'[k] :
                 i \in Nat /\ i + 1 \in DOMAIN waiting[k]
                 /\ waiting'[k][i] = waiting[k][i + 1]
  PROVE  Bounded(d)'
  <1> DEFINE l == client[d]
  <1>1. /\ N \in Nat /\ N > 0 /\ per_client \in Nat /\ per_client * N \in Nat
        /\ last \in 0..(N - 1) /\ l \in Classes /\ passed[d] \in Nat
        /\ waiting \in [Classes -> Seq(Callers)]
    BY ClassFacts, FairQueueAssumption DEF IInv, TypeOK
  <1>2. indexOf(k) \in 0..(N - 1) /\ indexOf(l) \in 0..(N - 1)
    BY <1>1, ClassFacts
  <1>3. Distance(k) \in 1..N /\ Distance(l) \in 1..N
    BY <1>1, RoundFacts
  <1> DEFINE D == IF indexOf(l) > indexOf(k) THEN indexOf(l) - indexOf(k)
                                             ELSE indexOf(l) + N - indexOf(k)
  <1>4. Distance(client[d])' = D
    BY DEF Distance
  <1>5. ASSUME NEW i \in DOMAIN waiting'[l], waiting'[l][i] = d
        PROVE  passed'[d] + ((i - 1) * N + D) <= per_client * N
    <2>1. CASE l # k
      <3>1. /\ i \in DOMAIN waiting[l] /\ waiting[l][i] = d /\ i \in Nat
            /\ Distance(k) <= Distance(l)
        BY <1>1, <1>5, <2>1
      <3>2. indexOf(k) # indexOf(l)
        <4>1. After(Distance(k)) = k /\ After(Distance(l)) = l
          BY <1>1, RoundFacts
        <4> QED
          BY <4>1, <2>1 DEF Distance
      <3>3. D <= Distance(l) - 1
        BY <3>1, <3>2, <1>1, <1>2 DEF Distance
      <3>4. passed[d] + ((i - 1) * N + Distance(l)) <= per_client * N
        BY <3>1 DEF Bounded
      <3>5. (i - 1) * N \in Int /\ D \in Int
        BY <3>1, <1>1, <1>2
      <3> HIDE DEF D
      <3> QED
        BY <3>3, <3>4, <3>5, <1>1, <1>3
    <2>2. CASE l = k
      <3>1. i \in Nat /\ i + 1 \in DOMAIN waiting[l] /\ waiting[l][i + 1] = d
        BY <1>5, <2>2
      <3>2. passed[d] + (((i + 1) - 1) * N + Distance(l)) <= per_client * N
        BY <3>1 DEF Bounded
      <3>3. D = N
        BY <2>2, <1>1, <1>2
      <3>4. ((i + 1) - 1) * N = (i - 1) * N + N
        BY <3>1, <1>1
      <3>5. (i - 1) * N \in Int
        BY <3>1, <1>1
      <3> HIDE DEF D
      <3> QED
        BY <3>2, <3>3, <3>4, <3>5, <1>1, <1>3
    <2> QED
      BY <2>1, <2>2
  <1> HIDE DEF D
  <1> QED
    BY <1>4, <1>5 DEF Bounded

\* A request that no turn passes over and that does not move back in its queue
\* keeps its bound.
LEMMA NotPassed ==
  ASSUME IInv, NEW d \in Callers, Bounded(d), st[d] = "waiting",
         client'[d] = client[d], passed'[d] = passed[d], last' = last,
         st'[d] = "waiting",
         \A i \in DOMAIN waiting'[client[d]] : waiting'[client[d]][i] = d =>
           i \in Nat /\ \E j \in DOMAIN waiting[client[d]] :
             waiting[client[d]][j] = d /\ i <= j
  PROVE  Bounded(d)'
  <1> DEFINE l == client[d]
  <1>1. /\ N \in Nat /\ N > 0 /\ per_client * N \in Nat
        /\ last \in 0..(N - 1) /\ l \in Classes /\ passed[d] \in Nat
        /\ waiting \in [Classes -> Seq(Callers)]
    BY ClassFacts, FairQueueAssumption DEF IInv, TypeOK
  <1>2. Distance(l) \in 1..N
    BY <1>1, RoundFacts
  <1>3. Distance(client[d])' = Distance(l)
    BY DEF Distance
  <1>4. ASSUME NEW i \in DOMAIN waiting'[l], waiting'[l][i] = d
        PROVE  passed'[d] + ((i - 1) * N + Distance(l)) <= per_client * N
    <2>1. PICK j \in DOMAIN waiting[l] : waiting[l][j] = d /\ i <= j
      BY <1>4
    <2>2. i \in Nat /\ j \in Nat
      BY <1>1, <1>4, <2>1
    <2>3. passed[d] + ((j - 1) * N + Distance(l)) <= per_client * N
      BY <2>1 DEF Bounded
    <2>4. (i - 1) * N <= (j - 1) * N
      <3>1. (j - 1) * N = (i - 1) * N + (j - i) * N
        BY <2>2, <1>1
      <3>2. (j - i) * N >= 0
        BY <2>1, <2>2, <1>1
      <3> QED
        BY <3>1, <3>2, <2>2, <1>1
    <2>5. (i - 1) * N \in Int /\ (j - 1) * N \in Int
      BY <2>2, <1>1
    <2> QED
      BY <2>3, <2>4, <2>5, <1>1, <1>2
  <1> QED
    BY <1>3, <1>4 DEF Bounded

\* A new request is passed over by no turn yet, and is at worst the last of its
\* class with a whole round before it.
LEMMA RequestBypass ==
  ASSUME IInv, BypassInv, NEW c \in Callers, NEW k \in Classes, Request(c, k)
  PROVE  BypassInv'
  <1> DEFINE w == [waiting EXCEPT ![k] = Append(@, c)]
  <1>1. /\ st[c] = "idle" /\ Len(waiting[k]) < per_client
        /\ client' = [client EXCEPT ![c] = k]
    BY DEF Request
  <1>2. /\ waiting \in [Classes -> Seq(Callers)]
        /\ client \in [Callers -> Classes]
        /\ st \in [Callers -> {"idle", "waiting", "running"}]
        /\ passed \in [Callers -> Nat] /\ last \in 0..(N - 1)
    BY DEF IInv, TypeOK
  <1>3. w[k] = Append(waiting[k], c) /\ \A l \in Classes : l # k => w[l] = waiting[l]
    BY <1>2
  <1>4. \A d \in Callers : d # c /\ st[d] = "waiting" =>
          client[d] \in Classes /\ \E i \in DOMAIN waiting[client[d]] : waiting[client[d]][i] = d
    BY <1>2 DEF IInv, TicketsAreWaiters
  <1>5. CASE TurnOf(c, k, w) /\ TakeTurn(c, k, w)
    <2>1. /\ last' = indexOf(k)
          /\ st' = [st EXCEPT ![c] = "running"]
          /\ passed' = [d \in Callers |-> IF st[d] = "waiting" /\ d # c
                                            THEN passed[d] + 1 ELSE 0]
          /\ waiting' = [w EXCEPT ![k] = Tail(@)]
          /\ _next(w) = k /\ Head(w[k]) = c
      BY <1>5 DEF TurnOf, TakeTurn
    <2>2. waiting[k] = <<>>
      <3>1. Head(Append(waiting[k], c)) = c
        BY <2>1, <1>3
      <3>2. waiting[k] # <<>> => 1 \in DOMAIN waiting[k] /\ waiting[k][1] = c
        BY <3>1, <1>2
      <3> QED
        BY <3>2, <1>1 DEF IInv, TicketsAreWaiters
    <2>3. \A l \in Classes : l # k => waiting'[l] = waiting[l]
      BY <2>1, <1>2, <1>3
    <2> HIDE DEF w
    <2>4. ASSUME NEW d \in Callers, d # c, st[d] = "waiting"
          PROVE  Bounded(d)'
      <3>1. client[d] \in Classes /\ client[d] # k /\ waiting[client[d]] # <<>>
        BY <2>2, <2>4, <1>4
      <3>2. Distance(k) <= Distance(client[d])
        BY <3>1, <2>1, <1>2, <1>3, NextFacts
      <3>3. /\ st'[d] = "waiting" /\ client'[d] = client[d]
            /\ passed'[d] = passed[d] + 1
            /\ waiting'[client[d]] = waiting[client[d]]
        BY <3>1, <2>1, <2>3, <2>4, <1>1, <1>2
      <3>4. Bounded(d)
        BY DEF BypassInv
      <3> QED
        BY <3>1, <3>2, <3>3, <3>4, <2>1, <2>4, TurnPasses
    <2>5. ASSUME NEW d \in Callers, d = c \/ st[d] # "waiting"
          PROVE  st'[d] # "waiting" /\ passed'[d] = 0
      BY <2>1, <2>5, <1>2
    <2> QED
      BY <2>4, <2>5 DEF BypassInv, Bounded
  <1>6. CASE /\ waiting' = w
             /\ st' = [st EXCEPT ![c] = "waiting"]
             /\ UNCHANGED <<active, last, locked, passed>>
    <2>1. ASSUME NEW d \in Callers, d # c, st[d] = "waiting"
          PROVE  Bounded(d)'
      <3> DEFINE l == client[d]
      <3>1. /\ st'[d] = "waiting" /\ client'[d] = client[d]
            /\ passed'[d] = passed[d] /\ last' = last /\ l \in Classes
        BY <2>1, <1>1, <1>2, <1>6
      <3>2. \A i \in DOMAIN waiting'[l] : waiting'[l][i] = d =>
              i \in DOMAIN waiting[l] /\ waiting[l][i] = d /\ i \in Nat
        BY <3>1, <2>1, <1>2, <1>3, <1>6
      <3>3. \A i \in DOMAIN waiting'[l] : waiting'[l][i] = d =>
              i \in Nat /\ \E j \in DOMAIN waiting[l] : waiting[l][j] = d /\ i <= j
        BY <3>2
      <3>4. Bounded(d)
        BY DEF BypassInv
      <3> QED
        BY <2>1, <3>1, <3>3, <3>4, NotPassed
    <2>2. Bounded(c)'
      <3>1. /\ passed'[c] = 0 /\ client'[c] = k /\ last' = last
            /\ waiting'[k] = Append(waiting[k], c)
        BY <1>1, <1>2, <1>3, <1>6 DEF BypassInv, Bounded
      <3>2. /\ N \in Nat /\ N > 0 /\ per_client \in Nat
            /\ Distance(k) \in 1..N /\ Distance(client[c])' = Distance(k)
        <4>1. Distance(client[c])' = Distance(k)
          BY <3>1 DEF Distance
        <4> QED
          BY <4>1, <1>2, ClassFacts, RoundFacts, FairQueueAssumption
      <3>3. ASSUME NEW i \in DOMAIN waiting'[k]
            PROVE  0 + ((i - 1) * N + Distance(k)) <= per_client * N
        <4>1. i \in Nat /\ i <= per_client
          <5>1. i \in 1..(Len(waiting[k]) + 1) /\ Len(waiting[k]) \in Nat
            BY <3>1, <3>3, <1>2
          <5> QED
            BY <5>1, <3>2, <1>1
        <4>2. per_client * N = (i - 1) * N + ((per_client - i) * N + N)
          BY <4>1, <3>2
        <4>3. (per_client - i) * N >= 0 /\ (per_client - i) * N \in Int /\ (i - 1) * N \in Int
          BY <4>1, <3>2
        <4> QED
          BY <4>2, <4>3, <3>2
      <3> QED
        BY <3>1, <3>2, <3>3 DEF Bounded
    <2>3. ASSUME NEW d \in Callers, d # c, st[d] # "waiting"
          PROVE  Bounded(d)'
      BY <2>3, <1>2, <1>6 DEF BypassInv, Bounded
    <2> QED
      BY <2>1, <2>2, <2>3 DEF BypassInv
  <1> QED
    BY <1>5, <1>6 DEF Request

\* A caller that leaves moves those behind it up, and nobody back.
LEMMA LeaveBypass ==
  ASSUME IInv, BypassInv, NEW c \in Callers, Leave(c)
  PROVE  BypassInv'
  <1> DEFINE k == client[c]
             t == remove(waiting[k], c)
  <1>1. /\ waiting \in [Classes -> Seq(Callers)]
        /\ client \in [Callers -> Classes]
        /\ st \in [Callers -> {"idle", "waiting", "running"}]
        /\ passed \in [Callers -> Nat]
        /\ st[c] = "waiting"
    BY DEF IInv, TypeOK, Leave
  <1>2. PICK i \in DOMAIN waiting[k] :
          waiting[k][i] = c /\ \A j \in DOMAIN waiting[k] : waiting[k][j] = c => j = i
    BY <1>1 DEF IInv, TicketsAreWaiters
  <1>3. waiting[k] \in Seq(Callers) /\ k \in Classes
    BY <1>1
  <1>4. /\ t \in Seq(Callers)
        /\ Len(t) = Len(waiting[k]) - 1
        /\ \A j \in 1..Len(t) :
             t[j] = IF j < i THEN waiting[k][j] ELSE waiting[k][j + 1]
    BY <1>2, <1>3, RemoveFacts
  <1>5. /\ waiting' = [waiting EXCEPT ![k] = t]
        /\ st' = [st EXCEPT ![c] = "idle"]
        /\ client' = [client EXCEPT ![c] = CLIENTS[1]]
        /\ passed' = [passed EXCEPT ![c] = 0]
        /\ last' = last
    BY DEF Leave
  <1> HIDE DEF t
  <1>6. waiting'[k] = t /\ \A l \in Classes : l # k => waiting'[l] = waiting[l]
    BY <1>1, <1>3, <1>5
  <1>7. \A l \in Classes : \A x \in DOMAIN waiting'[l] :
          x \in Nat /\ \E y \in DOMAIN waiting[l] : waiting[l][y] = waiting'[l][x] /\ x <= y
    <2> TAKE l \in Classes
    <2> TAKE x \in DOMAIN waiting'[l]
    <2>1. CASE l # k
      <3>1. waiting'[l] = waiting[l] /\ waiting[l] \in Seq(Callers)
        BY <2>1, <1>1, <1>6
      <3>2. x \in Nat /\ x <= x
        BY <3>1
      <3> QED
        BY <3>1, <3>2
    <2>2. CASE l = k
      <3>1. /\ x \in 1..Len(t) /\ Len(t) \in Nat /\ i \in Nat
            /\ DOMAIN waiting[k] = 1..(Len(t) + 1)
        BY <2>2, <1>2, <1>3, <1>4, <1>6
      <3>2. t[x] = IF x < i THEN waiting[k][x] ELSE waiting[k][x + 1]
        BY <3>1, <1>4
      <3>3. x \in 1..(Len(t) + 1) /\ x + 1 \in 1..(Len(t) + 1)
        BY <3>1
      <3> QED
        BY <2>2, <3>1, <3>2, <3>3, <1>6
    <2> QED
      BY <2>1, <2>2
  <1>8. ASSUME NEW d \in Callers, d # c, st[d] = "waiting"
        PROVE  Bounded(d)'
    <2>1. /\ st'[d] = "waiting" /\ client'[d] = client[d] /\ client[d] \in Classes
          /\ passed'[d] = passed[d]
      BY <1>1, <1>5, <1>8
    <2>2. \A x \in DOMAIN waiting'[client[d]] : waiting'[client[d]][x] = d =>
            x \in Nat /\ \E y \in DOMAIN waiting[client[d]] :
              waiting[client[d]][y] = d /\ x <= y
      BY <2>1, <1>7
    <2>3. Bounded(d)
      BY DEF BypassInv
    <2> QED
      BY <1>5, <1>8, <2>1, <2>2, <2>3, NotPassed
  <1>9. ASSUME NEW d \in Callers, d = c \/ st[d] # "waiting"
        PROVE  st'[d] # "waiting" /\ passed'[d] = 0
    BY <1>1, <1>5, <1>9 DEF BypassInv, Bounded
  <1> QED
    BY <1>8, <1>9 DEF BypassInv, Bounded

\* The head of the nearest class takes its turn: every other request is passed
\* over once and is one turn nearer to its own.
LEMMA StartBypass ==
  ASSUME IInv, BypassInv, NEW c \in Callers, Start(c)
  PROVE  BypassInv'
  <1> DEFINE k == client[c]
  <1>1. /\ waiting \in [Classes -> Seq(Callers)]
        /\ client \in [Callers -> Classes]
        /\ st \in [Callers -> {"idle", "waiting", "running"}]
        /\ passed \in [Callers -> Nat] /\ last \in 0..(N - 1)
        /\ st[c] = "waiting" /\ k \in Classes
    BY DEF IInv, TypeOK, Start
  <1>2. /\ _next(waiting) = k
        /\ waiting' = [waiting EXCEPT ![k] = Tail(@)]
        /\ last' = indexOf(k)
        /\ st' = [st EXCEPT ![c] = "running"]
        /\ passed' = [d \in Callers |-> IF st[d] = "waiting" /\ d # c
                                          THEN passed[d] + 1 ELSE 0]
        /\ client' = client
    BY DEF Start, TurnOf, TakeTurn
  <1>3. waiting[k] \in Seq(Callers) /\ waiting[k] # <<>>
    BY <1>1 DEF IInv, TicketsAreWaiters
  <1>4. /\ \A l \in Classes : l # k => waiting'[l] = waiting[l]
        /\ waiting'[k] = Tail(waiting[k])
    BY <1>1, <1>2
  <1>5. \A i \in DOMAIN waiting'[k] :
          i \in Nat /\ i + 1 \in DOMAIN waiting[k] /\ waiting'[k][i] = waiting[k][i + 1]
    BY <1>3, <1>4
  <1>6. ASSUME NEW d \in Callers, d # c, st[d] = "waiting"
        PROVE  Bounded(d)'
    <2>1. /\ st'[d] = "waiting" /\ client'[d] = client[d] /\ client[d] \in Classes
          /\ passed'[d] = passed[d] + 1
      BY <1>1, <1>2, <1>6
    <2>2. waiting[client[d]] # <<>>
      BY <1>6, <2>1 DEF IInv, TicketsAreWaiters
    <2>3. Distance(k) <= Distance(client[d])
      BY <2>1, <2>2, <1>1, <1>2, NextFacts
    <2>4. Bounded(d)
      BY DEF BypassInv
    <2> QED
      BY <2>1, <2>3, <2>4, <1>1, <1>2, <1>4, <1>5, <1>6, TurnPasses
  <1>7. ASSUME NEW d \in Callers, d = c \/ st[d] # "waiting"
        PROVE  st'[d] # "waiting" /\ passed'[d] = 0
    BY <1>1, <1>2, <1>7
  <1> QED
    BY <1>6, <1>7 DEF BypassInv, Bounded

\* Steps that neither begin a turn nor change who waits where.
LEMMA OtherBypass ==
  ASSUME IInv, BypassInv,
         \/ \E c \in Callers : Finish(c)
         \/ DirectStart \/ DirectFinish \/ close \/ UNCHANGED vars
  PROVE  BypassInv'
  <1>1. waiting' = waiting /\ last' = last /\ passed' = passed
    BY DEF Finish, DirectStart, DirectFinish, close, vars
  <1>2. \A d \in Callers : /\ st'[d] = "waiting" <=> st[d] = "waiting"
                           /\ st[d] = "waiting" => client'[d] = client[d]
    BY DEF Finish, DirectStart, DirectFinish, close, vars, IInv, TypeOK
  <1>3. \A d \in Callers : st[d] = "waiting" => Distance(client[d])' = Distance(client[d])
    BY <1>1, <1>2 DEF Distance
  <1> QED
    BY <1>1, <1>2, <1>3 DEF BypassInv, Bounded

\* Round-robin admission is fair for any number of callers and classes: no
\* request is passed over by per_client * N turns, whoever leaves, joins again
\* or uses the device directly in the meantime (FairQueue._next, turn).
THEOREM QueueBoundedBypass == Spec => []BoundedBypass
  <1>1. Init => BypassInv
    BY DEF Init, BypassInv, Bounded
  <1>2. ASSUME IInv, BypassInv, [Next]_vars
        PROVE  BypassInv'
    <2>1. ASSUME NEW c \in Callers, NEW k \in Classes, Request(c, k)
          PROVE  BypassInv'
      BY <1>2, <2>1, RequestBypass
    <2>2. ASSUME NEW c \in Callers, LeaveClosed(c) \/ GiveUp(c)
          PROVE  BypassInv'
      BY <1>2, <2>2, LeaveBypass DEF LeaveClosed, GiveUp
    <2>3. ASSUME NEW c \in Callers, Start(c)
          PROVE  BypassInv'
      BY <1>2, <2>3, StartBypass
    <2>4. CASE \/ \E c \in Callers : Finish(c)
               \/ DirectStart \/ DirectFinish \/ close \/ UNCHANGED vars
      BY <1>2, <2>4, OtherBypass
    <2> QED
      BY <1>2, <2>1, <2>2, <2>3, <2>4 DEF Next
  <1>3. IInv /\ BypassInv => BoundedBypass
    <2> SUFFICES ASSUME IInv, BypassInv, NEW c \in Callers, st[c] = "waiting"
                 PROVE  passed[c] <= per_client * N - 1
      BY DEF BoundedBypass
    <2>1. /\ last \in 0..(N - 1) /\ client[c] \in Classes /\ passed[c] \in Nat
          /\ N \in Nat /\ N > 0 /\ per_client * N \in Nat
      BY ClassFacts, FairQueueAssumption DEF IInv, TypeOK
    <2>2. PICK i \in DOMAIN waiting[client[c]] : waiting[client[c]][i] = c
      BY DEF IInv, TicketsAreWaiters
    <2>3. i \in Nat /\ i >= 1
      BY <2>1, <2>2 DEF IInv, TypeOK
    <2>4. passed[c] + ((i - 1) * N + Distance(client[c])) <= per_client * N
      BY <2>2 DEF BypassInv, Bounded
    <2>5. (i - 1) * N >= 0 /\ (i - 1) * N \in Int
      <3>1. i - 1 \in Nat
        BY <2>3
      <3> QED
        BY <3>1, <2>1
    <2>6. Distance(client[c]) \in 1..N
      BY <2>1, RoundFacts
    <2> QED
      BY <2>1, <2>4, <2>5, <2>6
  <1> QED
    BY <1>1, <1>2, <1>3, QueueInvariant, PTL DEF Spec

=============================================================================
