------------------------------- MODULE Collectors -------------------------------
(***************************************************************************)
(* The programs that poll a station: a collection worker of                *)
(* graphite_pusher.py, with the power gate of its RS485 group, and         *)
(* hv-monitor.py, whose two query loops share a connection.                *)
(*                                                                         *)
(* A connection to lvhv-server carries answers in the order of the         *)
(* questions, and nothing in an answer says which question it is for.  An  *)
(* error is answered too, with one number or the characters of "ERROR", and *)
(* a program that does not look takes it for values.                       *)
(***************************************************************************)
EXTENDS Naturals, Sequences, FiniteSets

CONSTANTS
  Addresses,  \* panels that discovery may have found
  GateAge,    \* how long the power gate's answer is good for
  MaxDelay    \* the time-out of an answer of lvhv-server

ASSUME CollectorsAssumption ==
  Addresses \subseteq 0..511 /\ GateAge \in Nat \ {0} /\ MaxDelay \in Nat

VARIABLES
  col,      \* the worker
  v6,       \* the power of the PSU: for how long it has been off
  view      \* hv-monitor: the lock, the connection and the two loops

collectVars == <<col, v6>>

Groups == {"hv", "slow", "rs485"}
OffLong == GateAge + MaxDelay + 1
\* The questions of a cycle; the HV is asked for in two blocks of six channels,
\* "health" goes to the Pi health server.
Questions == [hv |-> <<"vhv0", "vhv6", "ihv0", "ihv6">>,
              slow |-> <<"v48", "i48", "v6", "i6", "temp", "health">>,
              rs485 |-> <<"v6">>]
NoGate == [powered |-> FALSE, age |-> GateAge]
Asked == {"vhv0", "vhv6", "ihv0", "ihv6", "v48", "i48", "v6", "i6", "temp", "health"}
Reads == Addresses \X {1, 2}             \* a direct parameter and one of the CPU

\* What lvhv-server answers with, and how many entries a list gets from it.
Kinds == {"values", "code", "chars"}
Width == [values |-> 6, code |-> 1, chars |-> 5]
\* Only a question to a Pico can be answered with the characters.
KindsOf(q) == IF q \in {"v48", "i48", "v6", "i6"} THEN {"values", "code"} ELSE Kinds

\* The questions whose values are appended to those of another.
Appended == [vhv6 |-> "vhv0", ihv6 |-> "ihv0"]
First(q) == IF q \in DOMAIN Appended THEN 6 ELSE 0
\* An answer as it was taken: for which question, to which one it is, of what
\* kind, and the channel under which its first entry stands if the last list
\* has n entries so far.
Taken(q, answer, n) == <<q, answer.to, answer.kind, IF q \in DOMAIN Appended THEN n ELSE 0>>
Answers == Asked \X Asked \X Kinds \X (0..6)

NewCycle(g) == [group |-> g, pc |-> "begin", link |-> FALSE, wire |-> <<>>, delay |-> 0,
                gate |-> NoGate, at |-> 1, n |-> 0, heard |-> {}, got |-> {}, todo |-> {},
                panels |-> {}, ok |-> TRUE, success |-> "none", off |-> 0]

CollectTypeOK ==
  /\ col.group \in Groups
  /\ col.pc \in {"begin", "ask", "wait", "inventory", "scan", "reading", "publish", "failed",
                 "sleep", "ended"}
  /\ col.link \in BOOLEAN /\ col.delay \in 0..MaxDelay
  /\ Len(col.wire) <= 1 /\ col.heard \subseteq Answers
  /\ col.gate \in [powered : BOOLEAN, age : 0..GateAge]
  /\ col.at \in 1..7 /\ col.n \in 0..6 /\ col.panels \subseteq Addresses /\ col.todo \cup col.got \subseteq Reads
  /\ col.ok \in BOOLEAN /\ col.success \in {"none", "yes", "no", "disabled"}
  /\ v6 \in 0..OffLong /\ col.off \in 0..OffLong

CollectInit == (\E g \in Groups : col = NewCycle(g)) /\ v6 \in {0, OffLong}

-----------------------------------------------------------------------------
(* A cycle of collection_worker *)

\* A worker connects if it is not connected, and begins with its questions.
BeginCollect ==
  /\ col.pc = "begin"
  /\ col' = [col EXCEPT !.pc = "ask", !.link = TRUE, !.wire = IF col.link THEN @ ELSE <<>>,
                        !.at = 1, !.n = 0, !.heard = {}, !.got = {}, !.todo = {}, !.panels = {},
                        !.ok = TRUE, !.success = "none", !.off = 0]
  /\ UNCHANGED v6

Question == Questions[col.group][col.at]

\* WriteRead: the question goes out; lvhv-server measures and answers, or
\* answers with an error.
Ask ==
  /\ col.pc = "ask" /\ Question # "health"
  /\ \E kind \in KindsOf(Question) :
       col' = [col EXCEPT !.pc = "wait", !.delay = 0,
                          !.wire = Append(@, [to |-> Question, on |-> v6 = 0, kind |-> kind])]
  /\ UNCHANGED v6

\* collect_health_metrics
AskHealth ==
  /\ col.pc = "ask" /\ Question = "health"
  /\ col' = [col EXCEPT !.pc = "publish", !.success = "yes",
                        !.heard = @ \cup {<<"health", "health", "values", 0>>}]
  /\ UNCHANGED v6

\* After a question that was answered: the next one, or the end of the cycle.
Answered(c) ==
  IF c.at < Len(Questions[c.group]) THEN [c EXCEPT !.pc = "ask", !.at = @ + 1]
  ELSE [c EXCEPT !.pc = "publish", !.success = "yes"]

\* RS485PowerGate: the answer is kept from when it has come.  Before the
\* inventory is known it was forced.
Gated(c, on) ==
  LET d == [c EXCEPT !.gate = [powered |-> on, age |-> 0]]
  IN  IF ~on THEN [d EXCEPT !.pc = "publish", !.success = "disabled"]
      ELSE [d EXCEPT !.pc = IF c.panels = {} THEN "inventory" ELSE "scan"]

\* Mutant of Broken: the connection is kept for the next cycle.
Broken_Kept(c) == [c EXCEPT !.pc = "failed", !.success = "no"]

\* The except clause: the connection is closed and the gate forgotten.
Broken(c) == [c EXCEPT !.pc = "failed", !.success = "no", !.link = FALSE, !.wire = <<>>,
                       !.gate = NoGate]

\* The answer is taken for values, whatever it is; only the gate looks at it.
Receive ==
  /\ col.pc = "wait" /\ col.wire # <<>>
  /\ LET answer == Head(col.wire)
         c == [col EXCEPT !.wire = Tail(@), !.n = Width[answer.kind],
                          !.heard = @ \cup {Taken(Question, answer, col.n)}]
     IN  col' = IF col.group # "rs485" THEN Answered(c)
                ELSE IF answer.kind = "values" THEN Gated(c, answer.on)
                ELSE Broken(c)
  /\ UNCHANGED v6

\* get_panels: only what an earlier discovery found.
Inventory ==
  /\ col.pc = "inventory"
  /\ \E found \in SUBSET Addresses :
       col' = [col EXCEPT !.panels = found, !.todo = found \X {1, 2},
                          !.ok = found # {}, !.pc = IF found = {} THEN "publish" ELSE "scan",
                          !.success = IF found = {} THEN "no" ELSE "none"]
  /\ UNCHANGED v6

\* Mutant of GateStale: the gate is asked at the start of a scan only.
GateStale_Never == FALSE

GateStale == col.gate.age >= GateAge

\* The next parameter of the next panel, if the gate is open.
ScanNext ==
  /\ col.pc = "scan" /\ col.todo # {}
  /\ col' = IF GateStale THEN [col EXCEPT !.pc = "ask"]
            ELSE [col EXCEPT !.pc = "reading", !.off = v6]
  /\ UNCHANGED v6

\* A read that fails costs the panel its success and nothing else.
Read ==
  /\ col.pc = "reading"
  /\ \E r \in col.todo :
       /\ \A s \in col.todo : r[1] < s[1] \/ (r[1] = s[1] /\ r[2] <= s[2])
       /\ \/ col' = [col EXCEPT !.pc = "scan", !.todo = @ \ {r}, !.got = @ \cup {r}]
          \/ col' = [col EXCEPT !.pc = "scan", !.todo = @ \ {r}, !.ok = FALSE]
  /\ UNCHANGED v6

ScanDone ==
  /\ col.pc = "scan" /\ col.todo = {}
  /\ col' = [col EXCEPT !.pc = "publish", !.success = IF col.ok THEN "yes" ELSE "no"]
  /\ UNCHANGED v6

\* publish_metrics; a sink that fails is only logged.
Publish ==
  /\ col.pc = "publish"
  /\ col' = [col EXCEPT !.pc = "sleep"]
  /\ UNCHANGED v6

CycleFails ==
  /\ col.pc \in {"begin", "ask", "wait", "inventory"}
  /\ col' = Broken(col)
  /\ UNCHANGED v6

PublishFailure ==
  /\ col.pc = "failed"
  /\ col' = [col EXCEPT !.pc = "sleep"]
  /\ UNCHANGED v6

NextCycle ==
  /\ col.pc = "sleep"
  /\ col' = [col EXCEPT !.pc = "begin"]
  /\ UNCHANGED v6

\* stop_event: a scan is left at once, a worker that sleeps ends.
StopCollect ==
  \/ /\ col.pc = "scan" /\ col.todo # {}
     /\ col' = [col EXCEPT !.pc = "publish", !.success = "no"] /\ UNCHANGED v6
  \/ /\ col.pc = "sleep"
     /\ col' = [NewCycle(col.group) EXCEPT !.pc = "ended"] /\ UNCHANGED v6
  \/ /\ col.pc = "ended"
     /\ col' = NewCycle(col.group) /\ UNCHANGED v6

CollectTick ==
  /\ col.pc = "wait" => col.delay < MaxDelay
  /\ v6' = IF v6 \in 1..(OffLong - 1) THEN v6 + 1 ELSE v6
  /\ col' = [col EXCEPT !.gate.age = IF @ < GateAge THEN @ + 1 ELSE @,
                        !.delay = IF col.pc = "wait" THEN @ + 1 ELSE @]

\* Only the RS485 group heeds the power.
PowerChanges ==
  /\ col.group = "rs485"
  /\ v6' = IF v6 = 0 THEN 1 ELSE 0
  /\ UNCHANGED col

CollectNext ==
  \/ BeginCollect \/ Ask \/ AskHealth \/ Receive \/ Inventory \/ ScanNext \/ Read \/ ScanDone
  \/ Publish \/ CycleFails \/ PublishFailure \/ NextCycle \/ StopCollect \/ CollectTick \/ PowerChanges

-----------------------------------------------------------------------------
(* hv-monitor.py *)

Commands == {"get_vhv", "get_ihv"}
Blocks == [get_vhv |-> <<"vhv0", "vhv6">>, get_ihv |-> <<"ihv0", "ihv6">>]

ViewTypeOK ==
  /\ view \in [lock : Commands \cup {"free"}, open : BOOLEAN,
               pc : [Commands -> {"start", "locked", "sent", "log"}],
               at : 1..2, n : 0..6, got : SUBSET Answers, row : [Commands -> SUBSET Answers],
               wire : Seq([to : Asked, kind : Kinds])]

Opened == [lock |-> "free", open |-> TRUE, pc |-> [c \in Commands |-> "start"],
           at |-> 1, n |-> 0, got |-> {}, row |-> [c \in Commands |-> {}], wire |-> <<>>]

ViewInit == view = Opened

LockFor(c) == view.lock = "free"

\* query_values, under the lock of the supply; the row is blank until its end.
LockSupply(c) ==
  /\ view.pc[c] = "start" /\ LockFor(c)
  /\ view' = [view EXCEPT !.pc[c] = "locked", !.lock = c, !.row[c] = {},
                          !.at = 1, !.n = 0, !.got = {}]

AskSupply(c) ==
  /\ view.pc[c] = "locked" /\ view.open
  /\ \E kind \in Kinds :
       view' = [view EXCEPT !.pc[c] = "sent",
                            !.wire = Append(@, [to |-> Blocks[c][view.at], kind |-> kind])]

\* The answer for the first block, and the question for the second.
HearFirst(c) ==
  /\ view.pc[c] = "sent" /\ view.wire # <<>> /\ view.at = 1
  /\ view' = [view EXCEPT !.pc[c] = "locked", !.wire = Tail(@), !.at = 2,
                          !.n = Width[Head(view.wire).kind],
                          !.got = {Taken(Blocks[c][1], Head(view.wire), 0)}]

\* The lists are one, and the row has it.
HearSecond(c) ==
  /\ view.pc[c] = "sent" /\ view.wire # <<>> /\ view.at = 2
  /\ view' = [view EXCEPT !.pc[c] = "log", !.lock = "free", !.wire = Tail(@), !.at = 1, !.n = 0,
                          !.got = {},
                          !.row[c] = view.got \cup {Taken(Blocks[c][2], Head(view.wire), view.n)}]

\* The socket is closed, for good; the query thread ends and its row is blank.
SupplyFails(c) ==
  /\ view.pc[c] \in {"locked", "sent"}
  /\ view' = [view EXCEPT !.pc[c] = "log", !.lock = "free", !.open = FALSE, !.wire = <<>>,
                          !.at = 1, !.n = 0, !.got = {}]

\* threaded_queries has joined the threads; the row is logged.
LogRow(c) ==
  /\ view.pc[c] = "log"
  /\ view' = [view EXCEPT !.pc[c] = "start"]

\* close_supplies, and the next invocation.
Reopen == view' = Opened

ViewNext ==
  \/ \E c \in Commands : LockSupply(c) \/ AskSupply(c) \/ HearFirst(c) \/ HearSecond(c)
                           \/ SupplyFails(c) \/ LogRow(c)
  \/ Reopen

-----------------------------------------------------------------------------
\* What was told with these answers: each is to its question, and stands under
\* the channels it was asked for, unless an error was taken for the values of
\* the block before it.
InPlace(S) ==
  \A x \in S :
    /\ x[1] = x[2]
    /\ x[4] = First(x[1]) \/ \E y \in S : y[1] = Appended[x[1]] /\ y[3] # "values"

\* What the collectors and hv-monitor tell is true as far as they can know: no
\* answer is taken for that to another question, neither one that comes after
\* its time-out nor one to the other loop of hv-monitor; values stand under their
\* own channels except behind an error answer, whose length shifts those of the
\* next block; "success" says that every question was answered and every panel
\* read, not that no answer was an error; "disabled" that the power was seen off.
TelemetryIsHonest ==
  /\ InPlace(col.heard) /\ \A c \in Commands : InPlace(view.row[c])
  /\ col.pc = "publish" =>
       /\ col.success = "yes" =>
            /\ \A i \in DOMAIN Questions[col.group] :
                 \E x \in col.heard : x[1] = Questions[col.group][i] /\ x[2] = x[1]
            /\ col.group = "rs485" => /\ \A x \in col.heard : x[3] = "values"
                                      /\ col.panels # {} /\ col.panels \X {1, 2} \subseteq col.got
       /\ col.success = "disabled" => ~col.gate.powered

\* A panel is read only if the PSU was on within the age of the gate and the
\* time its answer may take, also late in a long scan and when lvhv-server
\* answers with errors.
PolledWhenPowered == col.pc = "reading" => col.off < GateAge + MaxDelay + 1

=============================================================================
