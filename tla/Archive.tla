--------------------------------- MODULE Archive ---------------------------------
(***************************************************************************)
(* PostgresWriter of graphite_pusher.py and of i2c-sensor-server.py:       *)
(* processes that archive batches of samples in one database, each with a  *)
(* bounded queue and a thread that owns the connection.                    *)
(*                                                                         *)
(* A batch is its number and the channels it has samples of.  The database *)
(* is external: read-committed transactions, an advisory lock that ends    *)
(* with its transaction, and sessions that outlive a client that went away.*)
(***************************************************************************)
EXTENDS Naturals, Sequences, FiniteSets

CONSTANTS
  Writers,    \* the processes that archive
  Registers,  \* those with postgres_register_channels
  Channels,   \* channel identities (name, psu, channel)
  Contents,   \* the channels that a batch may have samples of
  QueueSize,  \* postgres_queue_size
  Bound       \* bound: batches of each process

ASSUME ArchiveAssumption ==
  /\ Registers \subseteq Writers
  /\ Contents \subseteq SUBSET Channels \ {{}}
  /\ QueueSize \in Nat \ {0} /\ Bound \in [Writers -> Nat]

VARIABLES
  arc,      \* per process: queue, finished, the batch in hand, where the thread
            \* is, channel_ids and new_ids
  txs,      \* the open transactions of the database
  rows,     \* trk_channel: the channel and the transaction that registered it
  values,   \* trk_value: the batch, the channel and the row it refers to
  commits,  \* history: how often a batch was committed
  report    \* history: batches made, reported written, dropped or lost with the
            \* process, and those made before the thread was told to finish

archiveVars == <<arc, txs, rows, values, commits, report>>

Batches == UNION {[of : {w}, n : 1..Bound[w]] : w \in Writers}
NoId == [of |-> "none", n |-> 0]
Rows == [chan : Channels, by : Batches]
NoIds == [c \in Channels |-> NoId]
NoBatch == [n |-> 0, chans |-> {}]
Idle == [queue |-> <<>>, finished |-> FALSE, batch |-> NoBatch, pc |-> "get",
         ids |-> NoIds, new |-> NoIds]

ArchiveTypeOK ==
  /\ \A w \in Writers :
       /\ Len(arc[w].queue) <= QueueSize
       /\ arc[w].pc \in {"get", "connect", "lock", "resolve", "commit", "ended"}
       /\ arc[w].batch.n \in 0..Bound[w] /\ arc[w].batch.chans \subseteq Channels
       /\ arc[w].finished \in BOOLEAN
       /\ arc[w].ids \in [Channels -> Batches \cup {NoId}]
       /\ arc[w].new \in [Channels -> Batches \cup {NoId}]
  /\ txs \subseteq [id : Batches, lock : BOOLEAN, sent : BOOLEAN, rows : SUBSET Rows,
                    values : SUBSET [batch : Batches, chan : Channels, row : Batches]]
  /\ rows \subseteq Rows
  /\ commits \in [Batches -> Nat]
  /\ \A w \in Writers :
       report[w] \in [made : 0..Bound[w], written : SUBSET (1..Bound[w]),
                      dropped : SUBSET (1..Bound[w]), early : 0..Bound[w]]

ArchiveInit ==
  /\ arc = [w \in Writers |-> Idle]
  /\ txs = {} /\ rows = {} /\ values = {}
  /\ commits = [b \in Batches |-> 0]
  /\ report = [w \in Writers |-> [made |-> 0, written |-> {}, dropped |-> {}, early |-> 0]]

Batch(w) == [of |-> w, n |-> arc[w].batch.n]
Put(w, fields) == arc' = [arc EXCEPT ![w] = fields]
Dropped(w, n) == report' = [report EXCEPT ![w].dropped = @ \cup {n}]
Database == <<txs, rows, values, commits>>

-----------------------------------------------------------------------------
(* The collectors' side: submit and close *)

HasRoom(w) == Len(arc[w].queue) < QueueSize

\* A batch with no samples for the archive is not queued; with a full queue
\* the newest batch goes.
submit(w) ==
  /\ report[w].made < Bound[w]
  /\ LET n == report[w].made + 1
     IN  \E chans \in Contents :
           IF HasRoom(w)
           THEN /\ Put(w, [arc[w] EXCEPT !.queue = Append(@, [n |-> n, chans |-> chans])])
                /\ report' = [report EXCEPT ![w].made = n]
           ELSE /\ report' = [report EXCEPT ![w].made = n, ![w].dropped = @ \cup {n}]
                /\ UNCHANGED arc
  /\ UNCHANGED Database

close(w) ==
  /\ ~arc[w].finished
  /\ Put(w, [arc[w] EXCEPT !.finished = TRUE])
  /\ report' = [report EXCEPT ![w].early = report[w].made]
  /\ UNCHANGED Database

-----------------------------------------------------------------------------
(* The database thread *)

\* run: the next batch; once told to finish, until the queue is empty.
Get(w) ==
  /\ arc[w].pc = "get"
  /\ IF arc[w].queue # <<>>
     THEN Put(w, [arc[w] EXCEPT !.batch = Head(arc[w].queue), !.queue = Tail(@), !.pc = "connect"])
     ELSE arc[w].finished /\ Put(w, [arc[w] EXCEPT !.pc = "ended"])

Take(w) == Get(w) /\ UNCHANGED <<report, Database>>

Unresolved(w) == {c \in arc[w].batch.chans : arc[w].ids[c] = NoId /\ arc[w].new[c] = NoId}

\* write_batch connects if need be; the transaction begins with the first
\* statement.
OpenDb(w) ==
  /\ arc[w].pc = "connect"
  /\ Put(w, [arc[w] EXCEPT !.new = NoIds,
               !.pc = IF Unresolved(w) # {} /\ w \in Registers THEN "lock" ELSE "resolve"])
  /\ txs' = txs \cup {[id |-> Batch(w), lock |-> FALSE, sent |-> FALSE, rows |-> {}, values |-> {}]}
  /\ UNCHANGED <<rows, values, commits, report>>

Tx(w) == CHOOSE t \in txs : t.id = Batch(w)
Becomes(w, t) == txs' = (txs \ {Tx(w)}) \cup {t}

\* Mutant of LockFree: registration is not serialized.
LockFree_Always == TRUE

\* pg_advisory_xact_lock waits for every transaction that has the lock.
LockFree == \A t \in txs : ~t.lock

Lock(w) ==
  /\ arc[w].pc = "lock" /\ LockFree
  /\ Put(w, [arc[w] EXCEPT !.pc = "resolve"])
  /\ Becomes(w, [Tx(w) EXCEPT !.lock = TRUE])
  /\ UNCHANGED <<rows, values, commits, report>>

\* SELECT: what is committed by now, and what this transaction inserted.
Seen(w, c) == {r \in rows \cup Tx(w).rows : r.chan = c}

\* One channel of the batch: its row, or a new one.  More than one row, or none
\* and no registration, is an error.
Resolve(w) ==
  /\ arc[w].pc = "resolve"
  /\ \E c \in Unresolved(w) :
       \/ /\ Cardinality(Seen(w, c)) = 1
          /\ \E r \in Seen(w, c) : Put(w, [arc[w] EXCEPT !.new[c] = r.by])
          /\ UNCHANGED txs
       \/ /\ Seen(w, c) = {} /\ w \in Registers
          /\ Put(w, [arc[w] EXCEPT !.new[c] = Batch(w)])
          /\ Becomes(w, [Tx(w) EXCEPT !.rows = @ \cup {[chan |-> c, by |-> Batch(w)]}])
  /\ UNCHANGED <<rows, values, commits, report>>

ChannelId(w, c) == IF arc[w].ids[c] # NoId THEN arc[w].ids[c] ELSE arc[w].new[c]

\* The samples, and then COMMIT goes out.
Insert(w) ==
  /\ arc[w].pc = "resolve" /\ Unresolved(w) = {}
  /\ Put(w, [arc[w] EXCEPT !.pc = "commit"])
  /\ Becomes(w, [Tx(w) EXCEPT !.sent = TRUE,
                   !.values = {[batch |-> Batch(w), chan |-> c, row |-> ChannelId(w, c)] :
                                 c \in arc[w].batch.chans}])
  /\ UNCHANGED <<rows, values, commits, report>>

\* The answer to COMMIT: only now are the new ids cached.
Committed(w) ==
  /\ arc[w].pc = "commit" /\ \A t \in txs : t.id # Batch(w)
  /\ commits[Batch(w)] > 0
  /\ Put(w, [arc[w] EXCEPT !.pc = "get", !.batch = NoBatch, !.new = NoIds,
               !.ids = [c \in Channels |-> IF @[c] # NoId THEN @[c] ELSE arc[w].new[c]]])
  /\ report' = [report EXCEPT ![w].written = @ \cup {arc[w].batch.n}]
  /\ UNCHANGED Database

\* run's except clause: the connection is closed, the cache cleared, the
\* batch dropped.
Failed(w) ==
  [arc[w] EXCEPT !.pc = "get", !.batch = NoBatch, !.ids = NoIds, !.new = NoIds]

\* No connection, a time-out, an ambiguous or missing channel, other
\* metadata, a lost answer: the transaction is left to the database.
WriteFails(w) ==
  /\ arc[w].pc \in {"connect", "lock", "resolve", "commit"}
  /\ Put(w, Failed(w))
  /\ Dropped(w, arc[w].batch.n)
  /\ UNCHANGED Database

\* The process dies, also at the deadline of close, and is started again.
ArchiveCrash(w) ==
  /\ arc[w] # Idle
  /\ Put(w, Idle)
  /\ report' = [report EXCEPT ![w].early = 0,
                                ![w].dropped = @ \cup ({arc[w].batch.n} \ {0})
                                  \cup {arc[w].queue[i].n : i \in DOMAIN arc[w].queue}]
  /\ UNCHANGED Database

-----------------------------------------------------------------------------
(* The database *)

\* COMMIT takes effect, perhaps after the client has given up.
DbCommit ==
  \E t \in txs :
    /\ t.sent
    /\ rows' = rows \cup t.rows
    /\ values' = values \cup t.values
    /\ commits' = [commits EXCEPT ![t.id] = @ + 1]
    /\ txs' = txs \ {t}
    /\ UNCHANGED <<arc, report>>

\* A transaction whose client is gone or had an error is rolled back.
DbAbort ==
  \E t \in txs :
    /\ arc[t.id.of].batch.n # t.id.n \/ arc[t.id.of].pc = "commit"
    /\ txs' = txs \ {t}
    /\ UNCHANGED <<arc, rows, values, commits, report>>

WriterStep(w) ==
  submit(w) \/ close(w) \/ Take(w) \/ OpenDb(w) \/ Lock(w) \/ Resolve(w) \/ Insert(w)
  \/ Committed(w) \/ WriteFails(w) \/ ArchiveCrash(w)

ArchiveNext == (\E w \in Writers : WriterStep(w)) \/ DbCommit \/ DbAbort

-----------------------------------------------------------------------------
\* A channel is registered once, whatever processes register at a time and
\* whatever answers to COMMIT are lost.
RegisteredOnce == \A r, s \in rows : r.chan = s.chan => r = s

\* Every archived sample, and every cached id, refers to a row of its channel
\* that is committed.
IdsAreCommitted ==
  /\ \A v \in values : [chan |-> v.chan, by |-> v.row] \in rows
  /\ \A w \in Writers, c \in Channels :
       arc[w].ids[c] # NoId => [chan |-> c, by |-> arc[w].ids[c]] \in rows

\* A batch is archived at most once, and was if it is reported written.
ArchivedOnce ==
  /\ \A b \in Batches : commits[b] <= 1
  /\ \A w \in Writers : \A n \in report[w].written :
       commits[[of |-> w, n |-> n]] = 1

\* A thread that has ended has dealt with all that was queued before close.
DrainedAtEnd ==
  \A w \in Writers :
    arc[w].pc = "ended" => 1..report[w].early \subseteq report[w].written \cup report[w].dropped

=============================================================================
