--------------------------- MODULE BusSessionProofs ---------------------------
(***************************************************************************)
(* BusSession: an exchange returns the answer to its own request, and      *)
(* nothing is sent into an open response window unless the request that    *)
(* opened it left later than its reservation allows and was cut short, for *)
(* any number of ROCs and transaction numbers and any windows the          *)
(* assumption allows.                                                      *)
(*                                                                         *)
(* Neither is inductive.  IInv adds that a reply which carries the number  *)
(* of the request that is out is a fresh one, and that the hold-offs of    *)
(* the file and of the process cover the window of a request that left in  *)
(* time, in every state.  One lemma per action shows that IInv is kept.    *)
(***************************************************************************)
EXTENDS BusSession, TLAPS

USE BusSessionAssumption

\* A request that goes out is covered by the hold-off of the process or late.
LEMMA SentOutCovers ==
  ASSUME TypeOK, SentOut
  PROVE  /\ late' \in BOOLEAN
         /\ window' <= sess.hold \/ late'
  <1>1. late' = (sess.hold < WindowOf(req)) /\ window' = WindowOf(req)
    BY DEF SentOut
  <1>2. WindowOf(req) \in Nat /\ sess.hold \in Nat
    BY DEF TypeOK, SessType, MaxHold, WindowOf
  <1>3. CASE sess.hold < WindowOf(req)
    <2>1. late' = TRUE
      BY <1>1, <1>3, Zenon
    <2> QED
      BY <2>1
  <1>4. CASE ~(sess.hold < WindowOf(req))
    <2>1. (sess.hold < WindowOf(req)) = FALSE
      BY <1>2, <1>4
    <2>2. late' \in BOOLEAN
      BY <1>1, <2>1
    <2>3. window' <= sess.hold
      BY <1>1, <1>2, <1>4
    <2> QED
      BY <2>2, <2>3
  <1> QED
    BY <1>3, <1>4

\* __enter__ takes over the hold-off that is in the file, so the process is
\* held for as long as the window it may have inherited is open.
LEMMA OpenStep ==
  ASSUME IInv, Open
  PROVE  IInv'
  <1> USE DEF IInv, Open, line, clock, scanVars, EmptyFile, Closed, NoId
  <1>1. TypeOK'
    <2>1. sess' \in SessType
      <3>1. PICK id \in IF disk.id = NoId THEN Ids ELSE {disk.id} :
              sess' = [Closed EXCEPT !.pc = "opening", !.id = id, !.hold = disk.hold]
        OBVIOUS
      <3>2. id \in Ids /\ disk.hold \in 0..MaxHold
        BY DEF TypeOK, DiskType
      <3>3. 0 \in 0..Timeout
        OBVIOUS
      <3> QED
        BY <3>1, <3>2, <3>3 DEF SessType
    <2> QED
      BY <2>1 DEF TypeOK, RequestOut, DiskType, SessType, RequestType, Replies,
                  MaxHold
  <1>2. AnswerIsFresh' /\ OutcomeAtEnd'
    BY DEF AnswerIsFresh, OutcomeAtEnd, NoStaleId, TypeOK, SessType
  <1>3. NoStaleId'
    BY DEF NoStaleId, Reserving, TypeOK, SessType, Replies
  <1>4. HoldCovers'
    BY DEF HoldCovers, NoStaleId, Reserving, TypeOK, DiskType, SessType, MaxHold
  <1>5. RequestOut'
    BY DEF RequestOut, TypeOK, SessType, RequestType, NoRequest, Rocs
  <1> QED
    BY <1>1, <1>2, <1>3, <1>4, <1>5

\* Once wait_ready has slept the hold-off of the process is over, and so is
\* the window, which it covered.
LEMMA OpenedStep ==
  ASSUME IInv, Opened
  PROVE  IInv'
  <1> USE DEF IInv, Opened, line, clock, scanVars, wait_ready
  <1>1. TypeOK'
    BY DEF TypeOK, RequestOut, DiskType, SessType, ScanType, ResultType, NoId,
           MaxHold, Rocs
  <1>2. AnswerIsFresh' /\ OutcomeAtEnd'
    BY DEF AnswerIsFresh, OutcomeAtEnd, NoStaleId, TypeOK, SessType
  <1>3. NoStaleId'
    BY DEF NoStaleId, Reserving, TypeOK, SessType, Replies
  <1>4. HoldCovers'
    BY DEF HoldCovers, NoStaleId, Reserving, TypeOK, DiskType, SessType, MaxHold
  <1>5. RequestOut'
    BY DEF RequestOut, TypeOK, SessType, RequestType, NoRequest, Rocs
  <1> QED
    BY <1>1, <1>2, <1>3, <1>4, <1>5

\* The first half of save makes the file cover what the process covers.
LEMMA SaveWriteStep ==
  ASSUME IInv, SaveWrite
  PROVE  IInv'
  <1> USE DEF IInv, SaveWrite, line, clock, scanVars, EmptyFile, NoId
  <1>1. TypeOK'
    <2>1. disk' \in DiskType
      <3>1. PICK torn \in BOOLEAN :
              disk' = [id |-> sess.id, hold |-> sess.hold, torn |-> torn]
        OBVIOUS
      <3>2. sess.id \in Ids /\ sess.hold \in 0..MaxHold
        BY DEF TypeOK, SessType
      <3> QED
        BY <3>1, <3>2 DEF DiskType
    <2> QED
      BY <2>1 DEF TypeOK, RequestOut, DiskType, SessType, RequestType, Replies,
                  MaxHold
  <1>2. AnswerIsFresh' /\ OutcomeAtEnd'
    BY DEF AnswerIsFresh, OutcomeAtEnd, NoStaleId, TypeOK, SessType
  <1>3. NoStaleId'
    BY DEF NoStaleId, Reserving, TypeOK, SessType, Replies
  <1>4. HoldCovers'
    BY DEF HoldCovers, NoStaleId, Reserving, TypeOK, DiskType, SessType, MaxHold
  <1>5. RequestOut'
    BY DEF RequestOut, TypeOK, SessType, RequestType, NoRequest, Rocs
  <1> QED
    BY <1>1, <1>2, <1>3, <1>4, <1>5

\* The second half of save changes neither the number nor the hold-off.
LEMMA SaveTruncateStep ==
  ASSUME IInv, SaveTruncate
  PROVE  IInv'
  <1> USE DEF IInv, SaveTruncate, line, clock, scanVars
  <1>1. TypeOK'
    BY DEF TypeOK, RequestOut, DiskType, SessType, ScanType, ResultType, NoId,
           MaxHold, Rocs
  <1>2. AnswerIsFresh' /\ OutcomeAtEnd'
    BY DEF AnswerIsFresh, OutcomeAtEnd, NoStaleId, TypeOK, SessType
  <1>3. NoStaleId'
    BY DEF NoStaleId, Reserving, TypeOK, SessType, Replies
  <1>4. HoldCovers'
    BY DEF HoldCovers, NoStaleId, Reserving, TypeOK, DiskType, SessType, MaxHold
  <1>5. RequestOut'
    BY DEF RequestOut, TypeOK, SessType, RequestType, NoRequest, Rocs
  <1> QED
    BY <1>1, <1>2, <1>3, <1>4, <1>5

\* When the line is driven no reply still to come has the number of this
\* request, and the window is closed.
LEMMA TransmitStep ==
  ASSUME IInv, Transmit
  PROVE  IInv'
  <1> USE DEF IInv, Transmit, line, clock, scanVars, Outdated
  <1>1. TypeOK'
    <2>1. pending' \subseteq Replies /\ inbox' \subseteq Replies
      <3>1. \A r \in Replies : [r EXCEPT !.fresh = FALSE] \in Replies
        BY DEF Replies
      <3> QED
        BY <3>1 DEF TypeOK
    <2> QED
      BY <2>1 DEF TypeOK, RequestOut, DiskType, SessType, RequestType, Replies,
                  MaxHold
  <1>2. AnswerIsFresh' /\ OutcomeAtEnd'
    BY DEF AnswerIsFresh, OutcomeAtEnd, NoStaleId, TypeOK, SessType
  <1>3. NoStaleId'
    BY DEF NoStaleId, Reserving, TypeOK, SessType, Replies
  <1>4. HoldCovers'
    BY DEF HoldCovers, NoStaleId, Reserving, TypeOK, DiskType, SessType, MaxHold
  <1>5. RequestOut'
    BY DEF RequestOut, TypeOK, SessType, RequestType, NoRequest, Rocs
  <1> QED
    BY <1>1, <1>2, <1>3, <1>4, <1>5

\* The window a request opens is covered by the hold-off in the file, or the
\* request is late; that of a probe is covered by its own hold-off, which it
\* is about to save (response_window).
LEMMA SentStep ==
  ASSUME IInv, Sent
  PROVE  IInv'
  <1> USE DEF IInv, Sent, line, clock, scanVars, SentOut, Answer, WindowOf
  <1>1. TypeOK'
    <2>1. sess' \in SessType
      <3>1. DiscoveryTimeout \in 0..Timeout /\ Timeout \in 0..Timeout
        OBVIOUS
      <3>2. DiscoveryTimeout + DiscoveryGuard \in 0..MaxHold
        BY DEF MaxHold
      <3> QED
        BY <3>1, <3>2 DEF TypeOK, SessType
    <2>2. pending' \subseteq Replies /\ inbox' \subseteq Replies
      <3>1. sess.pc = "transmit" => Answer \in Replies
        BY DEF RequestOut, RequestType, Replies
      <3> QED
        BY <3>1 DEF TypeOK
    <2>3. window' \in 0..Timeout /\ probed' \subseteq Rocs
      BY DEF TypeOK, RequestOut, RequestType
    <2>4. late' \in BOOLEAN
      BY SentOutCovers
    <2> QED
      BY <2>1, <2>2, <2>3, <2>4 DEF TypeOK
  <1>2. AnswerIsFresh' /\ OutcomeAtEnd'
    BY DEF AnswerIsFresh, OutcomeAtEnd, NoStaleId, TypeOK, SessType
  <1>3. NoStaleId'
    BY DEF NoStaleId, Reserving, TypeOK, SessType, Replies
  <1>4. HoldCovers'
    <2>1. /\ disk.hold \in Nat /\ sess.hold \in Nat /\ disk.hold = sess.hold
          /\ disk' = disk
      BY DEF TypeOK, DiskType, SessType, MaxHold, HoldCovers
    <2>2. window' <= disk.hold \/ late'
      BY <2>1, SentOutCovers
    <2>3. CASE req.discovery
      <3>1. /\ sess'.pc = "write" /\ sess'.after = "read"
            /\ sess'.hold = DiscoveryTimeout + DiscoveryGuard
            /\ window' = DiscoveryTimeout
        BY <2>3 DEF TypeOK, SessType
      <3>2. window' <= sess'.hold
        BY <3>1
      <3> QED
        BY <2>1, <2>2, <3>1, <3>2 DEF HoldCovers, Reserving
    <2>4. CASE ~req.discovery
      <3>1. sess'.pc = "read" /\ sess'.hold = sess.hold
        BY <2>4 DEF TypeOK, SessType
      <3> QED
        BY <2>1, <2>2, <3>1 DEF HoldCovers, Reserving
    <2> QED
      BY <2>3, <2>4
  <1>5. RequestOut'
    BY DEF RequestOut, TypeOK, SessType, RequestType, NoRequest, Rocs
  <1> QED
    BY <1>1, <1>2, <1>3, <1>4, <1>5

\* A failed write or drain leaves the hold-off of reserve in place, which
\* covers a request that went out all the same, unless it was late.
LEMMA SendFailsStep ==
  ASSUME IInv, SendFails
  PROVE  IInv'
  <1> USE DEF IInv, SendFails, line, clock, scanVars, SentOut, Answer, WindowOf
  <1>1. TypeOK'
    <2>1. pending' \subseteq Replies /\ inbox' \subseteq Replies
      <3>1. sess.pc = "transmit" => Answer \in Replies
        BY DEF RequestOut, RequestType, Replies
      <3> QED
        BY <3>1 DEF TypeOK
    <2>2. window' \in 0..Timeout
      BY DEF TypeOK
    <2>4. late' \in BOOLEAN
      <3>1. late' = late \/ SentOut
        OBVIOUS
      <3> QED
        BY <3>1, SentOutCovers DEF TypeOK
    <2>3. sess' \in SessType
      BY DEF TypeOK, SessType
    <2> QED
      BY <2>1, <2>2, <2>3, <2>4 DEF TypeOK
  <1>2. AnswerIsFresh' /\ OutcomeAtEnd'
    BY DEF AnswerIsFresh, OutcomeAtEnd, NoStaleId, TypeOK, SessType
  <1>3. NoStaleId'
    BY DEF NoStaleId, Reserving, TypeOK, SessType, Replies
  <1>4. HoldCovers'
    <2>1. /\ disk.hold \in Nat /\ sess.hold \in Nat /\ disk.hold = sess.hold
          /\ disk' = disk
          /\ sess'.pc = "return" /\ sess'.hold = sess.hold
      BY DEF TypeOK, DiskType, SessType, MaxHold, HoldCovers
    <2>2. window' <= disk.hold \/ late'
      <3>1. CASE SentOut
        BY <2>1, <3>1, SentOutCovers
      <3>2. CASE UNCHANGED <<window, late>>
        BY <3>2 DEF HoldCovers
      <3> QED
        BY <3>1, <3>2
    <2> QED
      BY <2>1, <2>2 DEF HoldCovers, Reserving
  <1>5. RequestOut'
    BY DEF RequestOut, TypeOK, SessType, RequestType, NoRequest, Rocs
  <1> QED
    BY <1>1, <1>2, <1>3, <1>4, <1>5

\* A response that does not come in time leaves the hold-off in place.
LEMMA ResponseTimeoutStep ==
  ASSUME IInv, ResponseTimeout
  PROVE  IInv'
  <1> USE DEF IInv, ResponseTimeout, line, clock, scanVars
  <1>1. TypeOK'
    BY DEF TypeOK, RequestOut, DiskType, SessType, ScanType, ResultType, NoId,
           MaxHold, Rocs
  <1>2. AnswerIsFresh' /\ OutcomeAtEnd'
    BY DEF AnswerIsFresh, OutcomeAtEnd, NoStaleId, TypeOK, SessType
  <1>3. NoStaleId'
    BY DEF NoStaleId, Reserving, TypeOK, SessType, Replies
  <1>4. HoldCovers'
    BY DEF HoldCovers, NoStaleId, Reserving, TypeOK, DiskType, SessType, MaxHold
  <1>5. RequestOut'
    BY DEF RequestOut, TypeOK, SessType, RequestType, NoRequest, Rocs
  <1> QED
    BY <1>1, <1>2, <1>3, <1>4, <1>5

\* A failed save ends the exchange; the process keeps its hold-off and the file
\* the old or the new one, and each covers the window.
LEMMA SaveFailsStep ==
  ASSUME IInv, SaveFails
  PROVE  IInv'
  <1> USE DEF IInv, SaveFails, line, clock, scanVars
  <1>1. TypeOK'
    BY DEF TypeOK, RequestOut, DiskType, SessType, ScanType, ResultType, NoId,
           MaxHold, Rocs
  <1>2. AnswerIsFresh' /\ OutcomeAtEnd'
    BY DEF AnswerIsFresh, OutcomeAtEnd, NoStaleId, TypeOK, SessType
  <1>3. NoStaleId'
    BY DEF NoStaleId, Reserving, TypeOK, SessType, Replies
  <1>4. HoldCovers'
    BY DEF HoldCovers, NoStaleId, Reserving, TypeOK, DiskType, SessType, MaxHold
  <1>5. RequestOut'
    BY DEF RequestOut, TypeOK, SessType, RequestType, NoRequest, Rocs
  <1> QED
    BY <1>1, <1>2, <1>3, <1>4, <1>5

\* A failed read leaves the hold-off in place.
LEMMA ReadFailsStep ==
  ASSUME IInv, ReadFails
  PROVE  IInv'
  <1> USE DEF IInv, ReadFails, line, clock, scanVars
  <1>1. TypeOK'
    BY DEF TypeOK, RequestOut, DiskType, SessType, ScanType, ResultType, NoId,
           MaxHold, Rocs
  <1>2. AnswerIsFresh' /\ OutcomeAtEnd'
    BY DEF AnswerIsFresh, OutcomeAtEnd, NoStaleId, TypeOK, SessType
  <1>3. NoStaleId'
    BY DEF NoStaleId, Reserving, TypeOK, SessType, Replies
  <1>4. HoldCovers'
    BY DEF HoldCovers, NoStaleId, Reserving, TypeOK, DiskType, SessType, MaxHold
  <1>5. RequestOut'
    BY DEF RequestOut, TypeOK, SessType, RequestType, NoRequest, Rocs
  <1> QED
    BY <1>1, <1>2, <1>3, <1>4, <1>5

\* A scan begins without a request of its own (discover).
LEMMA StartScanStep ==
  ASSUME IInv, StartScan
  PROVE  IInv'
  <1> USE DEF IInv, StartScan, line, clock, scanVars, NoScan
  <1>1. TypeOK'
    <2>1. scan' \in ScanType /\ published' \in ResultType
      <3>1. 1 \in 1..(NumRocs + 1)
        OBVIOUS
      <3> QED
        BY <3>1 DEF TypeOK, ScanType
    <2> QED
      BY <2>1 DEF TypeOK, RequestOut, DiskType, SessType, RequestType, Replies,
                  MaxHold
  <1>2. AnswerIsFresh' /\ OutcomeAtEnd'
    BY DEF AnswerIsFresh, OutcomeAtEnd, NoStaleId, TypeOK, SessType
  <1>3. NoStaleId'
    BY DEF NoStaleId, Reserving, TypeOK, SessType, Replies
  <1>4. HoldCovers'
    BY DEF HoldCovers, NoStaleId, Reserving, TypeOK, DiskType, SessType, MaxHold
  <1>5. RequestOut'
    BY DEF RequestOut, TypeOK, SessType, RequestType, NoRequest, Rocs
  <1> QED
    BY <1>1, <1>2, <1>3, <1>4, <1>5

\* The exchange hands its outcome over; the scan moves on by one address.
LEMMA ReturnStep ==
  ASSUME IInv, Return
  PROVE  IInv'
  <1> USE DEF IInv, Return, line, clock, scanVars, AfterProbe, NoScan, NoRequest,
              NoReply
  <1>1. TypeOK'
    <2>1. scan' \in ScanType /\ published' \in ResultType
      <3>1. NoScan \in ScanType
        BY DEF ScanType
      <3>2. ASSUME req.discovery
            PROVE  AfterProbe(sess.outcome) \in ScanType
        <4>1. scan.next \in Rocs /\ scan.next + 1 \in 1..(NumRocs + 1)
          BY <3>2 DEF TypeOK, RequestOut, RequestType, Rocs
        <4>2. [scan EXCEPT !.next = @ + 1] \in ScanType
          BY <4>1 DEF TypeOK, ScanType
        <4> QED
          BY <3>1, <4>1, <4>2 DEF ScanType
      <3> QED
        BY <3>1, <3>2 DEF TypeOK
    <2>2. sess' \in SessType
      <3>1. 0 \in 0..Timeout
        OBVIOUS
      <3> QED
        BY <3>1 DEF TypeOK, SessType
    <2> QED
      BY <2>1, <2>2 DEF TypeOK
  <1>2. AnswerIsFresh' /\ OutcomeAtEnd'
    BY DEF AnswerIsFresh, OutcomeAtEnd, NoStaleId, TypeOK, SessType
  <1>3. NoStaleId'
    BY DEF NoStaleId, Reserving, TypeOK, SessType, Replies
  <1>4. HoldCovers'
    BY DEF HoldCovers, NoStaleId, Reserving, TypeOK, DiskType, SessType, MaxHold
  <1>5. RequestOut'
    BY DEF RequestOut, TypeOK, SessType, RequestType, NoRequest, Rocs
  <1> QED
    BY <1>1, <1>2, <1>3, <1>4, <1>5

\* A scan ends when the last address has been probed, with no probe out.
LEMMA EndScanStep ==
  ASSUME IInv, EndScan
  PROVE  IInv'
  <1> USE DEF IInv, EndScan, line, clock, scanVars, NoScan
  <1>1. TypeOK'
    BY DEF TypeOK, RequestOut, DiskType, SessType, ScanType, ResultType, NoId,
           MaxHold, Rocs
  <1>2. AnswerIsFresh' /\ OutcomeAtEnd'
    BY DEF AnswerIsFresh, OutcomeAtEnd, NoStaleId, TypeOK, SessType
  <1>3. NoStaleId'
    BY DEF NoStaleId, Reserving, TypeOK, SessType, Replies
  <1>4. HoldCovers'
    BY DEF HoldCovers, NoStaleId, Reserving, TypeOK, DiskType, SessType, MaxHold
  <1>5. RequestOut'
    BY DEF RequestOut, TypeOK, SessType, RequestType, NoRequest, Rocs
  <1> QED
    BY <1>1, <1>2, <1>3, <1>4, <1>5

\* A scan is given up only between two probes.
LEMMA AbortScanStep ==
  ASSUME IInv, AbortScan
  PROVE  IInv'
  <1> USE DEF IInv, AbortScan, line, clock, scanVars, NoScan
  <1>1. TypeOK'
    BY DEF TypeOK, RequestOut, DiskType, SessType, ScanType, ResultType, NoId,
           MaxHold, Rocs
  <1>2. AnswerIsFresh' /\ OutcomeAtEnd'
    BY DEF AnswerIsFresh, OutcomeAtEnd, NoStaleId, TypeOK, SessType
  <1>3. NoStaleId'
    BY DEF NoStaleId, Reserving, TypeOK, SessType, Replies
  <1>4. HoldCovers'
    BY DEF HoldCovers, NoStaleId, Reserving, TypeOK, DiskType, SessType, MaxHold
  <1>5. RequestOut'
    BY DEF RequestOut, TypeOK, SessType, RequestType, NoRequest, Rocs
  <1> QED
    BY <1>1, <1>2, <1>3, <1>4, <1>5

\* A process that dies anywhere, while sending too, leaves a file whose
\* hold-off covers the window of what it sent in time.
LEMMA CrashStep ==
  ASSUME IInv, Crash
  PROVE  IInv'
  <1> USE DEF IInv, Crash, line, clock, scanVars, Closed, SentOut, Answer, WindowOf,
              NoRequest, NoReply, NoScan, NoResult
  <1>1. TypeOK'
    <2>1. pending' \subseteq Replies /\ inbox' \subseteq Replies
      <3>1. sess.pc = "transmit" => Answer \in Replies
        BY DEF RequestOut, RequestType, Replies
      <3> QED
        BY <3>1 DEF TypeOK
    <2>2. window' \in 0..Timeout
      BY DEF TypeOK
    <2>4. late' \in BOOLEAN
      <3>1. late' = late \/ SentOut
        OBVIOUS
      <3> QED
        BY <3>1, SentOutCovers DEF TypeOK
    <2>3. sess' \in SessType /\ scan' \in ScanType /\ published' \in ResultType
      BY DEF SessType, ScanType, ResultType, Ids, MaxHold
    <2> QED
      BY <2>1, <2>2, <2>3, <2>4 DEF TypeOK
  <1>2. AnswerIsFresh' /\ OutcomeAtEnd'
    BY DEF AnswerIsFresh, OutcomeAtEnd, NoStaleId, TypeOK, SessType
  <1>3. NoStaleId'
    BY DEF NoStaleId, Reserving, TypeOK, SessType, Replies
  <1>4. HoldCovers'
    <2>1. /\ disk.hold \in Nat /\ sess.hold \in Nat /\ disk' = disk
          /\ sess.pc = "transmit" => disk.hold = sess.hold
          /\ sess'.pc = "closed"
      BY DEF TypeOK, DiskType, SessType, MaxHold, HoldCovers
    <2>2. window' <= disk.hold \/ late'
      <3>1. CASE sess.pc = "transmit" /\ SentOut
        BY <2>1, <3>1, SentOutCovers
      <3>2. CASE UNCHANGED <<window, late>>
        BY <3>2 DEF HoldCovers
      <3> QED
        BY <3>1, <3>2
    <2> QED
      BY <2>1, <2>2 DEF HoldCovers, Reserving
  <1>5. RequestOut'
    BY DEF RequestOut, TypeOK, SessType, RequestType, NoRequest, Rocs
  <1> QED
    BY <1>1, <1>2, <1>3, <1>4, <1>5

\* A tick shortens the window and both hold-offs alike.
LEMMA TickStep ==
  ASSUME IInv, Tick
  PROVE  IInv'
  <1> USE DEF IInv, Tick, line, clock, scanVars, Less
  <1>1. TypeOK'
    <2>1. sess' \in SessType
      <3>1. Less(sess.hold) \in 0..MaxHold /\ Less(sess.timer) \in 0..Timeout
        BY DEF TypeOK, SessType, MaxHold
      <3> QED
        BY <3>1 DEF TypeOK, SessType
    <2> QED
      BY <2>1 DEF TypeOK, RequestOut, DiskType, SessType, RequestType, Replies,
                  MaxHold
  <1>2. AnswerIsFresh' /\ OutcomeAtEnd'
    BY DEF AnswerIsFresh, OutcomeAtEnd, NoStaleId, TypeOK, SessType
  <1>3. NoStaleId'
    BY DEF NoStaleId, Reserving, TypeOK, SessType, Replies
  <1>4. HoldCovers'
    BY DEF HoldCovers, NoStaleId, Reserving, TypeOK, DiskType, SessType, MaxHold
  <1>5. RequestOut'
    BY DEF RequestOut, TypeOK, SessType, RequestType, NoRequest, Rocs
  <1> QED
    BY <1>1, <1>2, <1>3, <1>4, <1>5

\* reserve waits for the hold-off, so the window is closed when a new request
\* gets its number; a probe is for the address the scan is at.
LEMMA ReserveStep ==
  ASSUME IInv, NEW roc \in Rocs, NEW cmd \in Commands, NEW discovery \in BOOLEAN,
         discovery => scan.on /\ scan.next = roc,
         Reserve(roc, cmd, discovery)
  PROVE  IInv'
  <1> USE DEF IInv, Reserve, line, clock, scanVars, Reserved, NextId, wait_ready,
              NoReply
  <1>1. TypeOK'
    <2>1. sess' \in SessType
      <3>1. MaxHold \in 0..MaxHold
        BY DEF MaxHold
      <3>2. NextId(sess.id) \in Ids
        BY DEF TypeOK, SessType, Ids
      <3> QED
        BY <3>1, <3>2 DEF TypeOK, SessType
    <2> QED
      BY <2>1 DEF TypeOK, RequestOut, DiskType, SessType, RequestType, Replies,
                  MaxHold
  <1>2. AnswerIsFresh' /\ OutcomeAtEnd'
    BY DEF AnswerIsFresh, OutcomeAtEnd, NoStaleId, TypeOK, SessType
  <1>3. NoStaleId'
    BY DEF NoStaleId, Reserving, TypeOK, SessType, Replies
  <1>4. HoldCovers'
    BY DEF HoldCovers, NoStaleId, Reserving, TypeOK, DiskType, SessType, MaxHold
  <1>5. RequestOut'
    BY DEF RequestOut, TypeOK, SessType, RequestType, NoRequest, Rocs
  <1> QED
    BY <1>1, <1>2, <1>3, <1>4, <1>5

\* A reply that is ignored changes nothing but the input buffer.
LEMMA IgnoreStep ==
  ASSUME IInv, NEW r \in inbox, Ignore(r)
  PROVE  IInv'
  <1> USE DEF IInv, Ignore, line, clock, scanVars
  <1>1. TypeOK'
    BY DEF TypeOK, RequestOut, DiskType, SessType, ScanType, ResultType, NoId,
           MaxHold, Rocs
  <1>2. AnswerIsFresh' /\ OutcomeAtEnd'
    BY DEF AnswerIsFresh, OutcomeAtEnd, NoStaleId, TypeOK, SessType
  <1>3. NoStaleId'
    BY DEF NoStaleId, Reserving, TypeOK, SessType, Replies
  <1>4. HoldCovers'
    BY DEF HoldCovers, NoStaleId, Reserving, TypeOK, DiskType, SessType, MaxHold
  <1>5. RequestOut'
    BY DEF RequestOut, TypeOK, SessType, RequestType, NoRequest, Rocs
  <1> QED
    BY <1>1, <1>2, <1>3, <1>4, <1>5

\* A reply that matches the request is a fresh one: it answers the request
\* that opened the window, and the hold-off may end with it (complete).
LEMMA TakeReplyStep ==
  ASSUME IInv, NEW r \in inbox, TakeReply(r)
  PROVE  IInv'
  <1> USE DEF IInv, TakeReply, line, clock, scanVars, Matches
  <1>1. TypeOK'
    <2>1. sess' \in SessType
      <3>1. PICK outcome \in {"ok", "error"} :
              sess' = [sess EXCEPT !.pc = "write", !.after = "return", !.hold = 0,
                                   !.outcome = outcome]
        OBVIOUS
      <3>2. 0 \in 0..MaxHold
        BY DEF MaxHold
      <3> QED
        BY <3>1, <3>2 DEF TypeOK, SessType
    <2> QED
      BY <2>1 DEF TypeOK, RequestOut, DiskType, SessType, RequestType, Replies,
                  MaxHold
  <1>2. AnswerIsFresh' /\ OutcomeAtEnd'
    BY DEF AnswerIsFresh, OutcomeAtEnd, NoStaleId, TypeOK, SessType
  <1>3. NoStaleId'
    BY DEF NoStaleId, Reserving, TypeOK, SessType, Replies
  <1>4. HoldCovers'
    BY DEF HoldCovers, NoStaleId, Reserving, TypeOK, DiskType, SessType, MaxHold
  <1>5. RequestOut'
    BY DEF RequestOut, TypeOK, SessType, RequestType, NoRequest, Rocs
  <1> QED
    BY <1>1, <1>2, <1>3, <1>4, <1>5

\* What is delivered or lost was on its way.
LEMMA DeliverStep ==
  ASSUME IInv, NEW r \in pending, Deliver(r)
  PROVE  IInv'
  <1> USE DEF IInv, Deliver, line, clock, scanVars
  <1>1. TypeOK'
    BY DEF TypeOK, RequestOut, DiskType, SessType, ScanType, ResultType, NoId,
           MaxHold, Rocs
  <1>2. AnswerIsFresh' /\ OutcomeAtEnd'
    BY DEF AnswerIsFresh, OutcomeAtEnd, NoStaleId, TypeOK, SessType
  <1>3. NoStaleId'
    BY DEF NoStaleId, Reserving, TypeOK, SessType, Replies
  <1>4. HoldCovers'
    BY DEF HoldCovers, NoStaleId, Reserving, TypeOK, DiskType, SessType, MaxHold
  <1>5. RequestOut'
    BY DEF RequestOut, TypeOK, SessType, RequestType, NoRequest, Rocs
  <1> QED
    BY <1>1, <1>2, <1>3, <1>4, <1>5

-----------------------------------------------------------------------------
\* Nothing is out and no window is open when the file is new.
LEMMA InitHolds == Init => IInv
  <1> SUFFICES ASSUME Init PROVE IInv
    OBVIOUS
  <1> USE DEF Init, EmptyFile, Closed, NoRequest, NoReply, NoScan, NoResult
  <1>1. TypeOK
    <2>1. disk \in DiskType /\ sess \in SessType
      BY DEF DiskType, SessType, Ids, MaxHold
    <2>2. scan \in ScanType /\ published \in ResultType
      BY DEF ScanType, ResultType
    <2>3. /\ late = FALSE /\ window = 0 /\ probed = {} /\ pending = {} /\ inbox = {}
          /\ req = NoRequest /\ got = NoReply
      OBVIOUS
    <2> HIDE DEF Init, EmptyFile, Closed, NoRequest, NoReply, NoScan, NoResult
    <2>4. late \in BOOLEAN
      BY <2>3, Zenon
    <2>5. window \in 0..Timeout
      BY <2>3
    <2> QED
      BY <2>1, <2>2, <2>3, <2>4, <2>5 DEF TypeOK
  <1>2. AnswerIsFresh /\ NoStaleId /\ OutcomeAtEnd
    BY DEF AnswerIsFresh, NoStaleId, OutcomeAtEnd, Reserving
  <1>3. HoldCovers /\ RequestOut
    BY DEF HoldCovers, RequestOut, Reserving
  <1> QED
    BY <1>1, <1>2, <1>3 DEF IInv

\* Every step of the process, the line or the clock keeps the invariant.
LEMMA NextKeeps == IInv /\ [Next]_vars => IInv'
  <1> SUFFICES ASSUME IInv, [Next]_vars PROVE IInv'
    OBVIOUS
  <1>1. ASSUME NEW roc \in Rocs, NEW cmd \in Commands, Read(roc, cmd)
        PROVE  IInv'
    BY <1>1, ReserveStep DEF Read
  <1>2. CASE Probe
    <2>1. scan.next \in Rocs
      BY <1>2 DEF Probe, IInv, TypeOK, ScanType, Rocs
    <2>2. scan.on /\ "panel_id" \in Commands /\ Reserve(scan.next, "panel_id", TRUE)
      BY <1>2 DEF Probe, Commands
    <2> QED
      BY <2>1, <2>2, ReserveStep
  <1>3. ASSUME NEW r \in inbox, Ignore(r) \/ TakeReply(r)
        PROVE  IInv'
    BY <1>3, IgnoreStep, TakeReplyStep
  <1>4. ASSUME NEW r \in pending, Deliver(r)
        PROVE  IInv'
    BY <1>4, DeliverStep
  <1>5. CASE Open \/ Opened \/ SaveWrite \/ SaveTruncate \/ SaveFails
    BY <1>5, OpenStep, OpenedStep, SaveWriteStep, SaveTruncateStep, SaveFailsStep
  <1>6. CASE Transmit \/ Sent \/ SendFails \/ ReadFails \/ ResponseTimeout
    BY <1>6, TransmitStep, SentStep, SendFailsStep, ReadFailsStep, ResponseTimeoutStep
  <1>7. CASE StartScan \/ Return \/ EndScan \/ AbortScan
    BY <1>7, StartScanStep, ReturnStep, EndScanStep, AbortScanStep
  <1>8. CASE Crash \/ Tick
    BY <1>8, CrashStep, TickStep
  <1>9. CASE UNCHANGED vars
    <2> USE <1>9 DEF vars, IInv
    <2>1. TypeOK' /\ AnswerIsFresh' /\ OutcomeAtEnd' /\ RequestOut'
      BY DEF TypeOK, AnswerIsFresh, OutcomeAtEnd, RequestOut
    <2>2. NoStaleId' /\ HoldCovers'
      BY DEF NoStaleId, HoldCovers, Reserving
    <2> QED
      BY <2>1, <2>2
  <1> QED
    BY <1>1, <1>2, <1>3, <1>4, <1>5, <1>6, <1>7, <1>8, <1>9 DEF Next

\* The invariant of the bus: types, and that the hold-off which reserve saves
\* before it sends covers the window of a request that leaves within its
\* allowance, through every failure, crash and restart.
THEOREM BusInvariant == Spec => []IInv
  BY InitHolds, NextKeeps, PTL DEF Spec

\* _exchange never takes the late answer to an earlier request for the answer
\* to its own, across timeouts, failed writes and restarts.
THEOREM BusAnswerIsFresh == Spec => []AnswerIsFresh
  <1>1. IInv => AnswerIsFresh
    BY DEF IInv
  <1> QED
    BY <1>1, BusInvariant, PTL

\* The line is driven only once the response window of the last request that
\* went out has closed, whoever sent it, if that request left while its
\* reservation still covered the window (reserve, wait_ready).
THEOREM BusWindowIsWaitedOut == Spec => WindowIsWaitedOut
  <1>1. IInv /\ [Next]_vars
          => [(sess.pc # "transmit" /\ sess'.pc = "transmit")
                => window = 0 \/ late]_vars
    <2> SUFFICES ASSUME IInv, Next, sess.pc # "transmit", sess'.pc = "transmit"
                 PROVE  window = 0 \/ late
      OBVIOUS
    <2>1. Transmit
      <3> USE DEF IInv, TypeOK, SessType
      <3>1. /\ ~Open /\ ~Opened /\ ~SaveWrite
            /\ ~Sent /\ ~SendFails /\ ~ReadFails /\ ~ResponseTimeout /\ ~SaveFails
        BY DEF Open, Opened, SaveWrite, Sent, SendFails, ReadFails,
               ResponseTimeout, SaveFails, Closed
      <3>2. ~SaveTruncate
        BY DEF SaveTruncate
      <3>3. ~Crash
        BY DEF Crash, Closed
      <3>4. ~Tick
        BY DEF Tick
      <3>5. ~(StartScan \/ Return \/ EndScan \/ AbortScan)
        BY DEF StartScan, Return, EndScan, AbortScan
      <3>6. ~Probe /\ \A roc \in Rocs, cmd \in Commands : ~Read(roc, cmd)
        BY DEF Probe, Read, Reserve, Reserved
      <3>7. /\ \A r \in inbox : ~(Ignore(r) \/ TakeReply(r))
            /\ \A r \in pending : ~Deliver(r)
        BY DEF Ignore, TakeReply, Deliver
      <3> QED
        BY <3>1, <3>2, <3>3, <3>4, <3>5, <3>6, <3>7 DEF Next
    <2> QED
      BY <2>1 DEF Transmit, IInv, HoldCovers, Reserving
  <1> QED
    BY <1>1, BusInvariant, PTL DEF Spec, WindowIsWaitedOut

-----------------------------------------------------------------------------
(***************************************************************************)
(* The scan.  ScanIsSound speaks of completed scans only; that it is kept  *)
(* needs to be known of the scan under way too: what it has sorted so far  *)
(* are the addresses before the next one, each once, and a probe that is   *)
(* waited for, or was not answered, has been sent.                         *)
(***************************************************************************)

\* The addresses before n, each in exactly one of the three.
Sorted(n, found, silent, errors) ==
  /\ \A a \in Rocs : a \in found \cup silent \cup errors <=> a < n
  /\ found \cap silent = {}
  /\ errors \cap (found \cup silent) = {}

\* The probe of the request has gone out.
ProbeSent ==
  (/\ req.discovery
   /\ \/ sess.pc = "read"
      \/ sess.pc \in {"write", "truncate"} /\ sess.after = "read"
      \/ sess.outcome = "timeout")
  => req.roc \in probed

ScanInv ==
  /\ scan.silent \subseteq probed
  /\ scan.on => Sorted(scan.next, scan.found, scan.silent, scan.errors)
  /\ ~scan.on => scan.silent = {}
  /\ published.scanned =>
       Sorted(NumRocs + 1, published.found, published.silent, published.errors)
  /\ ProbeSent

\* Steps of the session that leave the scan alone.
LEMMA SessionScan ==
  ASSUME IInv, ScanInv, UNCHANGED scanVars,
         \/ Open \/ Opened \/ SaveWrite \/ SaveTruncate \/ Transmit
         \/ SaveFails \/ SendFails \/ ReadFails \/ ResponseTimeout \/ Tick
         \/ UNCHANGED vars
         \/ \E r \in inbox : Ignore(r) \/ TakeReply(r)
         \/ \E r \in pending : Deliver(r)
         \/ \E roc \in Rocs, cmd \in Commands, d \in BOOLEAN : Reserve(roc, cmd, d)
  PROVE  ScanInv'
  <1>1. scan' = scan /\ published' = published /\ probed' = probed
    BY DEF scanVars
  <1>2. ProbeSent'
    <2> USE DEF IInv, TypeOK, SessType, ScanInv, ProbeSent
    <2>1. CASE Open
      <3>1. sess'.pc = "opening" /\ sess'.outcome = "none"
        BY <2>1 DEF Open, Closed
      <3> QED
        BY <3>1
    <2>2. CASE Opened \/ SaveWrite \/ SaveTruncate \/ Transmit
      BY <1>1, <2>2 DEF Opened, SaveWrite, SaveTruncate, Transmit
    <2>3. CASE SaveFails \/ SendFails \/ ReadFails \/ ResponseTimeout \/ Tick
      BY <1>1, <2>3 DEF SaveFails, SendFails, ReadFails, ResponseTimeout, Tick
    <2>4. CASE UNCHANGED vars
      BY <2>4 DEF vars
    <2>5. ASSUME NEW r \in inbox, Ignore(r) \/ TakeReply(r)
          PROVE  ProbeSent'
      BY <1>1, <2>5 DEF Ignore, TakeReply
    <2>6. ASSUME NEW r \in pending, Deliver(r)
          PROVE  ProbeSent'
      BY <1>1, <2>6 DEF Deliver
    <2>7. ASSUME NEW roc \in Rocs, NEW cmd \in Commands, NEW d \in BOOLEAN,
                 Reserve(roc, cmd, d)
          PROVE  ProbeSent'
      BY <1>1, <2>7 DEF Reserve, Reserved, OutcomeAtEnd
    <2> QED
      BY <2>1, <2>2, <2>3, <2>4, <2>5, <2>6, <2>7
  <1> QED
    BY <1>1, <1>2 DEF ScanInv

\* A probe counts as sent once its last bit has left.
LEMMA SentScan ==
  ASSUME IInv, ScanInv, Sent
  PROVE  ScanInv'
  <1>1. /\ scan' = scan /\ published' = published /\ req' = req
        /\ probed' = IF req.discovery THEN probed \cup {req.roc} ELSE probed
    BY DEF Sent
  <1> QED
    BY <1>1 DEF ScanInv, ProbeSent

\* A new scan has sorted nothing, and no probe of it is out.
LEMMA StartScanScan ==
  ASSUME IInv, ScanInv, StartScan
  PROVE  ScanInv'
  <1>1. /\ scan' = [NoScan EXCEPT !.on = TRUE] /\ probed' = {}
        /\ published' = published /\ sess' = sess /\ req' = req
        /\ sess.pc = "open"
    BY DEF StartScan
  <1>2. /\ scan'.on /\ scan'.next = 1
        /\ scan'.found = {} /\ scan'.silent = {} /\ scan'.errors = {}
    BY <1>1 DEF NoScan
  <1>3. Sorted(1, {}, {}, {})
    BY DEF Sorted, Rocs
  <1>4. ProbeSent'
    BY <1>1 DEF ProbeSent, IInv, OutcomeAtEnd
  <1> QED
    BY <1>1, <1>2, <1>3, <1>4 DEF ScanInv

\* A probe that comes back is sorted by its outcome: silent only if its time
\* ran out, which it does only once it has been sent.
LEMMA ReturnScan ==
  ASSUME IInv, ScanInv, Return
  PROVE  ScanInv'
  <1>1. /\ scan' = IF req.discovery THEN AfterProbe(sess.outcome) ELSE scan
        /\ req' = NoRequest
        /\ published' = published /\ probed' = probed
    BY DEF Return
  <1>2. ProbeSent'
    BY <1>1 DEF ProbeSent, NoRequest
  <1>3. CASE ~req.discovery
    BY <1>1, <1>2, <1>3 DEF ScanInv
  <1>4. CASE req.discovery
    <2> DEFINE a == scan.next
    <2>1. /\ scan.on /\ a = req.roc /\ a \in Rocs /\ a \in Nat
          /\ scan \in ScanType
      BY <1>4 DEF IInv, RequestOut, TypeOK, RequestType, NoRequest, Rocs
    <2>2. /\ Sorted(a, scan.found, scan.silent, scan.errors)
          /\ scan.silent \subseteq probed
      BY <2>1 DEF ScanInv
    <2>3. a \notin scan.found \cup scan.silent \cup scan.errors
      BY <2>1, <2>2 DEF Sorted
    <2>4. \A b \in Rocs : b < a + 1 <=> b < a \/ b = a
      BY <2>1 DEF Rocs
    <2>5. CASE sess.outcome = "ok"
      <3>1. /\ scan'.on /\ scan'.next = a + 1
            /\ scan'.found = scan.found \cup {a}
            /\ scan'.silent = scan.silent /\ scan'.errors = scan.errors
        BY <1>1, <1>4, <2>1, <2>5 DEF AfterProbe, ScanType
      <3>2. Sorted(a + 1, scan.found \cup {a}, scan.silent, scan.errors)
        BY <2>1, <2>2, <2>3, <2>4 DEF Sorted
      <3> QED
        BY <3>1, <3>2, <2>2, <1>1, <1>2 DEF ScanInv
    <2>6. CASE sess.outcome = "timeout"
      <3>1. /\ scan'.on /\ scan'.next = a + 1
            /\ scan'.silent = scan.silent \cup {a}
            /\ scan'.found = scan.found /\ scan'.errors = scan.errors
        BY <1>1, <1>4, <2>1, <2>6 DEF AfterProbe, ScanType
      <3>2. Sorted(a + 1, scan.found, scan.silent \cup {a}, scan.errors)
        BY <2>1, <2>2, <2>3, <2>4 DEF Sorted
      <3>3. a \in probed
        BY <1>4, <2>1, <2>6 DEF ScanInv, ProbeSent
      <3> QED
        BY <3>1, <3>2, <3>3, <2>2, <1>1, <1>2 DEF ScanInv
    <2>7. CASE sess.outcome = "error"
      <3>1. /\ scan'.on /\ scan'.next = a + 1
            /\ scan'.errors = scan.errors \cup {a}
            /\ scan'.found = scan.found /\ scan'.silent = scan.silent
        BY <1>1, <1>4, <2>1, <2>7 DEF AfterProbe, ScanType
      <3>2. Sorted(a + 1, scan.found, scan.silent, scan.errors \cup {a})
        BY <2>1, <2>2, <2>3, <2>4 DEF Sorted
      <3> QED
        BY <3>1, <3>2, <2>2, <1>1, <1>2 DEF ScanInv
    <2>8. CASE sess.outcome \notin {"ok", "timeout", "error"}
      <3>1. ~scan'.on /\ scan'.silent = {}
        BY <1>1, <1>4, <2>8 DEF AfterProbe, NoScan
      <3> QED
        BY <3>1, <1>1, <1>2 DEF ScanInv
    <2> QED
      BY <2>5, <2>6, <2>7, <2>8
  <1> QED
    BY <1>3, <1>4

\* What is published is what the scan sorted, and it has come to the end.
LEMMA EndScanScan ==
  ASSUME IInv, ScanInv, EndScan
  PROVE  ScanInv'
  <1>1. /\ published' = [scanned |-> TRUE, found |-> scan.found,
                         silent |-> scan.silent, errors |-> scan.errors]
        /\ scan' = NoScan /\ scan.on /\ scan.next > NumRocs
        /\ sess' = sess /\ req' = req /\ probed' = probed
    BY DEF EndScan
  <1>2. scan.next = NumRocs + 1
    BY <1>1 DEF IInv, TypeOK, ScanType
  <1>3. Sorted(NumRocs + 1, scan.found, scan.silent, scan.errors)
    BY <1>1, <1>2 DEF ScanInv
  <1>4. ProbeSent'
    BY <1>1 DEF ScanInv, ProbeSent
  <1> QED
    BY <1>1, <1>3, <1>4 DEF ScanInv, NoScan

\* A scan that is given up, or dies with its process, publishes nothing.
LEMMA NoScanScan ==
  ASSUME IInv, ScanInv, AbortScan \/ Crash
  PROVE  ScanInv'
  <1>1. scan' = NoScan /\ ~scan'.on /\ scan'.silent = {}
    BY DEF AbortScan, Crash, NoScan
  <1>2. \/ published' = published
        \/ ~published'.scanned
    BY DEF AbortScan, Crash, NoResult
  <1>3. ProbeSent'
    <2>1. CASE AbortScan
      BY <2>1 DEF AbortScan, ProbeSent
    <2>2. CASE Crash
      BY <2>2 DEF Crash, ProbeSent, NoRequest
    <2> QED
      BY <2>1, <2>2
  <1> QED
    BY <1>1, <1>2, <1>3 DEF ScanInv

\* Every variable of the bus and of its file keeps its type.
THEOREM BusTypeOK == Spec => []TypeOK
  <1>1. IInv => TypeOK
    BY DEF IInv
  <1> QED
    BY <1>1, BusInvariant, PTL

\* What discover publishes accounts for every address exactly once, and calls
\* no panel silent whose probe was never sent, whatever fails, times out or is
\* refused between two probes and wherever the process dies.
THEOREM BusScanIsSound == Spec => []ScanIsSound
  <1>1. Init => ScanInv
    <2> SUFFICES ASSUME Init PROVE ScanInv
      OBVIOUS
    <2> USE DEF Init, NoScan, NoResult, NoRequest
    <2> QED
      BY DEF ScanInv, ProbeSent
  <1>2. ASSUME IInv, ScanInv, [Next]_vars
        PROVE  ScanInv'
    <2>1. CASE \/ Open \/ Opened \/ SaveWrite \/ SaveTruncate \/ Transmit
               \/ SaveFails \/ SendFails \/ ReadFails \/ ResponseTimeout \/ Tick
               \/ UNCHANGED vars
      <3>1. UNCHANGED scanVars
        BY <2>1 DEF Open, Opened, SaveWrite, SaveTruncate, SaveFails, Transmit,
                    SendFails, ReadFails, ResponseTimeout, Tick, vars, scanVars
      <3> QED
        BY <1>2, <2>1, <3>1, SessionScan
    <2>2. ASSUME NEW r \in inbox, Ignore(r) \/ TakeReply(r)
          PROVE  ScanInv'
      <3>1. UNCHANGED scanVars
        BY <2>2 DEF Ignore, TakeReply
      <3> QED
        BY <1>2, <2>2, <3>1, SessionScan
    <2>3. ASSUME NEW r \in pending, Deliver(r)
          PROVE  ScanInv'
      <3>1. UNCHANGED scanVars
        BY <2>3 DEF Deliver
      <3> QED
        BY <1>2, <2>3, <3>1, SessionScan
    <2>4. ASSUME NEW roc \in Rocs, NEW cmd \in Commands, Read(roc, cmd)
          PROVE  ScanInv'
      <3>1. UNCHANGED scanVars /\ Reserve(roc, cmd, FALSE)
        BY <2>4 DEF Read, Reserve
      <3> QED
        BY <1>2, <3>1, SessionScan
    <2>5. CASE Probe
      <3>1. /\ UNCHANGED scanVars /\ Reserve(scan.next, "panel_id", TRUE)
            /\ scan.next \in Rocs /\ "panel_id" \in Commands
        BY <1>2, <2>5 DEF Probe, Reserve, IInv, TypeOK, ScanType, Rocs, Commands
      <3> QED
        BY <1>2, <3>1, SessionScan
    <2>6. CASE Sent \/ StartScan \/ Return \/ EndScan \/ AbortScan \/ Crash
      BY <1>2, <2>6, SentScan, StartScanScan, ReturnScan, EndScanScan, NoScanScan
    <2> QED
      BY <1>2, <2>1, <2>2, <2>3, <2>4, <2>5, <2>6 DEF Next
  <1>3. IInv /\ ScanInv => ScanIsSound
    <2> SUFFICES ASSUME IInv, ScanInv, published.scanned
                 PROVE  /\ published.found \cup published.silent \cup published.errors = Rocs
                        /\ published.found \cap published.silent = {}
                        /\ published.errors \cap (published.found \cup published.silent) = {}
      BY DEF ScanIsSound, ScanInv
    <2>1. Sorted(NumRocs + 1, published.found, published.silent, published.errors)
      BY DEF ScanInv
    <2>2. \A a \in Rocs : a < NumRocs + 1
      BY DEF Rocs
    <2>3. published.found \cup published.silent \cup published.errors \subseteq Rocs
      BY DEF IInv, TypeOK, ResultType
    <2> QED
      BY <2>1, <2>2, <2>3 DEF Sorted
  <1> QED
    BY <1>1, <1>2, <1>3, BusInvariant, PTL DEF Spec

=============================================================================
