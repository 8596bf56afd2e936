------------------------------- MODULE BusSession -------------------------------
(***************************************************************************)
(* The RS485 bus as rs485.py uses it: a session with its transaction       *)
(* number and hold-off in a file (BusSession), one exchange at a time      *)
(* (PiBus._exchange), and the scan that probes every address (discover).   *)
(*                                                                         *)
(* The file is locked by the process that has the bus, so there is one     *)
(* process here, which may die anywhere and be started again.  Inside it   *)
(* the turns of FairQueue let one exchange run at a time.                  *)
(*                                                                         *)
(* Time is a number of ticks.  A hold-off is kept as the ticks still to    *)
(* go, so Tick takes one off each and the clock itself is not needed; the  *)
(* wall clock is taken to run steadily.                                    *)
(*                                                                         *)
(* A ROC may answer a request within its response window, later, or not at *)
(* all, but not so late that its transaction number is in use again.       *)
(***************************************************************************)
EXTENDS Naturals

CONSTANTS
  NumRocs,          \* the addresses 1..NumRocs
  IdSpace,          \* the number of transaction numbers (65536)
  Timeout,          \* the response window of a request
  WriteAllowance,   \* what reserve() adds for the request to leave (1.1 s)
  DiscoveryTimeout, \* the response window of a probe
  DiscoveryGuard    \* the pause after it

ASSUME BusSessionAssumption ==
  /\ NumRocs \in Nat \ {0} /\ IdSpace \in Nat \ {0, 1}
  /\ Timeout \in Nat \ {0} /\ WriteAllowance \in Nat
  /\ DiscoveryTimeout \in 1..Timeout /\ DiscoveryGuard \in Nat
  /\ DiscoveryTimeout + DiscoveryGuard <= Timeout + WriteAllowance

VARIABLES
  disk,       \* the file: transaction number, hold-off and a torn end
  sess,       \* the process: where it is, its copy of the file, its timer
  req,        \* the request of the exchange under way
  got,        \* the answer it was given
  scan,       \* the scan under way
  published,  \* the result of the last completed scan
  pending,    \* the answers that ROCs may still send
  inbox,      \* the answers in the input buffer of the UART
  window,     \* what is left of the response window of the last request sent
  late,       \* the last request left when its reservation no longer covered
              \* its response window, and none has been saved since that does
  probed      \* the addresses whose probe has been sent in this scan

line == <<pending, inbox>>
scanVars == <<scan, published, probed>>
clock == <<window, late>>
vars == <<disk, sess, req, got, scan, published, pending, inbox, window, late,
          probed>>

Rocs == 1..NumRocs
Ids == 0..(IdSpace - 1)
MaxHold == Timeout + WriteAllowance
Commands == {"scalar", "panel_id"}

\* json.dumps of the state; torn is the end of a longer text left behind it.
\* An empty file has no number.
NoId == IdSpace
EmptyFile == [id |-> NoId, hold |-> 0, torn |-> FALSE]
DiskType == [id : Ids \cup {NoId}, hold : 0..MaxHold, torn : BOOLEAN]

NoRequest == [id |-> 0, roc |-> 0, cmd |-> "none", discovery |-> FALSE]
RequestType == [id : Ids, roc : Rocs, cmd : Commands, discovery : BOOLEAN]

\* fresh: it answers the last request that was sent.
Replies == [id : Ids, roc : Rocs, cmd : Commands, fresh : BOOLEAN]
NoReply == [id |-> 0, roc |-> 0, cmd |-> "none", fresh |-> FALSE]

Closed == [pc |-> "closed", id |-> 0, hold |-> 0, after |-> "open", timer |-> 0,
           outcome |-> "none"]
SessType ==
  [pc : {"closed", "opening", "open", "write", "truncate", "send", "transmit",
         "read", "return"},
   id : Ids, hold : 0..MaxHold, after : {"open", "send", "read", "return"},
   timer : 0..Timeout, outcome : {"none", "ok", "error", "timeout", "failed"}]

NoScan == [on |-> FALSE, next |-> 1, found |-> {}, silent |-> {}, errors |-> {}]
ScanType == [on : BOOLEAN, next : 1..(NumRocs + 1), found : SUBSET Rocs,
             silent : SUBSET Rocs, errors : SUBSET Rocs]
NoResult == [scanned |-> FALSE, found |-> {}, silent |-> {}, errors |-> {}]
ResultType == [scanned : BOOLEAN, found : SUBSET Rocs, silent : SUBSET Rocs,
               errors : SUBSET Rocs]

TypeOK ==
  /\ disk \in DiskType
  /\ sess \in SessType
  /\ req \in RequestType \cup {NoRequest}
  /\ got \in Replies \cup {NoReply}
  /\ scan \in ScanType
  /\ published \in ResultType
  /\ pending \subseteq Replies
  /\ inbox \subseteq Replies
  /\ window \in 0..Timeout
  /\ late \in BOOLEAN
  /\ probed \subseteq Rocs

Init ==
  /\ disk = EmptyFile
  /\ sess = Closed
  /\ req = NoRequest
  /\ got = NoReply
  /\ scan = NoScan
  /\ published = NoResult
  /\ pending = {}
  /\ inbox = {}
  /\ window = 0
  /\ late = FALSE
  /\ probed = {}

-----------------------------------------------------------------------------
(* The session and its file. *)

\* __enter__: the file is read, a new one starts at a random number.  A file
\* that does not parse ends the process again.
Open ==
  /\ sess.pc = "closed"
  /\ ~disk.torn
  /\ \E id \in IF disk.id = NoId THEN Ids ELSE {disk.id} :
       sess' = [Closed EXCEPT !.pc = "opening", !.id = id, !.hold = disk.hold]
  /\ UNCHANGED <<disk, req, got, scanVars, line, clock>>

\* wait_ready has slept until the hold-off was over.
wait_ready == sess.hold = 0

Opened ==
  /\ sess.pc = "opening"
  /\ wait_ready
  /\ sess' = [sess EXCEPT !.pc = "open", !.hold = 0]
  /\ UNCHANGED <<disk, req, got, scanVars, line, clock>>

\* save, first half: the text is written over the old one.  Where it is the
\* shorter of the two, the end of the old one is still there.  Once the file
\* has given out a number again, no reply with that number is still to come:
\* it would be IdSpace transactions late.
SaveWrite ==
  /\ sess.pc = "write"
  /\ \E torn \in IF disk.id = NoId THEN {FALSE} ELSE BOOLEAN :
       disk' = [id |-> sess.id, hold |-> sess.hold, torn |-> torn]
  /\ sess' = [sess EXCEPT !.pc = "truncate"]
  /\ IF sess.after = "send"
     THEN /\ pending' = {r \in pending : r.id # req.id}
          /\ inbox' = {r \in inbox : r.id # req.id}
     ELSE UNCHANGED line
  /\ late' = IF sess.after = "read" THEN FALSE ELSE late
  /\ UNCHANGED <<req, got, scanVars, window>>

\* save, second half.
SaveTruncate ==
  /\ sess.pc = "truncate"
  /\ disk' = [disk EXCEPT !.torn = FALSE]
  /\ sess' = [sess EXCEPT !.pc = sess.after]
  /\ UNCHANGED <<req, got, scanVars, line, clock>>

\* save raises: before the new text is in the file or after it, with the end of
\* the old one cut off or not.  The exchange ends there.
SaveFails ==
  /\ sess.pc \in {"write", "truncate"}
  /\ sess' = [sess EXCEPT !.pc = "return", !.outcome = "failed"]
  /\ UNCHANGED <<disk, req, got, scanVars, line, clock>>

\* Mutant of NextId: the mask is left out.
NextId_NoMask(id) == id + 1

\* (transaction + 1) & 0xFFFF.
NextId(id) == (id + 1) % IdSpace

\* Mutant of Reserved: the reservation is not saved.
Reserved_NotSaved == [sess EXCEPT !.pc = "send", !.id = NextId(@), !.hold = MaxHold]

\* The number is taken and the hold-off begins; both go to the file.
Reserved == [sess EXCEPT !.pc = "write", !.after = "send", !.id = NextId(@),
                         !.hold = MaxHold]

\* reserve: the number and the hold-off are saved before anything is sent.
Reserve(roc, cmd, discovery) ==
  /\ sess.pc = "open"
  /\ wait_ready
  /\ req' = [id |-> sess.id, roc |-> roc, cmd |-> cmd, discovery |-> discovery]
  /\ sess' = Reserved
  /\ got' = NoReply
  /\ UNCHANGED <<disk, scanVars, line, clock>>

\* read, direct_read, recovery, panel_id.
Read(roc, cmd) == Reserve(roc, cmd, FALSE)

\* A request has its number and is yet to be sent.
Reserving ==
  \/ sess.pc = "send"
  \/ sess.pc \in {"write", "truncate"} /\ sess.after = "send"

-----------------------------------------------------------------------------
(* The exchange. *)

Outdated(S) == {[r EXCEPT !.fresh = FALSE] : r \in S}

\* The input buffer is emptied and the line is driven.
Transmit ==
  /\ sess.pc = "send"
  /\ sess' = [sess EXCEPT !.pc = "transmit"]
  /\ inbox' = {}
  /\ pending' = Outdated(pending)
  /\ UNCHANGED <<disk, req, got, scanVars, clock>>

Answer == [id |-> req.id, roc |-> req.roc, cmd |-> req.cmd, fresh |-> TRUE]
WindowOf(q) == IF q.discovery THEN DiscoveryTimeout ELSE Timeout

\* The request has gone out: its ROC, if there is one, may answer it.
SentOut ==
  /\ pending' = pending \cup {Answer}
  /\ window' = WindowOf(req)
  /\ late' = (sess.hold < WindowOf(req))

\* The last bit of the request has left and the line is released.  A probe
\* now replaces the hold-off by its own, shorter one.
Sent ==
  /\ sess.pc = "transmit"
  /\ SentOut
  /\ probed' = IF req.discovery THEN probed \cup {req.roc} ELSE probed
  /\ sess' = IF req.discovery
             THEN [sess EXCEPT !.pc = "write", !.after = "read",
                               !.timer = DiscoveryTimeout,
                               !.hold = DiscoveryTimeout + DiscoveryGuard]
             ELSE [sess EXCEPT !.pc = "read", !.timer = Timeout]
  /\ UNCHANGED <<disk, req, got, scan, published, inbox>>

\* Emptying the input buffer, driving the line, the write or the drain fails,
\* in the last cases with the request on its way or not.
SendFails ==
  /\ sess.pc \in {"send", "transmit"}
  /\ \/ sess.pc = "transmit" /\ SentOut
     \/ UNCHANGED <<pending, clock>>
  /\ sess' = [sess EXCEPT !.pc = "return", !.outcome = "failed"]
  /\ UNCHANGED <<disk, req, got, scanVars, inbox>>

\* serial.read raises inside the response window.
ReadFails ==
  /\ sess.pc = "read"
  /\ sess' = [sess EXCEPT !.pc = "return", !.outcome = "failed"]
  /\ UNCHANGED <<disk, req, got, scanVars, line, clock>>

\* Mutant of Matches: the transaction number is not compared.
Matches_AnyId(r) == r.roc = req.roc /\ r.cmd = req.cmd

\* Kind, address, transaction number and command are those of the request.
Matches(r) == r.id = req.id /\ r.roc = req.roc /\ r.cmd = req.cmd

\* Another reply, or one of the wrong length, is counted and ignored.
Ignore(r) ==
  /\ sess.pc = "read"
  /\ r \in inbox
  /\ inbox' = inbox \ {r}
  /\ UNCHANGED <<disk, sess, req, got, scanVars, pending, clock>>

\* A matching reply ends the hold-off, whatever its status says.
TakeReply(r) ==
  /\ sess.pc = "read"
  /\ r \in inbox /\ Matches(r)
  /\ inbox' = inbox \ {r}
  /\ got' = r
  /\ \E outcome \in {"ok", "error"} :
       sess' = [sess EXCEPT !.pc = "write", !.after = "return", !.hold = 0,
                            !.outcome = outcome]
  /\ window' = IF r.fresh THEN 0 ELSE window
  /\ UNCHANGED <<disk, req, scanVars, pending, late>>

ResponseTimeout ==
  /\ sess.pc = "read"
  /\ sess.timer = 0
  /\ sess' = [sess EXCEPT !.pc = "return", !.outcome = "timeout"]
  /\ UNCHANGED <<disk, req, got, scanVars, line, clock>>

-----------------------------------------------------------------------------
(* The scan. *)

StartScan ==
  /\ sess.pc = "open" /\ ~scan.on
  /\ scan' = [NoScan EXCEPT !.on = TRUE]
  /\ probed' = {}
  /\ UNCHANGED <<disk, sess, req, got, published, line, clock>>

Probe ==
  /\ scan.on /\ scan.next <= NumRocs
  /\ Reserve(scan.next, "panel_id", TRUE)

\* Mutant of AfterProbe: a request that could not be sent counts as silence.
AfterProbe_FailedIsSilent(outcome) ==
  LET s == [scan EXCEPT !.next = @ + 1]
      a == scan.next
  IN  CASE outcome = "ok"      -> [s EXCEPT !.found = @ \cup {a}]
        [] outcome = "error"   -> [s EXCEPT !.errors = @ \cup {a}]
        [] OTHER               -> [s EXCEPT !.silent = @ \cup {a}]

\* What the scan makes of a probe; a transport that fails ends it.
AfterProbe(outcome) ==
  LET s == [scan EXCEPT !.next = @ + 1]
      a == scan.next
  IN  CASE outcome = "ok"      -> [s EXCEPT !.found = @ \cup {a}]
        [] outcome = "timeout" -> [s EXCEPT !.silent = @ \cup {a}]
        [] outcome = "error"   -> [s EXCEPT !.errors = @ \cup {a}]
        [] OTHER               -> NoScan

\* The exchange returns, or raises, to its caller.
Return ==
  /\ sess.pc = "return"
  /\ sess' = [sess EXCEPT !.pc = "open", !.after = "open", !.timer = 0,
                          !.outcome = "none"]
  /\ scan' = IF req.discovery THEN AfterProbe(sess.outcome) ELSE scan
  /\ req' = NoRequest
  /\ got' = NoReply
  /\ UNCHANGED <<disk, published, line, clock, probed>>

EndScan ==
  /\ scan.on /\ scan.next > NumRocs
  /\ published' = [scanned |-> TRUE, found |-> scan.found,
                   silent |-> scan.silent, errors |-> scan.errors]
  /\ scan' = NoScan
  /\ UNCHANGED <<disk, sess, req, got, line, clock, probed>>

\* The queue refuses the next probe: full, expired, cancelled or stopping.
AbortScan ==
  /\ scan.on /\ scan.next <= NumRocs
  /\ ~req.discovery
  /\ scan' = NoScan
  /\ UNCHANGED <<disk, sess, req, got, published, line, clock, probed>>

-----------------------------------------------------------------------------
(* The process, the line and time. *)

\* The process ends between two exchanges, or dies anywhere: a request that
\* was being sent may have gone out.
Crash ==
  /\ sess.pc # "closed"
  /\ \/ sess.pc = "transmit" /\ SentOut
     \/ UNCHANGED <<pending, clock>>
  /\ sess' = Closed
  /\ req' = NoRequest
  /\ got' = NoReply
  /\ scan' = NoScan
  /\ published' = NoResult
  /\ probed' = {}
  /\ UNCHANGED <<disk, inbox>>

\* An answer comes in, or is lost.
Deliver(r) ==
  /\ r \in pending
  /\ pending' = pending \ {r}
  /\ inbox' \in {inbox, inbox \cup {r}}
  /\ UNCHANGED <<disk, sess, req, got, scanVars, clock>>

Less(n) == IF n = 0 THEN 0 ELSE n - 1

\* One tick: a reader whose deadline has come stops reading.  Nothing bounds
\* how long the save, the write and the drain of a request take.
Tick ==
  /\ ~(sess.pc = "read" /\ sess.timer = 0)
  /\ disk' = [disk EXCEPT !.hold = Less(@)]
  /\ sess' = [sess EXCEPT !.hold = Less(@), !.timer = Less(@)]
  /\ window' = Less(window)
  /\ UNCHANGED <<req, got, scanVars, line, late>>

Next ==
  \/ Open \/ Opened \/ SaveWrite \/ SaveTruncate \/ SaveFails
  \/ \E roc \in Rocs, cmd \in Commands : Read(roc, cmd)
  \/ Transmit \/ Sent \/ SendFails \/ ReadFails \/ ResponseTimeout
  \/ \E r \in inbox : Ignore(r) \/ TakeReply(r)
  \/ StartScan \/ Probe \/ Return \/ EndScan \/ AbortScan
  \/ Crash
  \/ \E r \in pending : Deliver(r)
  \/ Tick

Spec == Init /\ [][Next]_vars

-----------------------------------------------------------------------------
(* Properties. *)

\* What an exchange returns is the answer to the request it sent, not the late
\* answer to an earlier one, of this process or of one that died (PiBus).
AnswerIsFresh ==
  sess.outcome \in {"ok", "error"} =>
    got.fresh /\ got.roc = req.roc /\ got.cmd = req.cmd

\* Nothing is sent while the response window of an earlier request is open,
\* unless it was answered: not after a timeout, not after a failed write, read
\* or save, not by the next process after a crash at any point.  The exception
\* is a request that itself took longer to leave than its reservation allows
\* (1.1 s for a save, a write and a drain that together have no bound) and
\* whose exchange was then cut short (BusSession).
WindowIsWaitedOut ==
  [][(sess.pc # "transmit" /\ sess'.pc = "transmit") => window = 0 \/ late]_vars

\* The strengthening of the two properties above.  No reply but a fresh one
\* carries the number of the request that is out.
NoStaleId ==
  /\ Reserving /\ sess.pc # "write" => \A r \in pending \cup inbox : r.id # req.id
  /\ (\/ sess.pc \in {"transmit", "read"}
      \/ sess.pc \in {"write", "truncate"} /\ sess.after = "read")
     => \A r \in pending \cup inbox : r.id = req.id => r.fresh

\* The hold-off in the file and that of the process cover the open window of a
\* request that left in time; the one a probe replaces them by covers its
\* window however late it left.
HoldCovers ==
  /\ window <= disk.hold \/ late
  /\ sess.pc # "closed" => window <= sess.hold \/ late
  /\ (Reserving \/ sess.pc = "transmit") => window = 0 \/ late
  /\ sess.pc \in {"write", "truncate"} =>
       /\ sess.after = "read" => window <= sess.hold
       /\ sess.after = "return" => window = 0
  /\ sess.pc \in {"truncate", "send", "transmit"} => disk.hold = sess.hold

\* An outcome is there only between the end of an exchange and its return.
OutcomeAtEnd ==
  sess.outcome # "none" =>
    \/ sess.pc = "return"
    \/ sess.pc \in {"write", "truncate"} /\ sess.after = "return"

\* An exchange has its request, and that of a probe is the scan's own.
RequestOut ==
  /\ sess.pc \notin {"closed", "opening", "open"} => req \in RequestType
  /\ req.discovery => scan.on /\ scan.next = req.roc

IInv == /\ TypeOK /\ AnswerIsFresh
        /\ NoStaleId /\ HoldCovers /\ OutcomeAtEnd /\ RequestOut

\* A completed scan accounts for every address once, and calls silent only a
\* panel whose probe has been sent: "UART write/drain errors abort; never
\* label these as absent panels".
ScanIsSound ==
  /\ scan.silent \subseteq probed
  /\ published.scanned =>
       /\ published.found \cup published.silent \cup published.errors = Rocs
       /\ published.found \cap published.silent = {}
       /\ published.errors \cap (published.found \cup published.silent) = {}

\* The file "preserves transaction IDs and pending response windows, including
\* across restarts": whenever no process has it, the next one can read it.
FileSurvivesRestart == sess.pc = "closed" => ~disk.torn

=============================================================================
