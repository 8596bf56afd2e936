---------------------------- MODULE DiscoveryHistory ----------------------------
(***************************************************************************)
(* discovery_history.py and the life of rs485_server.py: discoveries of    *)
(* the start, the power-on thread and HTTP handlers read the power, wait   *)
(* for the bus, scan, read the power again and record what they found; a   *)
(* daemon thread delivers the warnings; a stop drains the threads before   *)
(* the UART is closed, and a crash leaves what was saved.                  *)
(*                                                                         *)
(* A warning is kept by its id and the users who have it (its text names   *)
(* at most 100 panels; more make further warnings of the same kind).       *)
(***************************************************************************)
EXTENDS Naturals, FiniteSets

CONSTANTS
  Mns,         \* the panel addresses
  StartRange,  \* those that the scans of the service itself cover (0..300)
  Users,       \* the recipients
  MaxWarnings  \* bound: warnings that are ever made

ASSUME DiscoveryHistoryAssumption ==
  StartRange \subseteq Mns /\ IsFiniteSet(Users) /\ MaxWarnings \in Nat

VARIABLES
  srv,     \* the phase of main
  closing, \* the queue was closed by a signal
  powered, \* the power reader finds the power on (FALSE: off or unknown)
  scan,    \* the discovery each caller has under way
  data,    \* DiscoveryHistory.data
  disk,    \* the file
  mail,    \* the notification thread
  made,    \* how many warnings were made (their ids)
  told     \* history: what was sent to whom

histVars == <<srv, closing, powered, scan, data, disk, mail, made, told>>

Callers == {"startup", "power_on", "http"}
NoScan == [pc |-> "none", before |-> FALSE]
NoMail == [pc |-> "idle", copy |-> {}, user |-> "nobody"]
NoData == [last |-> {}, pending |-> {}]
Warning == [id : 1..MaxWarnings, delivered : SUBSET Users]
DataType == [last : SUBSET Mns, pending : SUBSET Warning]

HistTypeOK ==
  /\ srv \in {"down", "startup", "serving", "joining", "draining"}
  /\ closing \in BOOLEAN /\ powered \in BOOLEAN
  /\ scan \in [Callers -> [pc : {"none", "due", "wait", "bus", "after"},
                           before : BOOLEAN]]
  /\ data \in DataType /\ disk \in DataType
  /\ mail \in [pc : {"idle", "send", "sent"}, copy : SUBSET Warning,
               user : Users \cup {"nobody"}]
  /\ made \in 0..MaxWarnings
  /\ told \subseteq (1..MaxWarnings) \X Users

HistInit ==
  /\ srv = "down" /\ closing = FALSE /\ powered \in BOOLEAN
  /\ scan = [c \in Callers |-> NoScan]
  /\ data = NoData /\ disk = NoData
  /\ mail = NoMail /\ made = 0 /\ told = {}

-----------------------------------------------------------------------------
(* run_discovery *)

MayBegin(c) ==
  \/ c = "startup" /\ scan[c].pc = "due"
  \/ c = "power_on" /\ scan[c].pc = "none" /\ srv \in {"serving", "joining"}
  \/ c = "http" /\ scan[c].pc = "none" /\ srv \in {"serving", "joining", "draining"}

\* The first reading of the power; then the request waits for the bus.
Begin(c) ==
  /\ MayBegin(c)
  /\ scan' = [scan EXCEPT ![c] = [NoScan EXCEPT !.pc = "wait", !.before = powered]]
  /\ UNCHANGED <<srv, closing, powered, data, disk, mail, made, told>>

TakesBus(c) ==
  /\ scan[c].pc = "wait"
  /\ ~closing /\ \A d \in Callers : scan[d].pc # "bus"
  /\ scan' = [scan EXCEPT ![c].pc = "bus"]
  /\ UNCHANGED <<srv, closing, powered, data, disk, mail, made, told>>

\* The startup discovery is over, whatever came of it: main goes on.
Over(c) == /\ scan' = [scan EXCEPT ![c] = NoScan]
           /\ srv' = IF c = "startup" THEN "serving" ELSE srv

\* The queue refuses, or the bus fails.
DiscoveryFails(c) ==
  /\ scan[c].pc \in {"wait", "bus"}
  /\ Over(c)
  /\ UNCHANGED <<closing, powered, data, disk, mail, made, told>>

Scanned(c) ==
  /\ scan[c].pc = "bus"
  /\ scan' = [scan EXCEPT ![c].pc = "after"]
  /\ UNCHANGED <<srv, closing, powered, data, disk, mail, made, told>>

\* record: only a scan with the power on before and after adds to the list,
\* and only one of the service itself warns of what it missed.
Recorded(c, found) ==
  LET on == scan[c].before /\ powered
      missing == (data.last \cap StartRange) \ found
      warns == on /\ c # "http" /\ missing # {}
  IN  /\ scan[c].pc = "after"
      /\ warns => made < MaxWarnings
      /\ made' = IF warns THEN made + 1 ELSE made
      /\ data' = [last |-> IF on THEN data.last \cup found ELSE data.last,
                  pending |-> IF warns THEN data.pending \cup {[id |-> made + 1, delivered |-> {}]}
                              ELSE data.pending]
      /\ Over(c)
      /\ UNCHANGED <<closing, powered, mail, told>>

Findable(c) == SUBSET (IF c = "http" THEN Mns ELSE StartRange)

Record(c) == \E found \in Findable(c) : Recorded(c, found) /\ disk' = data'
RecordUnsaved(c) == \E found \in Findable(c) : Recorded(c, found) /\ UNCHANGED disk

-----------------------------------------------------------------------------
(* deliver *)

\* Mutant of Deliver: warnings that somebody has are left alone.
Deliver_UntoldOnly ==
  /\ srv = "serving" /\ mail.pc = "idle"
  /\ {e \in data.pending : e.delivered = {}} # {}
  /\ mail' = [NoMail EXCEPT !.pc = "send", !.copy = {e \in data.pending : e.delivered = {}}]
  /\ UNCHANGED <<srv, closing, powered, scan, data, disk, made, told>>

\* A turn of notification_loop takes a copy of what is pending.
Deliver ==
  /\ srv = "serving" /\ mail.pc = "idle"
  /\ data.pending # {}
  /\ mail' = [NoMail EXCEPT !.pc = "send", !.copy = data.pending]
  /\ UNCHANGED <<srv, closing, powered, scan, data, disk, made, told>>

Current == CHOOSE e \in mail.copy : \A f \in mail.copy : e.id <= f.id
Untold == Users \ Current.delivered
Tried(u) == (mail.copy \ {Current}) \cup {[Current EXCEPT !.delivered = @ \cup {u}]}

\* The power is not found on: the rest waits for the next turn.
NotPowered ==
  /\ mail.pc = "send" /\ Untold # {}
  /\ ~powered
  /\ mail' = NoMail
  /\ UNCHANGED <<srv, closing, powered, scan, data, disk, made, told>>

Send ==
  /\ mail.pc = "send"
  /\ powered
  /\ \E u \in Untold :
       /\ told' = told \cup {<<Current.id, u>>}
       /\ mail' = [mail EXCEPT !.pc = "sent", !.user = u]
  /\ UNCHANGED <<srv, closing, powered, scan, data, disk, made>>

SendFails ==
  /\ mail.pc = "send"
  /\ powered
  /\ \E u \in Untold : mail' = [mail EXCEPT !.copy = Tried(u)]
  /\ UNCHANGED <<srv, closing, powered, scan, data, disk, made, told>>

\* The delivery is noted in the warning itself, not in the copy.
Noted ==
  /\ mail.pc = "sent"
  /\ data' = [data EXCEPT !.pending =
                {[e EXCEPT !.delivered = IF e.id = Current.id THEN @ \cup {mail.user} ELSE @]
                   : e \in data.pending}]
  /\ UNCHANGED <<srv, closing, powered, scan, made, told>>

Note == /\ Noted /\ disk' = data'
        /\ mail' = [mail EXCEPT !.pc = "send", !.copy = Tried(mail.user), !.user = "nobody"]
NoteUnsaved == Noted /\ UNCHANGED disk /\ mail' = NoMail

\* Mutant of Left: what this turn tried is done with.
Left_Tried == {e \in data.pending : e.id # Current.id}

\* The warning goes once everybody has it.
Left == {e \in data.pending : e.id # Current.id \/ ~(Users \subseteq e.delivered)}

Pruned ==
  /\ mail.pc = "send" /\ mail.copy # {} /\ Untold = {}
  /\ data' = [data EXCEPT !.pending = Left]
  /\ UNCHANGED <<srv, closing, powered, scan, made, told>>

Prune ==
  /\ Pruned /\ disk' = data'
  /\ mail' = IF mail.copy = {Current} THEN NoMail ELSE [mail EXCEPT !.copy = @ \ {Current}]
PruneUnsaved == Pruned /\ UNCHANGED disk /\ mail' = NoMail

-----------------------------------------------------------------------------
(* main *)

\* The history is read from the file; --no-discovery skips the first scan.
Start ==
  /\ srv = "down"
  /\ data' = disk /\ closing' = FALSE
  /\ \/ srv' = "serving" /\ UNCHANGED scan
     \/ srv' = "startup" /\ scan' = [scan EXCEPT !["startup"].pc = "due"]
  /\ UNCHANGED <<powered, disk, mail, made, told>>

Signal ==
  /\ srv \in {"startup", "serving"} /\ ~closing
  /\ closing' = TRUE
  /\ UNCHANGED <<srv, powered, scan, data, disk, mail, made, told>>

Leave ==
  /\ srv = "serving" /\ closing
  /\ srv' = "joining"
  /\ UNCHANGED <<closing, powered, scan, data, disk, mail, made, told>>

\* Mutant of Joined: the power-on thread is not waited for.
Joined_NoWait ==
  /\ srv = "joining"
  /\ srv' = "draining"
  /\ UNCHANGED <<closing, powered, scan, data, disk, mail, made, told>>

\* PowerOnDiscovery.__exit__ joins its thread before the handlers are drained.
Joined ==
  /\ srv = "joining" /\ scan["power_on"].pc = "none"
  /\ srv' = "draining"
  /\ UNCHANGED <<closing, powered, scan, data, disk, mail, made, told>>

\* Server.__exit__ waits for the handlers; the UART is closed last, and the
\* notification thread, a daemon, ends where it is.
Drained ==
  /\ srv = "draining" /\ scan["http"].pc = "none"
  /\ srv' = "down" /\ data' = NoData /\ mail' = NoMail
  /\ UNCHANGED <<closing, powered, scan, disk, made, told>>

Crash ==
  /\ srv # "down"
  /\ srv' = "down" /\ data' = NoData /\ mail' = NoMail
  /\ scan' = [c \in Callers |-> NoScan]
  /\ UNCHANGED <<closing, powered, disk, made, told>>

PowerSwitched ==
  /\ powered' = ~powered
  /\ UNCHANGED <<srv, closing, scan, data, disk, mail, made, told>>

MailStep == Deliver \/ NotPowered \/ Send \/ Note \/ Prune
ScanStep(c) == Begin(c) \/ TakesBus(c) \/ DiscoveryFails(c) \/ Scanned(c) \/ Record(c)
MainStep == Leave \/ Joined \/ Drained
SaveFails == NoteUnsaved \/ PruneUnsaved \/ \E c \in Callers : RecordUnsaved(c)

HistNext ==
  \/ MailStep \/ SendFails \/ SaveFails
  \/ \E c \in Callers : ScanStep(c)
  \/ MainStep \/ Start \/ Signal \/ Crash \/ PowerSwitched

-----------------------------------------------------------------------------
\* The warnings in the file, each with a user who does not have it yet.
Undelivered == UNION {{e.id} \X (Users \ e.delivered) : e \in disk.pending}

\* The file is an outbox: a warning that was saved leaves it for a user only
\* after it was sent to that user, whatever crashes, failed saves, failed
\* sends and discoveries recorded in the meantime.
Outgoing == INSTANCE Outbox WITH Messages <- (1..MaxWarnings) \X Users,
                                 posted <- Undelivered

WarningsAreKept == Outgoing!OutboxSpec

\* While the service runs and the power is on, every saved warning gets to
\* every user, once the sends and the saves no longer fail: time and again
\* nothing is left in the file that was not sent.
WarningIsDelivered ==
  (<>[](srv = "serving" /\ powered) /\ <>[][~SendFails /\ ~SaveFails]_histVars)
    => []<>(Undelivered \subseteq told)

\* The UART is not closed under a discovery: main leaves only after the
\* power-on thread and the handlers have ended.
ScanOwnsUart == srv = "down" => \A c \in Callers : scan[c].pc = "none"

=============================================================================
