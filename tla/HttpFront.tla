------------------------------- MODULE HttpFront -------------------------------
(***************************************************************************)
(* One HTTP request of rs485_server.py, from the handler's first line to   *)
(* the answer: the request context, routing and validation, the turn on    *)
(* the bus, the exchanges of RS485.read, recovery, panel_id and discover,  *)
(* the conversion, and the except clause that an exception ends in.        *)
(*                                                                         *)
(* Other requests are seen only in what the queue does with this one.      *)
(***************************************************************************)
EXTENDS Naturals, Sequences

CONSTANT Probes  \* bound: the addresses of a discovery

ASSUME HttpFrontAssumption == Probes \in Nat \ {0}

VARIABLE web  \* the request: where it is, what was sent and answered for it

\* The routes; "panels" stands for health and parameters as well.
Ops == {"panels", "discover", "panel-id", "recovery-status", "read", "direct-read",
        "recover-golden", "unknown"}
Statuses == {200, 400, 404, 408, 409, 429, 500, 502, 503, 504}

\* The exchanges of an operation; a read may have two words.
Exchanges(op) ==
  CASE op = "discover" -> {Probes}
    [] op = "read" -> {1, 2}
    [] op \in {"panel-id", "recovery-status", "direct-read", "recover-golden"} -> {1}
    [] OTHER -> {0}

Idle == [pc |-> "idle", op |-> "unknown", left |-> 0, sent |-> 0, ok |-> 0, exc |-> "none",
         status |-> 0]

WebTypeOK ==
  web \in [pc : {"idle", "context", "route", "turn", "bus", "sent", "convert", "raised",
                 "answer", "rescue", "done"},
           op : Ops, left : 0..(Probes + 2), sent : 0..(Probes + 2), ok : 0..(Probes + 2),
           exc : {"none"} \cup {"QueueFull", "QueueExpired", "QueueCancelled", "QueueClosed",
                                "BusyError", "ResponseTimeout", "TimeoutError", "ROCError",
                                "ValueError", "TypeError", "ArithmeticError", "OSError",
                                "NameError"},
           status : Statuses \cup {0}]

WebInit == web = Idle

-----------------------------------------------------------------------------
(* Exceptions and the clauses that catch them. *)

\* The classes an exception belongs to.
Classes(e) ==
  {e} \cup (CASE e = "QueueFull" -> {"BusyError", "RuntimeError"}
              [] e \in {"QueueExpired", "ResponseTimeout"} -> {"TimeoutError", "OSError"}
              [] e = "TimeoutError" -> {"OSError"}
              [] e \in {"BusyError", "QueueCancelled", "QueueClosed", "ROCError"} -> {"RuntimeError"}
              [] OTHER -> {})

QueueClauses ==
  <<<<{"QueueFull"}, 429>>, <<{"QueueExpired", "QueueCancelled"}, 408>>,
    <<{"QueueClosed"}, 503>>, <<{"BusyError"}, 409>>>>
BusClauses == <<<<{"TimeoutError"}, 504>>, <<{"ROCError"}, 502>>>>
ServerClause == <<{"OSError", "RuntimeError", "ImportError"}, 503>>

\* Mutant of Clauses: the timeouts of the queue and of the bus share a clause.
Clauses_OneTimeout(op) ==
  <<<<{"QueueFull"}, 429>>, <<{"TimeoutError", "QueueCancelled"}, 408>>,
    <<{"QueueClosed"}, 503>>, <<{"BusyError"}, 409>>, <<{"ROCError"}, 502>>,
    <<{"ValueError", "TypeError", "ArithmeticError"}, 400>>, ServerClause, <<{"NameError"}, 500>>>>

Clauses(op) ==
  QueueClauses \o BusClauses \o
  (IF op = "recover-golden"
     THEN <<<<{"ValueError", "TypeError"}, 400>>, ServerClause>>
     ELSE <<<<{"ValueError", "ArithmeticError"}, 400>>, ServerClause,
            <<{"NameError", "TypeError"}, 500>>>>)

\* The first clause that catches the exception.
Caught(op, e) ==
  LET catches == {i \in DOMAIN Clauses(op) : Clauses(op)[i][1] \cap Classes(e) # {}}
  IN  Clauses(op)[CHOOSE i \in catches : \A j \in catches : i <= j][2]

-----------------------------------------------------------------------------
Raise(e) == web' = [web EXCEPT !.pc = "raised", !.exc = e]

Connect ==
  /\ web.pc = "idle"
  /\ \E op \in Ops : web' = [Idle EXCEPT !.pc = "context", !.op = op]

\* The client or the timeout in the headers is refused; do_GET and do_POST
\* answer that themselves.
BadContext ==
  /\ web.pc = "context"
  /\ web' = [web EXCEPT !.pc = "answer", !.status = 400]

InContext ==
  /\ web.pc = "context"
  /\ web' = [web EXCEPT !.pc = "route"]

\* A path that is not known, parameters or a body that do not fit, or a
\* value that validate, recovery, panel_id or discover refuses; a body that
\* does not come within the time-out of the connection.
Refused ==
  /\ web.pc = "route"
  /\ \/ web.op = "unknown" /\ web' = [web EXCEPT !.pc = "answer", !.status = 404]
     \/ Raise("ValueError")
     \/ web.op = "recover-golden" /\ \E e \in {"TimeoutError", "OSError"} : Raise(e)
     \/ web.op = "discover" /\ Raise("BusyError")

\* health, parameters and panels need no bus.
Local ==
  /\ web.pc = "route"
  /\ web.op = "panels"
  /\ web' = [web EXCEPT !.pc = "answer", !.status = 200]

Routed ==
  /\ web.pc = "route"
  /\ \E n \in Exchanges(web.op) \ {0} : web' = [web EXCEPT !.pc = "turn", !.left = n]

\* turn refuses, gives up, or yields; BusyError says that somebody has the
\* device outside the queue.
NoTurn ==
  /\ web.pc = "turn"
  /\ \E e \in {"QueueFull", "QueueExpired", "QueueCancelled", "QueueClosed", "BusyError"} :
       Raise(e)

Turn ==
  /\ web.pc = "turn"
  /\ web' = [web EXCEPT !.pc = "bus"]

\* The transaction number cannot be saved: nothing has been sent.
NotReserved ==
  /\ web.pc = "bus"
  /\ Raise("OSError")

Transmit ==
  /\ web.pc = "bus"
  /\ web' = [web EXCEPT !.pc = "sent", !.sent = @ + 1, !.left = @ - 1]

\* The exchange is over; a discovery takes another turn, a second word the
\* same one.
Exchanged(answered) ==
  web' = [web EXCEPT !.ok = IF answered THEN @ + 1 ELSE @,
                     !.pc = IF web.left = 0 THEN "convert"
                            ELSE IF web.op = "discover" THEN "turn" ELSE "bus"]

Answered ==
  /\ web.pc = "sent"
  /\ Exchanged(TRUE)

\* No answer, a status, an unexpected acknowledgement or another panel's
\* number: a discovery notes it and goes on.
NotAnswered ==
  /\ web.pc = "sent"
  /\ IF web.op = "discover" THEN Exchanged(FALSE)
     ELSE \E e \in {"ResponseTimeout", "ROCError"} : Raise(e)

\* The write, the drain, the direction pin or the save of the answer fails.
BusFails ==
  /\ web.pc = "sent"
  /\ \E e \in {"OSError", "TimeoutError"} : Raise(e)

\* convert_value: eval of the expression and the check for a finite number.
NotConverted ==
  /\ web.pc = "convert"
  /\ web.op \in {"read", "direct-read"}
  /\ \E e \in {"ValueError", "ArithmeticError", "TypeError", "NameError"} : Raise(e)

Converted ==
  /\ web.pc = "convert"
  /\ web' = [web EXCEPT !.pc = "answer", !.status = 200]

Handle ==
  /\ web.pc = "raised"
  /\ web' = [web EXCEPT !.pc = "rescue", !.status = Caught(web.op, web.exc), !.exc = "none"]

\* send_json, inside the try block or in one of its clauses.
Reply ==
  /\ web.pc \in {"answer", "rescue"}
  /\ web' = [web EXCEPT !.pc = "done"]

\* The headers cannot be written: inside the try block that is one more
\* exception, and the next answer is tried; else the connection is dropped.
ReplyFails ==
  /\ web.pc \in {"answer", "rescue"}
  /\ \/ web.pc = "rescue" /\ web' = Idle
     \/ web.pc = "answer" /\ web.status # 400 /\ \E e \in {"OSError", "TimeoutError"} : Raise(e)
     \/ web.pc = "answer" /\ web.status = 400 /\ web' = Idle

Disconnect ==
  /\ web.pc = "done"
  /\ web' = Idle

WebNext ==
  \/ Connect \/ BadContext \/ InContext \/ Refused \/ Local \/ Routed \/ NoTurn \/ Turn
  \/ NotReserved \/ Transmit \/ Answered \/ NotAnswered \/ BusFails \/ NotConverted
  \/ Converted \/ Handle \/ Reply \/ ReplyFails \/ Disconnect

-----------------------------------------------------------------------------
\* The client may trust the status.  408, 409 and 429 say that nothing was
\* sent, and so do 400 and 404 for the activation of the golden image, which
\* is sent at most once; 200 says that every exchange was answered with
\* status zero.  A discovery may have probed some panels by then.
AnswerIsHonest ==
  web.pc = "done" =>
    /\ web.status \in {404, 408, 409, 429} /\ web.op # "discover" => web.sent = 0
    /\ web.op = "recover-golden" =>
         /\ web.status = 400 => web.sent = 0
         /\ web.sent <= 1
    /\ web.status = 200 /\ web.op # "discover" => web.ok = web.sent /\ web.left = 0

=============================================================================
