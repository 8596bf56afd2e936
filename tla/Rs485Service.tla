------------------------------ MODULE Rs485Service ------------------------------
(***************************************************************************)
(* The threads of rs485_server.py around the bus: the power-on thread, the *)
(* discoveries with their history and notifications under main's life, and *)
(* an HTTP handler.                                                        *)
(*                                                                         *)
(* They meet only in the queue and on the bus, and each part has what      *)
(* those may do to it (refuse, fail, take long, answer) as a choice of its *)
(* own.  So the parts are explored one at a time; `focus` says which.      *)
(***************************************************************************)
EXTENDS PowerOnDiscovery, DiscoveryHistory, HttpFront

VARIABLE focus

vars == <<focus, podVars, histVars, web>>

TypeOK ==
  /\ focus \in {"power_on", "history", "http"}
  /\ PodTypeOK /\ HistTypeOK /\ WebTypeOK

Init ==
  /\ focus \in {"power_on", "history", "http"}
  /\ PodInit /\ HistInit /\ WebInit
  /\ focus # "power_on" => volts = "on"
  /\ focus # "history" => powered

PowerOnThread == focus = "power_on" /\ PodNext /\ UNCHANGED <<focus, histVars, web>>
History == focus = "history" /\ HistNext /\ UNCHANGED <<focus, podVars, web>>
Handler == focus = "http" /\ WebNext /\ UNCHANGED <<focus, podVars, histVars>>

Next == PowerOnThread \/ History \/ Handler

\* The notification thread turns every 30 seconds.
Spec ==
  /\ Init /\ [][Next]_vars
  /\ WF_vars(focus = "history" /\ MailStep /\ UNCHANGED <<focus, podVars, web>>)

=============================================================================
