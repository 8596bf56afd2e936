--------------------------------- MODULE Tunnels ---------------------------------
(***************************************************************************)
(* Client.py: a process that sends commands to one PSU after the other     *)
(* (-c, for a list of hosts) or to one PSU (interactive), each over an SSH *)
(* tunnel of its own from a local port.                                    *)
(*                                                                         *)
(* ssh, the servers and the rest of the computer are external: tunnels of  *)
(* other programs, or of a Client.py that was killed, come and go on the   *)
(* same ports.  Hosts that need no tunnel are left out.  The commands of a *)
(* behaviour go to one service, since services share no port by default.   *)
(***************************************************************************)
EXTENDS Naturals, Sequences

CONSTANTS
  HostList,     \* expanded_hosts()
  Ports,        \* local ports
  DefaultPort,  \* --local-port, --health-local-port, ...
  MaxFailures,  \* --max-tunnel-failures
  Lines         \* bound: commands for a host

ASSUME TunnelsAssumption ==
  /\ HostList \in Seq({HostList[i] : i \in DOMAIN HostList}) /\ HostList # <<>>
  /\ Ports \subseteq Nat \ {0} /\ DefaultPort \in Ports
  /\ MaxFailures \in Nat \ {0} /\ Lines \in Nat \ {0}

VARIABLES
  call,   \* how the program was called: the service and whether interactive
  cli,    \* the process
  ssh,    \* its ssh process: none, starting, up
  others, \* the host that a foreign listener on a port leads to
  raced,  \* history: a foreign listener came to the port after the process looked
  misled  \* history: a command went to another host than the current one

tunnelVars == <<call, cli, ssh, others, raced, misled>>

Hosts == {HostList[i] : i \in DOMAIN HostList}
NoHost == "none"
NoPort == 0

\* "lvhv" has one TCP connection; "health" (like the sensor server) and
\* "rs485" make an HTTP connection per command.
Calls == [service : {"lvhv", "health", "rs485"}, interactive : BOOLEAN]

\* port: that of the connection, cached or being made; via: where a TCP
\* connection runs, through the process' own ssh or a foreign listener.
Shell == [pc |-> "host", at |-> 1, left |-> 0, port |-> NoPort, cached |-> FALSE,
          via |-> "nothing", fails |-> 0]

TunnelTypeOK ==
  /\ call \in Calls
  /\ cli \in [pc : {"host", "command", "poll", "connect", "send", "finally", "end"},
              at : 1..(Len(HostList) + 1), left : 0..Lines, port : Ports \cup {NoPort},
              cached : BOOLEAN, via : {"nothing", "own"} \cup Hosts, fails : 0..MaxFailures]
  /\ ssh \in {"none", "starting", "up"}
  /\ others \in [Ports -> Hosts \cup {NoHost}]
  /\ raced \in BOOLEAN /\ misled \in BOOLEAN

TunnelInit ==
  /\ call \in Calls
  /\ cli = Shell /\ ssh = "none" /\ raced = FALSE /\ misled = FALSE
  /\ others = [n \in Ports |-> NoHost]

current_host == HostList[cli.at]
MineOpen(n) == ssh = "up" /\ n = cli.port
local_port_open(n) == MineOpen(n) \/ others[n] # NoHost

-----------------------------------------------------------------------------
(* Exceptions *)

\* A failed tunnel and a failed HTTP request are RuntimeErrors, which the
\* commands for the health server report themselves, and run_interactive as
\* well; a failed TCP connection is an OSError.
Reported(exc) == call.service = "health" \/ (call.interactive /\ exc # "OSError")

\* The line is done, and the loop over the lines goes on.
NextLine(s) == [s EXCEPT !.pc = "command", !.left = @ - 1]

\* run_one_shot counts failed tunnels; other failures leave the count alone.
After(exc) ==
  IF Reported(exc) THEN NextLine(cli)
  ELSE [cli EXCEPT !.pc = "finally",
                   !.fails = IF exc = "tunnel" /\ ~call.interactive THEN @ + 1 ELSE @]

-----------------------------------------------------------------------------
(* run_one_shot, run_interactive *)

\* The next host: nothing of the last one is kept.
BeginHost ==
  /\ cli.pc = "host" /\ cli.at <= Len(HostList)
  /\ cli' = [Shell EXCEPT !.pc = "command", !.at = cli.at, !.left = Lines, !.fails = cli.fails]
  /\ raced' = FALSE /\ misled' = FALSE
  /\ UNCHANGED <<call, ssh, others>>

\* All lines are done.
HostDone ==
  /\ cli.pc = "command" /\ cli.left = 0
  /\ cli' = [cli EXCEPT !.pc = "finally", !.fails = 0]
  /\ UNCHANGED <<call, ssh, others, raced, misled>>

\* finally: the connection and the tunnel are closed.  Too many failed tunnels
\* end the list; run_interactive has one host.
CloseAll ==
  /\ cli.pc = "finally"
  /\ cli' = [Shell EXCEPT
       !.pc = IF call.interactive \/ cli.fails >= MaxFailures THEN "end" ELSE "host",
       !.at = cli.at + 1, !.fails = cli.fails]
  /\ ssh' = "none"
  /\ UNCHANGED <<call, others, raced, misled>>

\* The list is done; the program is called again.
CallAgain ==
  /\ cli.pc = "end" \/ (cli.pc = "host" /\ cli.at > Len(HostList))
  /\ cli' = Shell /\ call' \in Calls
  /\ UNCHANGED <<ssh, others, raced, misled>>

\* A process that is killed leaves its ssh behind, listening or about to.
KillShell ==
  /\ ssh # "none"
  /\ cli' = Shell /\ ssh' = "none"
  /\ others' = IF ssh = "up" THEN [others EXCEPT ![cli.port] = current_host] ELSE others
  /\ raced' = FALSE /\ misled' = FALSE
  /\ UNCHANGED call

-----------------------------------------------------------------------------
(* process_command, get_*_connection, ensure_tunnel *)

\* A command finds the connection made before.
UseCached ==
  /\ cli.pc = "command" /\ cli.left > 0 /\ cli.cached
  /\ cli' = [cli EXCEPT !.pc = "send"]
  /\ UNCHANGED <<call, ssh, others, raced, misled>>

\* Mutant of LocalPorts: nobody looks whether something answers already.
LocalPorts_Unchecked == {DefaultPort}

\* The port for a tunnel: the default one, or a free one if something answers.
LocalPorts ==
  IF local_port_open(DefaultPort) THEN {n \in Ports \ {DefaultPort} : ~local_port_open(n)}
  ELSE {DefaultPort}

\* Otherwise ssh is started for one; its port is not open yet.
StartSsh ==
  /\ cli.pc = "command" /\ cli.left > 0 /\ ~cli.cached
  /\ \E n \in LocalPorts : cli' = [cli EXCEPT !.pc = "poll", !.port = n]
  /\ ssh' = "starting" /\ raced' = FALSE
  /\ UNCHANGED <<call, others, misled>>

\* A look: ssh has ended; or the port answers, whoever listens there.
PollSsh ==
  /\ cli.pc = "poll"
  /\ \/ ssh = "none" /\ cli' = After("tunnel")
     \/ ssh # "none" /\ local_port_open(cli.port) /\ cli' = [cli EXCEPT !.pc = "connect"]
  /\ UNCHANGED <<call, ssh, others, raced, misled>>

\* 75 looks in vain: close_tunnel.
PollTimesOut ==
  /\ cli.pc = "poll" /\ ssh # "none" /\ ~local_port_open(cli.port)
  /\ cli' = After("tunnel") /\ ssh' = "none"
  /\ UNCHANGED <<call, others, raced, misled>>

\* Who is at the other end of the port.
Listener == IF MineOpen(cli.port) THEN "own" ELSE others[cli.port]

\* The connection object is made; only that to lvhv-server connects at once.
OpenConnection ==
  /\ cli.pc = "connect"
  /\ \/ call.service # "lvhv" /\ cli' = [cli EXCEPT !.pc = "send", !.cached = TRUE]
     \/ /\ call.service = "lvhv" /\ local_port_open(cli.port)
        /\ cli' = [cli EXCEPT !.pc = "send", !.cached = TRUE, !.via = Listener]
     \/ call.service = "lvhv" /\ cli' = After("OSError")
  /\ UNCHANGED <<call, ssh, others, raced, misled>>

\* The command is sent, over the TCP connection or over a new HTTP one.
SendLine ==
  /\ cli.pc = "send" /\ local_port_open(cli.port)
  /\ call.service = "lvhv" => cli.via = Listener
  /\ cli' = NextLine(cli)
  /\ misled' = (misled \/ Listener \notin {"own", current_host})
  /\ UNCHANGED <<call, ssh, others, raced>>

\* No answer: MessagingConnection is closed, an HTTP request raises.
SendFails ==
  /\ cli.pc = "send"
  /\ cli' = After(IF call.service = "lvhv" THEN "OSError" ELSE "RuntimeError")
  /\ UNCHANGED <<call, ssh, others, raced, misled>>

-----------------------------------------------------------------------------
(* ssh and the rest of the computer *)

\* With ExitOnForwardFailure it listens, if nobody else does, or ends.
SshUp ==
  /\ ssh = "starting" /\ ~local_port_open(cli.port)
  /\ ssh' = "up"
  /\ UNCHANGED <<call, cli, others, raced, misled>>

\* It cannot listen or log in, or loses its connection.
SshEnds ==
  /\ ssh # "none" /\ ssh' = "none"
  /\ cli' = IF cli.via = "own" THEN [cli EXCEPT !.via = "nothing"] ELSE cli
  /\ UNCHANGED <<call, others, raced, misled>>

OthersChange ==
  \/ \E n \in Ports, h \in Hosts :
       /\ ~local_port_open(n)
       /\ others' = [others EXCEPT ![n] = h]
       /\ raced' = (raced \/ n = cli.port)
       /\ UNCHANGED <<call, cli, ssh, misled>>
  \/ \E n \in Ports :
       /\ others[n] # NoHost
       /\ others' = [others EXCEPT ![n] = NoHost]
       /\ cli' = IF n = cli.port /\ cli.via \in Hosts THEN [cli EXCEPT !.via = "nothing"] ELSE cli
       /\ UNCHANGED <<call, ssh, raced, misled>>

TunnelNext ==
  \/ BeginHost \/ HostDone \/ CloseAll \/ CallAgain \/ KillShell
  \/ UseCached \/ StartSsh \/ PollSsh \/ PollTimesOut \/ OpenConnection
  \/ SendLine \/ SendFails \/ SshUp \/ SshEnds \/ OthersChange

-----------------------------------------------------------------------------
\* A command goes to the current host and no other, also when a tunnel dies or
\* an earlier process has left one behind, unless a foreign listener came to
\* the port after the process had looked at it; and the tunnel of a host is
\* gone when the next one's turn has come.
RightStation ==
  /\ misled => raced
  /\ cli.pc \in {"host", "end"} => ssh = "none"

=============================================================================
