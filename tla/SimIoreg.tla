------------------------------ MODULE SimIoreg ------------------------------
(***************************************************************************)
(* Register access in simulation: the tools linked with                    *)
(* lib/sw/lsi/common/sim-ioreg.c, the programs sim-run.c, sim-finish.c and *)
(* sim-devmem32.c, and the server of systems/simulation/tester_loop.py     *)
(* that they talk to over the Unix socket /tmp/simulation.                 *)
(*                                                                         *)
(* Each tool is a process that runs a program, a sequence of calls.  A     *)
(* call "init" first asks get-core-offset for the address of the tool's    *)
(* core (CoreOffset), unless the program passes NULL.  "input" is the wait *)
(* of traffic-analyzer-gmii for a character or the end of its standard     *)
(* input.  The other calls send one command and wait for its answer.  What *)
(* a command does to the simulated registers is left out.                  *)
(***************************************************************************)
EXTENDS CoreOffset, Sequences, SequencesExt

CONSTANTS
  Programs, \* the programs that may run as each tool
  NoTool,
  Backlog,  \* connections that wait in the listening socket: listen(1) + 1
  Slots     \* connections of one tool that the server has not left yet

Commands == {"read", "write", "run", "finish"}
Calls == Commands \cup {"init", "close", "input"}

Connections == Tools \X (0..(Slots - 1))

\* Whether a program has an open connection before its k-th call.
Connected(p, k) ==
  \E j \in 1..(k - 1) :
    p.calls[j] = "init" /\ \A i \in (j + 1)..(k - 1) : p.calls[i] # "close"

\* Registers are accessed between ioreg_init and ioreg_close, the first time
\* around a loop and every other time.
Orderly(p) ==
  /\ p.loop <= Len(p.calls)
  /\ \A k \in 1..Len(p.calls) : p.calls[k] \in Commands => Connected(p, k)
  /\ Connected(p, p.loop) => Connected(p, Len(p.calls) + 1)

ASSUME SimIoregAssumption ==
  /\ Programs \in [Tools -> SUBSET [calls : Seq(Calls), loop : Nat]]
  /\ \A t \in Tools : \A p \in Programs[t] : Orderly(p)
  /\ NoTool \notin Connections /\ Backlog \in Nat \ {0} /\ Slots \in Nat \ {0}

\* The programs: their calls, and the call that follows the last one, 0 to
\* exit.  Of register accesses that follow one another, one or two stand for
\* all.
Straight(calls) == [calls |-> calls, loop |-> 0]
GeneratorProgram == Straight(<<"init", "write">>)
AnalyzerProgram ==
  [calls |-> <<"init", "write", "close", "input", "init", "read", "close">>,
   loop |-> 4]
\* With one argument; with two, the command is "write".
SimDevmem32 == Straight(<<"init", "read">>)
SimRun == Straight(<<"init", "run">>)
SimFinish == Straight(<<"init", "finish">>)

VARIABLES
  pc,       \* where each tool is
  prog,     \* the program it runs
  next,     \* the call it makes next
  sock,     \* which of its connections, used in turn, is the tool's last
  server,   \* "accept", "recv" or "closed"
  conn,     \* the connection that the server accepted last
  queue,    \* connections that wait to be accepted
  request,  \* sent to the server on each connection and not yet received
  reply     \* sent to the tool on it and not yet received

tools == <<pc, prog, next, sock>>
network == <<server, conn, queue, request, reply>>
vars == <<coreVars, tools, network>>

Stopped == {"stopped", "aborted"}
Locations == Stopped \cup {"call", "resolving", "connect", "recv"}

Init ==
  /\ CoreInit
  /\ pc = [t \in Tools |-> "stopped"] /\ next = [t \in Tools |-> 1]
  /\ prog = [t \in Tools |-> Straight(<<>>)]
  /\ sock = [t \in Tools |-> 0]
  /\ server = "accept" /\ conn = NoTool /\ queue = <<>>
  /\ request = [c \in Connections |-> <<>>]
  /\ reply = [c \in Connections |-> <<>>]

Blocked(t) == pc[t] \in {"connect", "recv"}
Done(t) == next[t] > Len(prog[t].calls)
Call(t) == prog[t].calls[next[t]]
Calling(t, calls) == pc[t] = "call" /\ ~Done(t) /\ Call(t) \in calls

Goes(t, where) == pc' = [pc EXCEPT ![t] = where]
Returns(t) ==
  /\ Goes(t, "call") /\ UNCHANGED prog
  /\ next' = [next EXCEPT ![t] = IF @ = Len(prog[t].calls) /\ prog[t].loop > 0
                                   THEN prog[t].loop ELSE @ + 1]

Sock(t) == <<t, sock[t]>>
Known(c) == conn = c \/ Contains(queue, c)
\* Whether nobody is at the other end of t's connection.
PeerGone(t) == ~Known(Sock(t))

\* The kernel closes the connection of a process that ends or closes it: the
\* server reads the end of file after what was sent.
HangUp(t) ==
  /\ request' = [request EXCEPT ![Sock(t)] =
       IF PeerGone(t) \/ Contains(@, "eof") THEN @ ELSE Append(@, "eof")]
  /\ reply' = [reply EXCEPT ![Sock(t)] = <<>>]
  /\ UNCHANGED <<server, conn, queue>>

Ends(t, where) ==
  /\ Goes(t, where) /\ HangUp(t)
  /\ next' = [next EXCEPT ![t] = 1]
  /\ prog' = [prog EXCEPT ![t] = Straight(<<>>)]

---------------------------------------------------------------------------
\* Starting a tool: from the shell, from a script's loop, by netconfd.
Start(t) ==
  /\ pc[t] \in Stopped
  /\ \E p \in Programs[t] : prog' = [prog EXCEPT ![t] = p]
  /\ Goes(t, "call") /\ Forget(t)
  /\ UNCHANGED <<next, sock, network>>

Exit(t) ==
  /\ pc[t] = "call" /\ Done(t)
  /\ Ends(t, "stopped") /\ Forget(t)
  /\ UNCHANGED sock

\* A tool is killed, its shell with it or not.
Kill(t) ==
  /\ pc[t] \notin Stopped
  /\ Ends(t, "stopped")
  /\ \/ Forget(t)
     \/ (Calling(t, {"init"}) \/ pc[t] = "resolving") /\ LeaveShell(t)
  /\ UNCHANGED sock

---------------------------------------------------------------------------
\* get_core_offset, called first by ioreg_init.
Resolve(t) ==
  \/ /\ Calling(t, {"init"})
     /\ Truncate(t) /\ Goes(t, "resolving") /\ UNCHANGED <<prog, next, network>>
  \/ /\ pc[t] = "resolving"
     /\ WritePiece(t) /\ UNCHANGED <<pc, prog, next, network>>
  \/ /\ pc[t] = "resolving"
     /\ ReadBack(t) /\ Goes(t, "connect") /\ UNCHANGED <<prog, next, network>>
  \/ pc[t] = "resolving" /\ ReadFails(t) /\ Ends(t, "aborted")

GetCoreOffset(t) == Resolve(t) /\ UNCHANGED sock

\* ioreg_init(NULL): no core, addresses are absolute.
NoResolution(t) ==
  /\ Calling(t, {"init"}) /\ CoreOf[t] = NoCore
  /\ Goes(t, "connect")
  /\ UNCHANGED <<prog, next, sock, coreVars, network>>

\* ioreg_init: connect succeeds as soon as the connection is queued and waits
\* while the queue is full (or, a bound of the model, while the server has not
\* left Slots connections of the tool yet) ...
Connect(t) ==
  /\ pc[t] = "connect" /\ server # "closed" /\ Len(queue) < Backlog
  /\ sock' = [sock EXCEPT ![t] = (@ + 1) % Slots]
  /\ ~Known(<<t, (sock[t] + 1) % Slots>>)
  /\ queue' = Append(queue, Sock(t)')
  /\ request' = [request EXCEPT ![Sock(t)'] = <<>>]
  /\ reply' = [reply EXCEPT ![Sock(t)'] = <<>>]
  /\ Returns(t)
  /\ UNCHANGED <<coreVars, server, conn>>

\* ... and fails once the server has closed its socket.
ConnectRefused(t) ==
  /\ pc[t] = "connect" /\ server = "closed"
  /\ Ends(t, "aborted")
  /\ UNCHANGED <<coreVars, sock>>

---------------------------------------------------------------------------
\* ioreg_read, ioreg_write, sim-run, sim-finish: send the command ...
Send(t) ==
  /\ Calling(t, Commands)
  /\ IF PeerGone(t) THEN Ends(t, "aborted")
     ELSE /\ request' = [request EXCEPT ![Sock(t)] =
                           Append(@, Call(t))]
          /\ Goes(t, "recv") /\ UNCHANGED <<prog, next, server, conn, queue, reply>>
  /\ UNCHANGED <<coreVars, sock>>

\* ... receive the answer and compare it with what the call is to return;
\* the end of file is no answer.
Expected(call) == IF call = "read" THEN "value" ELSE "ok"

RecvAtOnce(t) ==
  /\ pc[t] = "recv"
  /\ IF reply[Sock(t)] = <<Expected(Call(t))>>
       THEN /\ reply' = [reply EXCEPT ![Sock(t)] = <<>>] /\ Returns(t)
            /\ UNCHANGED <<server, conn, queue, request>>
       ELSE Ends(t, "aborted")
  /\ UNCHANGED <<coreVars, sock>>

Recv(t) ==
  /\ pc[t] = "recv"
  /\ reply[Sock(t)] # <<>> \/ PeerGone(t)
  /\ IF reply[Sock(t)] = <<Expected(Call(t))>>
       THEN /\ reply' = [reply EXCEPT ![Sock(t)] = <<>>] /\ Returns(t)
            /\ UNCHANGED <<server, conn, queue, request>>
       ELSE Ends(t, "aborted")
  /\ UNCHANGED <<coreVars, sock>>

CloseForgotten(t) ==
  /\ Calling(t, {"close"})
  /\ Returns(t)
  /\ UNCHANGED <<coreVars, sock, network>>

Close(t) ==
  /\ Calling(t, {"close"})
  /\ HangUp(t) /\ Returns(t)
  /\ UNCHANGED <<coreVars, sock>>

\* traffic-analyzer-gmii: a character on standard input asks for a report,
\* its end ends the tool.
Input(t) ==
  /\ Calling(t, {"input"})
  /\ Returns(t)
  /\ UNCHANGED <<coreVars, sock, network>>

EndOfInput(t) ==
  /\ Calling(t, {"input"})
  /\ Ends(t, "stopped") /\ Forget(t)
  /\ UNCHANGED sock

---------------------------------------------------------------------------
\* tester_loop.py: one connection at a time, until its end.
Accept ==
  /\ server = "accept" /\ queue # <<>>
  /\ conn' = Head(queue) /\ queue' = Tail(queue)
  /\ server' = "recv"
  /\ UNCHANGED <<tools, coreVars, request, reply>>

Receives(commands) ==
  server = "recv" /\ request[conn] # <<>> /\ Head(request[conn]) \in commands

\* The answer, if the tool is still there to receive it.
Answers(answer) ==
  /\ ~Contains(request[conn], "eof")
  /\ reply' = [reply EXCEPT ![conn] = Append(@, answer)]

\* read, write and run: answered when the simulator is done with them.
Serve ==
  /\ Receives({"read", "write", "run"})
  /\ Answers(IF Head(request[conn]) = "read" THEN "value" ELSE "ok")
  /\ request' = [request EXCEPT ![conn] = Tail(@)]
  /\ UNCHANGED <<tools, coreVars, server, conn, queue>>

\* An empty command, the end of file: back to accept.
LeaveConnection ==
  /\ Receives({"eof"})
  /\ server' = "accept" /\ conn' = NoTool
  /\ request' = [request EXCEPT ![conn] = <<>>]
  /\ UNCHANGED <<tools, coreVars, queue, reply>>

\* The server's sockets are closed, which ends the connections.
Closed ==
  /\ server' = "closed" /\ conn' = NoTool /\ queue' = <<>>
  /\ request' = [c \in Connections |-> <<>>]
  /\ UNCHANGED <<tools, coreVars>>

\* finish: answer, close the connection and the listening socket.
Finish ==
  Receives({"finish"}) /\ Answers("ok") /\ Closed

\* send to a tool that is gone raises an exception that nobody catches.
BrokenPipe ==
  /\ Receives(Commands) /\ Contains(request[conn], "eof")
  /\ Closed /\ UNCHANGED reply

ToolStep(t) ==
  \/ Exit(t) \/ GetCoreOffset(t) \/ NoResolution(t) \/ Connect(t)
  \/ ConnectRefused(t) \/ Send(t) \/ Recv(t) \/ Close(t)
\* The shells that killed tools left behind.
ShellStep == \E p \in Shells : LeftShell(p) /\ UNCHANGED <<tools, network>>
ServerStep == Accept \/ Serve \/ LeaveConnection \/ Finish \/ BrokenPipe

Next ==
  \/ \E t \in Tools :
       Start(t) \/ ToolStep(t) \/ Input(t) \/ EndOfInput(t) \/ Kill(t)
  \/ ServerStep \/ ShellStep

Spec == Init /\ [][Next]_vars

\* The operating system runs every process that is ready and hands out the
\* places of the queue in turn; nobody is obliged to start a tool or to type.
FairSpec ==
  /\ Spec
  /\ WF_vars(ServerStep)
  /\ \A t \in Tools : WF_vars(ToolStep(t)) /\ SF_vars(Connect(t))

---------------------------------------------------------------------------
SimTypes ==
  /\ pc \in [Tools -> Locations] /\ next \in [Tools -> Nat]
  /\ prog \in [Tools -> [calls : Seq(Calls), loop : Nat]]
  /\ sock \in [Tools -> 0..(Slots - 1)]
  /\ server \in {"accept", "recv", "closed"}
  /\ conn \in Connections \cup {NoTool}
  /\ queue \in Seq(Connections)
  /\ request \in [Connections -> Seq(Commands \cup {"eof"})]
  /\ reply \in [Connections -> Seq({"ok", "value"})]
TypeOK == CoreTypeOK /\ SimTypes

(***************************************************************************)
(* The assertions of ioreg_init, ioreg_read, ioreg_write, sim-run and      *)
(* sim-finish hold while the simulation runs: a tool aborts only after a   *)
(* race for /tmp/result, or once the simulation has ended.                 *)
(***************************************************************************)
AbortsForAReason ==
  \A t \in Tools : pc[t] = "aborted" => t \in raced \/ server = "closed"

(***************************************************************************)
(* The server serves one connection until its end, yet every tool that     *)
(* waits for a connection or for an answer gets on, however long           *)
(* traffic-analyzer-gmii waits for input and however often sim-run is run, *)
(* also when a tool is killed or the simulation ends meanwhile.            *)
(***************************************************************************)
NobodyWaitsForEver == \A t \in Tools : Blocked(t) ~> ~Blocked(t)
=============================================================================
