-------------------------- MODULE CoreOffsetProofs --------------------------
(***************************************************************************)
(* Proofs about CoreOffset and SimIoreg, for any number of tools and       *)
(* cores, whatever the number of writes the script makes: which core an    *)
(* address leads to, and that no assertion about connections fails.        *)
(***************************************************************************)
EXTENDS SimIoreg, TLAPS

LEMMA CoreInitInv == CoreInit => CoreInv
<1> SUFFICES ASSUME CoreInit PROVE CoreInv OBVIOUS
<1> USE CoreOffsetAssumption DEF CoreInit, Empty
<1>1. CoreTypeOK BY DEF CoreTypeOK, Nobody
<1>2. FileIsMine BY DEF FileIsMine, Resolving
<1>3. OwnCore BY DEF OwnCore
<1> QED BY <1>1, <1>2, <1>3 DEF CoreInv

\* One step per way a tool uses the file.
LEMMA TruncateInv ==
  ASSUME CoreInv, NEW t \in Tools, Truncate(t) PROVE CoreInv'
<1> USE CoreOffsetAssumption DEF CoreInv, CoreTypeOK, Truncate, Empty
<1>1. CoreTypeOK' BY DEF Overlapped
<1>2. FileIsMine'
  <2> SUFFICES ASSUME NEW v \in Tools \ raced', Resolving(v)'
      PROVE /\ CoreOf[v] # NoCore
            /\ \A u \in Tools : Resolving(u)' => u = v
            /\ \A k \in 1..Pieces :
                 result'[k] = IF k < stage'[v] THEN CoreOf[v] ELSE NoCore
      BY DEF FileIsMine
  <2>1. Overlapped(t) = {}
    <3> SUFFICES ASSUME Overlapped(t) # {} PROVE FALSE OBVIOUS
    <3>1. v = t \/ v \in Overlapped(t) BY DEF Overlapped, Resolving
    <3> QED BY <3>1
  <2>2. v = t BY <2>1 DEF Overlapped, Resolving
  <2> QED BY <2>1, <2>2 DEF Overlapped, Resolving
<1>3. OwnCore'
  <2> SUFFICES ASSUME NEW v \in Tools \ raced', ~Resolving(v)',
                      offset'[v] # NoCore
      PROVE offset'[v] = CoreOf[v]
      BY DEF OwnCore
  <2>1. v # t /\ ~Resolving(v) BY DEF Resolving
  <2>2. v \notin raced BY <2>1 DEF Overlapped
  <2> QED BY <2>1, <2>2 DEF OwnCore
<1> QED BY <1>1, <1>2, <1>3

LEMMA WritePieceInv ==
  ASSUME CoreInv, NEW t \in Tools, WritePiece(t) PROVE CoreInv'
<1> USE CoreOffsetAssumption DEF CoreInv, CoreTypeOK, WritePiece
<1>1. CoreTypeOK'
  <2>1. CoreOf[t] \in Cores \cup {NoCore} OBVIOUS
  <2>2. result' \in [1..Pieces -> Cores \cup {NoCore}] BY <2>1
  <2>3. stage' \in [Tools -> 0..(Pieces + 1)]
    <3>1. stage[t] + 1 \in 0..(Pieces + 1) OBVIOUS
    <3> QED BY <3>1
  <2> QED BY <2>2, <2>3
<1>2. FileIsMine' BY DEF FileIsMine, Resolving
<1>3. OwnCore' BY DEF OwnCore, Resolving
<1> QED BY <1>1, <1>2, <1>3

\* What a tool reads that nobody disturbed.
LEMMA MineComplete ==
  ASSUME CoreInv, NEW t \in Tools \ raced, stage[t] = Pieces + 1
  PROVE  Complete /\ Address = CoreOf[t]
<1>1. Pieces \in Nat \ {0} /\ Resolving(t)
      BY CoreOffsetAssumption DEF Resolving
<1>2. CoreOf[t] # NoCore
      BY <1>1 DEF CoreInv, FileIsMine
<1>3. \A k \in 1..Pieces :
        result[k] = IF k < stage[t] THEN CoreOf[t] ELSE NoCore
      BY <1>1 DEF CoreInv, FileIsMine
<1>4. \A k \in 1..Pieces : result[k] = CoreOf[t]
      BY <1>1, <1>3
<1> QED BY <1>1, <1>2, <1>4 DEF Complete, Address

LEMMA ReadBackInv ==
  ASSUME CoreInv, NEW t \in Tools, ReadBack(t) PROVE CoreInv'
<1> USE DEF CoreInv, CoreTypeOK, ReadBack
<1>1. CoreTypeOK'
  <2>1. Pieces \in 1..Pieces BY CoreOffsetAssumption
  <2>2. Address \in Cores \cup {NoCore} BY <2>1 DEF Address
  <2> QED BY <2>2, CoreOffsetAssumption
<1>2. FileIsMine' BY DEF FileIsMine, Resolving
<1>3. OwnCore'
  <2> SUFFICES ASSUME NEW v \in Tools \ raced, ~Resolving(v)',
                      offset'[v] # NoCore
      PROVE offset'[v] = CoreOf[v]
      BY DEF OwnCore
  <2>1. CASE v = t BY <2>1, MineComplete
  <2>2. CASE v # t BY <2>2 DEF OwnCore, Resolving
  <2> QED BY <2>1, <2>2
<1> QED BY <1>1, <1>2, <1>3

LEMMA ReadFailsInv ==
  ASSUME CoreInv, NEW t \in Tools, ReadFails(t) PROVE CoreInv'
<1> USE CoreOffsetAssumption DEF CoreInv, CoreTypeOK, ReadFails
<1>1. CoreTypeOK' OBVIOUS
<1>2. FileIsMine' BY DEF FileIsMine, Resolving
<1>3. OwnCore'
  <2>1. t \in raced BY MineComplete
  <2> QED BY <2>1 DEF OwnCore, Resolving
<1> QED BY <1>1, <1>2, <1>3

LEMMA LostInv ==
  ASSUME CoreInv, NEW t \in Tools, Lost(t),
         left' \in [Shells -> [core : Cores \cup {NoCore}, stage : 0..Pieces]]
  PROVE  CoreInv'
<1> USE CoreOffsetAssumption DEF CoreInv, CoreTypeOK, Lost
<1>1. CoreTypeOK' OBVIOUS
<1>2. FileIsMine' BY DEF FileIsMine, Resolving
<1>3. OwnCore' BY DEF OwnCore, Resolving
<1> QED BY <1>2, <1>3, <1>1

LEMMA ForgetInv ==
  ASSUME CoreInv, NEW t \in Tools, Forget(t) PROVE CoreInv'
BY LostInv DEF Forget, CoreInv, CoreTypeOK

LEMMA LeaveShellInv ==
  ASSUME CoreInv, NEW t \in Tools, LeaveShell(t) PROVE CoreInv'
<1>1. PICK p \in Shells :
        left' = [left EXCEPT ![p] = [core |-> CoreOf[t], stage |-> stage[t]]]
      BY DEF LeaveShell
<1>2. CoreOf[t] \in Cores \cup {NoCore} /\ stage[t] \in 0..Pieces
      BY CoreOffsetAssumption DEF CoreInv, CoreTypeOK, LeaveShell
<1>3. left' \in [Shells -> [core : Cores \cup {NoCore}, stage : 0..Pieces]]
      BY <1>1, <1>2 DEF CoreInv, CoreTypeOK
<1> QED BY <1>3, LostInv DEF LeaveShell

\* Whoever might mind a write of a shell left behind counts as raced.
LEMMA LeftShellInv ==
  ASSUME CoreInv, NEW p \in Shells, LeftShell(p) PROVE CoreInv'
<1> DEFINE s == left[p]
<1>1. s \in [core : Cores \cup {NoCore}, stage : 0..Pieces]
      BY DEF CoreInv, CoreTypeOK
<1>2. s.core \in Cores \cup {NoCore} /\ s.stage \in 0..Pieces
      BY <1>1
<1>3. left' \in [Shells -> [core : Cores \cup {NoCore}, stage : 0..Pieces]]
  <2> DEFINE n == IF s.stage = Pieces THEN Nobody
                  ELSE [core |-> s.core, stage |-> s.stage + 1]
  <2>1. left' = [left EXCEPT ![p] = n]
        BY DEF LeftShell
  <2>2. Nobody \in [core : Cores \cup {NoCore}, stage : 0..Pieces]
        BY CoreOffsetAssumption DEF Nobody
  <2>3. s.stage # Pieces => s.stage + 1 \in 0..Pieces
        BY <1>2, CoreOffsetAssumption
  <2>4. s.stage # Pieces => [core |-> s.core, stage |-> s.stage + 1]
                            \in [core : Cores \cup {NoCore}, stage : 0..Pieces]
        BY <1>2, <2>3
  <2>5. n \in [core : Cores \cup {NoCore}, stage : 0..Pieces]
        BY <2>2, <2>4
  <2> HIDE DEF n
  <2> QED BY <2>1, <2>5 DEF CoreInv, CoreTypeOK
<1>4. result' \in [1..Pieces -> Cores \cup {NoCore}]
  <2>1. CASE s.stage = 0
        BY <2>1 DEF LeftShell, Empty
  <2>2. CASE s.stage # 0
    <3>1. result' = [result EXCEPT ![s.stage] = s.core]
          BY <2>2 DEF LeftShell
    <3> QED BY <1>2, <3>1 DEF CoreInv, CoreTypeOK
  <2> QED BY <2>1, <2>2
<1>5. stage' = stage /\ offset' = offset /\ raced \subseteq raced'
      /\ \A t \in Tools \ raced' : ~Resolving(t)
      BY DEF LeftShell
<1>6. CoreTypeOK' BY <1>3, <1>4 DEF CoreInv, CoreTypeOK, LeftShell
<1>7. FileIsMine' BY <1>5 DEF FileIsMine, Resolving
<1>8. OwnCore' BY <1>5 DEF CoreInv, OwnCore, Resolving
<1> QED BY <1>6, <1>7, <1>8 DEF CoreInv

LEMMA CoreStep == CoreInv /\ [CoreNext]_coreVars => CoreInv'
<1>1. CoreInv /\ UNCHANGED coreVars => CoreInv'
      BY DEF coreVars, CoreInv, CoreTypeOK, FileIsMine, OwnCore, Resolving
<1>2. CoreInv /\ CoreNext => CoreInv'
      BY TruncateInv, WritePieceInv, ReadBackInv, ReadFailsInv, ForgetInv,
         LeaveShellInv, LeftShellInv
      DEF CoreNext
<1> QED BY <1>1, <1>2

---------------------------------------------------------------------------
\* Every step of the simulation's tools and server is a step of
\* get_core_offset or leaves its state alone.
LEMMA SimStepIsCoreStep == [Next]_vars => [CoreNext]_coreVars
<1> SUFFICES ASSUME [Next]_vars PROVE CoreNext \/ UNCHANGED coreVars
    OBVIOUS
<1>1. CASE UNCHANGED vars BY <1>1 DEF vars
<1>s. CASE ShellStep BY <1>s DEF ShellStep, CoreNext
<1>2. CASE ServerStep
      BY <1>2 DEF ServerStep, Accept, Serve, LeaveConnection, Finish,
                  BrokenPipe, Closed
<1>3. ASSUME NEW t \in Tools,
             Start(t) \/ ToolStep(t) \/ Input(t) \/ EndOfInput(t) \/ Kill(t)
      PROVE CoreNext \/ UNCHANGED coreVars
  <2>1. CASE Start(t) \/ EndOfInput(t) \/ Kill(t) \/ Exit(t)
        BY <2>1 DEF Start, EndOfInput, Kill, Exit, CoreNext
  <2>2. CASE GetCoreOffset(t)
        BY <2>2 DEF GetCoreOffset, Resolve, CoreNext
  <2>3. CASE Input(t) \/ NoResolution(t) \/ Connect(t) \/ ConnectRefused(t)
             \/ Send(t) \/ Recv(t) \/ Close(t)
        BY <2>3 DEF Input, NoResolution, Connect, ConnectRefused, Send, Recv,
                    Close
  <2> QED BY <1>3, <2>1, <2>2, <2>3 DEF ToolStep
<1> QED BY <1>s, <1>1, <1>2, <1>3 DEF Next

(***************************************************************************)
(* On the target: a tool whose get_core_offset no other overlaps, and no   *)
(* shell that outlived a killed tool writes into, works on its own core,   *)
(* whatever any of them left in the file before.                           *)
(***************************************************************************)
THEOREM OwnCoreOnTarget == CoreSpec => []OwnCore
<1>1. CoreInv => OwnCore BY DEF CoreInv
<1> QED BY CoreInitInv, CoreStep, <1>1, PTL DEF CoreSpec

(***************************************************************************)
(* The same in simulation, where tools start, fail and are killed at any   *)
(* time and the server answers them one at a time.                         *)
(***************************************************************************)
THEOREM OwnCoreInSimulation == Spec => []OwnCore
<1>1. Init => CoreInv BY CoreInitInv DEF Init
<1>2. CoreInv /\ [Next]_vars => CoreInv'
      BY CoreStep, SimStepIsCoreStep
<1>3. CoreInv => OwnCore BY DEF CoreInv
<1> QED BY <1>1, <1>2, <1>3, PTL DEF Spec

---------------------------------------------------------------------------
(***************************************************************************)
(* The connections.  ProgramInv says where in its program a tool is, by    *)
(* where it waits; LinkInv that a tool which is between ioreg_init and     *)
(* ioreg_close is known to the server, with nothing under way outside a    *)
(* command and either the command or its answer within one; ServerInv that *)
(* the server has a connection exactly while it receives.                  *)
(***************************************************************************)
ProgramAt(t) ==
  /\ pc[t] \in Stopped => next[t] = 1
  /\ pc[t] \notin Stopped => Orderly(prog[t]) /\ next[t] # 0
  /\ pc[t] \in {"resolving", "connect"} => ~Done(t) /\ Call(t) = "init"
  /\ pc[t] = "recv" => ~Done(t) /\ Call(t) \in Commands
ProgramInv == \A t \in Tools : ProgramAt(t)

Linked(t) ==
  /\ Known(Sock(t))
  /\ pc[t] = "call" => request[Sock(t)] = <<>> /\ reply[Sock(t)] = <<>>
  /\ pc[t] = "recv" =>
       \/ request[Sock(t)] = <<Call(t)>> /\ reply[Sock(t)] = <<>>
       \/ request[Sock(t)] = <<>> /\ reply[Sock(t)] = <<Expected(Call(t))>>
InUse(t) ==
  pc[t] = "recv" \/ (pc[t] = "call" /\ Connected(prog[t], next[t]))
LinkAt(t) == server # "closed" /\ InUse(t) => Linked(t)
LinkInv == \A t \in Tools : LinkAt(t)

ServerInv == conn = NoTool <=> server # "recv"

AbortAt(t) == pc[t] = "aborted" => t \in raced \/ server = "closed"

SimInv ==
  /\ SimTypes /\ CoreInv /\ ProgramInv /\ LinkInv /\ ServerInv
  /\ AbortsForAReason

---------------------------------------------------------------------------
LEMMA ConnectedNext ==
  ASSUME NEW p, NEW k \in Nat \ {0}, Connected(p, k + 1)
  PROVE  p.calls[k] = "init" \/ (Connected(p, k) /\ p.calls[k] # "close")
<1>1. PICK j \in 1..k :
        p.calls[j] = "init" /\ \A i \in (j + 1)..k : p.calls[i] # "close"
  BY DEF Connected
<1>2. CASE j = k
  BY <1>1, <1>2
<1>3. CASE j # k
  <2>1. j \in 1..(k - 1) /\ k \in (j + 1)..k
        /\ \A i \in (j + 1)..(k - 1) : i \in (j + 1)..k
    BY <1>3
  <2> QED BY <1>1, <2>1 DEF Connected
<1> QED BY <1>2, <1>3

LEMMA NotAtFirst ==
  ASSUME NEW p PROVE ~Connected(p, 1)
BY DEF Connected

LEMMA SockType ==
  ASSUME SimTypes, NEW t \in Tools
  PROVE  Sock(t) \in Connections
BY DEF SimTypes, Sock, Connections

\* Where a call that returns leaves the tool.
LEMMA ReturnsTo ==
  ASSUME SimTypes, ProgramInv, NEW t \in Tools, pc[t] \notin Stopped,
         ~Done(t), Returns(t)
  PROVE  /\ pc' \in [Tools -> Locations] /\ pc' = [pc EXCEPT ![t] = "call"]
         /\ next' \in [Tools -> Nat] /\ prog' = prog
         /\ \A u \in Tools \ {t} : next'[u] = next[u]
         /\ ProgramAt(t)'
         /\ InUse(t)' => \/ Call(t) = "init"
                         \/ Connected(prog[t], next[t]) /\ Call(t) # "close"
<1> DEFINE p == prog[t]
           k == next[t]
           n == next'[t]
<1>1. /\ p.calls \in Seq(Calls) /\ p.loop \in Nat /\ k \in Nat \ {0}
      /\ Orderly(p) /\ Len(p.calls) \in Nat /\ k <= Len(p.calls)
  BY DEF SimTypes, ProgramInv, ProgramAt, Done
<1>2. /\ pc' = [pc EXCEPT ![t] = "call"] /\ prog' = prog
      /\ n = IF k = Len(p.calls) /\ p.loop > 0 THEN p.loop ELSE k + 1
      /\ next' = [next EXCEPT ![t] = n]
  BY DEF Returns, Goes, SimTypes
<1>3. n \in Nat \ {0}
  BY <1>1, <1>2
<1>4. Connected(p, n) => Connected(p, k + 1)
  BY <1>1, <1>2 DEF Orderly
<1>5. pc' \in [Tools -> Locations] /\ next' \in [Tools -> Nat]
  BY <1>2, <1>3 DEF SimTypes, Locations
<1>6. pc'[t] = "call" /\ prog'[t] = p
  BY <1>2 DEF SimTypes
<1>7. ProgramAt(t)'
  BY <1>1, <1>3, <1>6 DEF ProgramAt, Stopped
<1>8. InUse(t)' => Connected(p, k + 1)
  BY <1>4, <1>6 DEF InUse
<1>9. InUse(t)' => Call(t) = "init" \/ (Connected(p, k) /\ Call(t) # "close")
  BY <1>1, <1>8, ConnectedNext DEF Call
<1> QED BY <1>2, <1>5, <1>7, <1>9 DEF SimTypes
\* What a tool's step leaves alone of the others.
Elsewhere(t) ==
  /\ server' = server /\ conn' = conn
  /\ \A u \in Tools \ {t} :
       /\ pc'[u] = pc[u] /\ next'[u] = next[u] /\ prog'[u] = prog[u]
       /\ sock'[u] = sock[u]
       /\ request'[Sock(u)] = request[Sock(u)]
       /\ reply'[Sock(u)] = reply[Sock(u)]
       /\ Known(Sock(u)) => Known(Sock(u))'
       /\ u \in raced => u \in raced'

LEMMA ToolStepInv ==
  ASSUME SimInv, NEW t \in Tools, Elsewhere(t), SimTypes', CoreInv',
         ProgramAt(t)', LinkAt(t)', AbortAt(t)'
  PROVE  SimInv'
<1>1. ASSUME NEW u \in Tools \ {t}
      PROVE  ProgramAt(u)' /\ LinkAt(u)' /\ AbortAt(u)'
  <2>1. ProgramAt(u) /\ LinkAt(u) /\ AbortAt(u)
    BY DEF SimInv, ProgramInv, LinkInv, AbortsForAReason, AbortAt
  <2>2. /\ pc'[u] = pc[u] /\ next'[u] = next[u] /\ prog'[u] = prog[u]
        /\ Sock(u)' = Sock(u) /\ server' = server
        /\ request'[Sock(u)] = request[Sock(u)]
        /\ reply'[Sock(u)] = reply[Sock(u)]
        /\ Known(Sock(u)) => Known(Sock(u))'
        /\ u \in raced => u \in raced'
    BY DEF Elsewhere, Sock
  <2>3. Call(u)' = Call(u) /\ (Done(u)' <=> Done(u)) /\ (InUse(u)' <=> InUse(u))
    BY <2>2 DEF Call, Done, InUse
  <2>4. ProgramAt(u)'
    BY <2>1, <2>2, <2>3 DEF ProgramAt
  <2>5. Linked(u) => Linked(u)'
    <3> SUFFICES ASSUME Linked(u) PROVE Linked(u)'
      OBVIOUS
    <3>1. Known(Sock(u))'
      BY <2>2 DEF Linked
    <3>2. request[Sock(u)]' = request[Sock(u)] /\ reply[Sock(u)]' = reply[Sock(u)]
      BY <2>2
    <3> QED BY <2>2, <2>3, <3>1, <3>2 DEF Linked
  <2>6. LinkAt(u)'
    BY <2>1, <2>2, <2>3, <2>5 DEF LinkAt
  <2>7. AbortAt(u)'
    BY <2>1, <2>2 DEF AbortAt
  <2> QED BY <2>4, <2>6, <2>7
<1>2. ProgramInv' /\ LinkInv' /\ AbortsForAReason'
  BY <1>1 DEF ProgramInv, LinkInv, AbortsForAReason, AbortAt
<1>3. ServerInv'
  BY DEF SimInv, ServerInv, Elsewhere
<1> QED BY <1>2, <1>3 DEF SimInv

\* A tool that ends, in whichever way.
LEMMA EndsInv ==
  ASSUME SimInv, NEW t \in Tools, NEW where \in Stopped, Ends(t, where),
         sock' = sock, CoreInv', raced \ {t} \subseteq raced',
         where = "aborted" => t \in raced' \/ server = "closed"
  PROVE  SimInv'
<1>1. SimTypes /\ Sock(t) \in Connections
  BY SockType DEF SimInv
<1>2. /\ pc' = [pc EXCEPT ![t] = where] /\ next' = [next EXCEPT ![t] = 1]
      /\ prog' = [prog EXCEPT ![t] = Straight(<<>>)]
      /\ server' = server /\ conn' = conn /\ queue' = queue
      /\ reply' = [reply EXCEPT ![Sock(t)] = <<>>]
  BY DEF Ends, Goes, HangUp
<1>3. /\ request' \in [Connections -> Seq(Commands \cup {"eof"})]
      /\ \A c \in Connections \ {Sock(t)} : request'[c] = request[c]
  <2>1. request[Sock(t)] \in Seq(Commands \cup {"eof"})
    BY <1>1 DEF SimTypes
  <2>2. Append(request[Sock(t)], "eof") \in Seq(Commands \cup {"eof"})
    BY <2>1
  <2> QED BY <1>1, <2>1, <2>2 DEF Ends, HangUp, SimTypes
<1>4. Straight(<<>>) \in [calls : Seq(Calls), loop : Nat]
  BY DEF Straight
<1>5. SimTypes'
  <2>1. pc' \in [Tools -> Locations] /\ next' \in [Tools -> Nat]
    BY <1>1, <1>2 DEF SimTypes, Locations, Stopped
  <2>2. prog' \in [Tools -> [calls : Seq(Calls), loop : Nat]]
    BY <1>1, <1>2, <1>4 DEF SimTypes
  <2>3. reply' \in [Connections -> Seq({"ok", "value"})]
    BY <1>1, <1>2 DEF SimTypes
  <2> QED BY <1>1, <1>2, <1>3, <2>1, <2>2, <2>3 DEF SimTypes
<1>6. Elsewhere(t)
  <2> SUFFICES ASSUME NEW u \in Tools \ {t}
               PROVE  /\ request'[Sock(u)] = request[Sock(u)]
                      /\ reply'[Sock(u)] = reply[Sock(u)]
                      /\ Known(Sock(u)) => Known(Sock(u))'
    BY <1>1, <1>2 DEF Elsewhere, SimTypes
  <2>1. Sock(u) \in Connections \ {Sock(t)} /\ Sock(u)' = Sock(u)
    BY <1>1, SockType DEF Sock
  <2> QED BY <1>1, <1>2, <1>3, <2>1 DEF SimTypes, Known
<1>7. pc'[t] = where /\ next'[t] = 1
  BY <1>1, <1>2 DEF SimTypes
<1>8. ProgramAt(t)' /\ LinkAt(t)' /\ AbortAt(t)'
  BY <1>2, <1>7 DEF ProgramAt, LinkAt, InUse, AbortAt, Stopped
<1> QED BY <1>5, <1>6, <1>8, ToolStepInv
\* A step of a tool that touches none of the connections.
Quietly == sock' = sock /\ network' = network

LEMMA QuietStep ==
  ASSUME SimInv, NEW t \in Tools, NEW where \in Locations, Quietly, CoreInv',
         pc' = [pc EXCEPT ![t] = where],
         next' \in [Tools -> Nat],
         prog' \in [Tools -> [calls : Seq(Calls), loop : Nat]],
         \A u \in Tools \ {t} : next'[u] = next[u] /\ prog'[u] = prog[u],
         raced \ {t} \subseteq raced',
         ProgramAt(t)', LinkAt(t)', AbortAt(t)'
  PROVE  SimInv'
<1>1. SimTypes
  BY DEF SimInv
<1>2. SimTypes'
  BY <1>1 DEF SimTypes, Quietly, network
<1>3. Elsewhere(t)
  BY <1>1 DEF SimTypes, Elsewhere, Quietly, network, Known, Sock
<1> QED BY <1>2, <1>3, ToolStepInv

LEMMA StartInv ==
  ASSUME SimInv, CoreInv', NEW t \in Tools, Start(t) PROVE SimInv'
<1>1. SimTypes /\ ProgramAt(t)
  BY DEF SimInv, ProgramInv
<1>2. PICK p \in Programs[t] : prog' = [prog EXCEPT ![t] = p]
  BY DEF Start
<1>3. p \in [calls : Seq(Calls), loop : Nat] /\ Orderly(p)
  BY SimIoregAssumption
<1>4. /\ pc' = [pc EXCEPT ![t] = "call"] /\ Quietly /\ next' = next
      /\ next[t] = 1 /\ raced' = raced \ {t}
  BY <1>1 DEF Start, Goes, Quietly, Forget, Lost, ProgramAt
<1>5. prog' \in [Tools -> [calls : Seq(Calls), loop : Nat]] /\ prog'[t] = p
      /\ pc'[t] = "call" /\ next'[t] = 1 /\ "call" \in Locations
  BY <1>1, <1>2, <1>3, <1>4 DEF SimTypes, Locations
<1>6. ProgramAt(t)' /\ AbortAt(t)'
  BY <1>3, <1>5 DEF ProgramAt, AbortAt, Stopped
<1>7. ~InUse(t)'
  BY <1>5, NotAtFirst DEF InUse
<1>8. LinkAt(t)'
  BY <1>7 DEF LinkAt
<1>9. /\ next' \in [Tools -> Nat]
      /\ \A u \in Tools \ {t} : next'[u] = next[u] /\ prog'[u] = prog[u]
  BY <1>1, <1>2, <1>4 DEF SimTypes
<1> QED BY <1>4, <1>5, <1>6, <1>8, <1>9, QuietStep

LEMMA StoppingInv ==
  ASSUME SimInv, CoreInv', NEW t \in Tools,
         Exit(t) \/ Kill(t) \/ EndOfInput(t)
  PROVE  SimInv'
<1>1. /\ Ends(t, "stopped") /\ sock' = sock /\ raced' = raced \ {t}
      /\ "stopped" \in Stopped
  BY DEF Exit, Kill, EndOfInput, Forget, LeaveShell, Lost, Stopped
<1> QED BY <1>1, EndsInv

\* The script's output is incomplete only after a race.
LEMMA ResolveInv ==
  ASSUME SimInv, CoreInv', NEW t \in Tools, GetCoreOffset(t) PROVE SimInv'
<1>1. SimTypes /\ ProgramAt(t) /\ CoreInv /\ AbortAt(t)
  BY DEF SimInv, ProgramInv, AbortsForAReason, AbortAt
<1>2. ASSUME NEW where \in {"resolving", "connect"}, Quietly,
             pc' = [pc EXCEPT ![t] = where], next' = next, prog' = prog,
             raced \ {t} \subseteq raced', pc[t] \notin Stopped,
             ~Done(t), Call(t) = "init"
      PROVE  SimInv'
  <2>1. pc'[t] = where /\ where \in Locations
    BY <1>1, <1>2 DEF SimTypes, Locations
  <2>2. (Done(t)' <=> Done(t)) /\ Call(t)' = Call(t)
    BY <1>2 DEF Done, Call
  <2>3. ProgramAt(t)'
    BY <1>1, <1>2, <2>1, <2>2 DEF ProgramAt, Stopped
  <2>4. LinkAt(t)' /\ AbortAt(t)'
    BY <2>1 DEF LinkAt, InUse, AbortAt
  <2>5. /\ next' \in [Tools -> Nat]
        /\ prog' \in [Tools -> [calls : Seq(Calls), loop : Nat]]
        /\ \A u \in Tools \ {t} : next'[u] = next[u] /\ prog'[u] = prog[u]
    BY <1>1, <1>2 DEF SimTypes
  <2> QED BY <1>2, <2>1, <2>3, <2>4, <2>5, QuietStep
<1>3. CASE Calling(t, {"init"}) /\ Truncate(t) /\ Goes(t, "resolving")
           /\ UNCHANGED <<prog, next, network>>
  <2>1. raced \ {t} \subseteq raced' /\ Quietly
    BY <1>3 DEF Truncate, GetCoreOffset, Quietly
  <2>2. pc' = [pc EXCEPT ![t] = "resolving"] /\ pc[t] \notin Stopped
        /\ ~Done(t) /\ Call(t) = "init"
    BY <1>3 DEF Calling, Goes, Stopped
  <2> QED BY <1>2, <1>3, <2>1, <2>2
<1>4. CASE pc[t] = "resolving" /\ WritePiece(t)
           /\ UNCHANGED <<pc, prog, next, network>>
  <2>1. raced' = raced /\ Quietly /\ pc' = [pc EXCEPT ![t] = "resolving"]
    BY <1>1, <1>4 DEF WritePiece, GetCoreOffset, Quietly, SimTypes
  <2>2. pc[t] \notin Stopped /\ ~Done(t) /\ Call(t) = "init"
    BY <1>1, <1>4 DEF ProgramAt, Stopped
  <2> QED BY <1>2, <1>4, <2>1, <2>2
<1>5. CASE pc[t] = "resolving" /\ ReadBack(t) /\ Goes(t, "connect")
           /\ UNCHANGED <<prog, next, network>>
  <2>1. raced' = raced /\ Quietly /\ pc' = [pc EXCEPT ![t] = "connect"]
    BY <1>1, <1>5 DEF ReadBack, GetCoreOffset, Quietly, Goes
  <2>2. pc[t] \notin Stopped /\ ~Done(t) /\ Call(t) = "init"
    BY <1>1, <1>5 DEF ProgramAt, Stopped
  <2> QED BY <1>2, <1>5, <2>1, <2>2
<1>6. CASE pc[t] = "resolving" /\ ReadFails(t) /\ Ends(t, "aborted")
  <2>1. t \in raced
    <3> SUFFICES ASSUME t \notin raced PROVE FALSE
      OBVIOUS
    <3>1. /\ CoreOf[t] # NoCore /\ Pieces \in Nat /\ stage[t] = Pieces + 1
          /\ \A k \in 1..Pieces :
               result[k] = IF k < stage[t] THEN CoreOf[t] ELSE NoCore
      BY <1>1, <1>6, CoreOffsetAssumption
      DEF CoreInv, FileIsMine, Resolving, ReadFails
    <3>2. Complete
      BY <3>1 DEF Complete
    <3> QED BY <1>6, <3>2 DEF ReadFails
  <2>2. raced' = raced /\ sock' = sock /\ "aborted" \in Stopped
    BY <1>6 DEF ReadFails, GetCoreOffset, Stopped
  <2> QED BY <1>6, <2>1, <2>2, EndsInv
<1> QED BY <1>3, <1>4, <1>5, <1>6 DEF GetCoreOffset, Resolve

LEMMA NoResolutionInv ==
  ASSUME SimInv, CoreInv', NEW t \in Tools, NoResolution(t) PROVE SimInv'
<1>1. SimTypes /\ ProgramAt(t)
  BY DEF SimInv, ProgramInv
<1>2. /\ pc' = [pc EXCEPT ![t] = "connect"] /\ next' = next /\ prog' = prog
      /\ raced' = raced /\ Quietly /\ pc[t] = "call" /\ ~Done(t)
      /\ Call(t) = "init" /\ "connect" \in Locations
  BY DEF NoResolution, Goes, Calling, coreVars, Quietly, Locations
<1>3. pc'[t] = "connect" /\ (Done(t)' <=> Done(t)) /\ Call(t)' = Call(t)
  BY <1>1, <1>2 DEF SimTypes, Done, Call
<1>4. ProgramAt(t)'
  BY <1>1, <1>2, <1>3 DEF ProgramAt, Stopped
<1>5. LinkAt(t)' /\ AbortAt(t)'
  BY <1>3 DEF LinkAt, InUse, AbortAt
<1>6. /\ next' \in [Tools -> Nat]
      /\ prog' \in [Tools -> [calls : Seq(Calls), loop : Nat]]
      /\ \A u \in Tools \ {t} : next'[u] = next[u] /\ prog'[u] = prog[u]
  BY <1>1, <1>2 DEF SimTypes
<1> QED BY <1>2, <1>4, <1>5, <1>6, QuietStep
\* A call that returns and may use the tool's own connection.
LEMMA ReturnsInv ==
  ASSUME SimInv, NEW t \in Tools, Returns(t), ~Done(t), pc[t] \notin Stopped,
         server' = server, conn' = conn, raced' = raced, CoreInv',
         sock' \in [Tools -> 0..(Slots - 1)],
         \A u \in Tools \ {t} : sock'[u] = sock[u],
         queue' \in Seq(Connections),
         request' \in [Connections -> Seq(Commands \cup {"eof"})],
         reply' \in [Connections -> Seq({"ok", "value"})],
         \A u \in Tools \ {t} :
           /\ request'[Sock(u)] = request[Sock(u)]
           /\ reply'[Sock(u)] = reply[Sock(u)]
           /\ Known(Sock(u)) => Known(Sock(u))',
         LinkAt(t)'
  PROVE  SimInv'
<1>1. SimTypes /\ ProgramInv
  BY DEF SimInv
<1>2. /\ pc' \in [Tools -> Locations] /\ pc' = [pc EXCEPT ![t] = "call"]
      /\ next' \in [Tools -> Nat] /\ prog' = prog
      /\ \A u \in Tools \ {t} : next'[u] = next[u]
      /\ ProgramAt(t)'
  BY <1>1, ReturnsTo
<1>3. SimTypes'
  BY <1>1, <1>2 DEF SimTypes
<1>4. Elsewhere(t)
  BY <1>1, <1>2 DEF SimTypes, Elsewhere
<1>5. AbortAt(t)'
  BY <1>1, <1>2 DEF SimTypes, AbortAt
<1> QED BY <1>2, <1>3, <1>4, <1>5, ToolStepInv

LEMMA ConnectInv ==
  ASSUME SimInv, CoreInv', NEW t \in Tools, Connect(t) PROVE SimInv'
<1> DEFINE s == (sock[t] + 1) % Slots
           c == <<t, s>>
<1>1. SimTypes /\ ProgramAt(t) /\ ProgramInv /\ pc[t] = "connect"
  BY DEF SimInv, ProgramInv, Connect
<1>2. pc[t] \notin Stopped /\ ~Done(t) /\ Call(t) = "init"
  BY <1>1 DEF ProgramAt, Stopped
<1>3. s \in 0..(Slots - 1)
  BY <1>1, SimIoregAssumption DEF SimTypes
<1>4. sock' = [sock EXCEPT ![t] = s]
  BY <1>1 DEF Connect, SimTypes
<1> HIDE DEF s
<1>5. /\ sock' \in [Tools -> 0..(Slots - 1)] /\ Sock(t)' = c
      /\ \A u \in Tools \ {t} : sock'[u] = sock[u]
      /\ c \in Connections /\ \A u \in Tools \ {t} : Sock(u) # c
  BY <1>1, <1>3, <1>4 DEF SimTypes, Sock, Connections
<1> HIDE DEF c
<1>6. /\ queue' = Append(queue, c) /\ server' = server /\ conn' = conn
      /\ request' = [request EXCEPT ![c] = <<>>]
      /\ reply' = [reply EXCEPT ![c] = <<>>] /\ raced' = raced /\ Returns(t)
  BY <1>5 DEF Connect, coreVars
<1>7. /\ queue' \in Seq(Connections)
      /\ request' \in [Connections -> Seq(Commands \cup {"eof"})]
      /\ reply' \in [Connections -> Seq({"ok", "value"})]
  <2>1. queue' \in Seq(Connections)
    BY <1>1, <1>5, <1>6 DEF SimTypes
  <2>2. request' \in [Connections -> Seq(Commands \cup {"eof"})]
    BY <1>1, <1>5, <1>6, <<>> \in Seq(Commands \cup {"eof"}) DEF SimTypes
  <2>3. reply' \in [Connections -> Seq({"ok", "value"})]
    BY <1>1, <1>5, <1>6, <<>> \in Seq({"ok", "value"}) DEF SimTypes
  <2> QED BY <2>1, <2>2, <2>3
<1>8. /\ Len(queue') = Len(queue) + 1 /\ Len(queue) \in Nat
      /\ queue'[Len(queue')] = c
      /\ \A i \in 1..Len(queue) : queue'[i] = queue[i]
  BY <1>1, <1>6 DEF SimTypes
<1>9. Contains(queue', c) /\ \A d : Contains(queue, d) => Contains(queue', d)
  <2>1. Len(queue') \in 1..Len(queue')
        /\ \A i \in 1..Len(queue) : i \in 1..Len(queue')
    BY <1>8
  <2> QED BY <1>8, <2>1 DEF Contains
<1>10. ASSUME NEW u \in Tools \ {t}
       PROVE  /\ request'[Sock(u)] = request[Sock(u)]
              /\ reply'[Sock(u)] = reply[Sock(u)]
              /\ Known(Sock(u)) => Known(Sock(u))'
  <2>1. Sock(u) # c /\ Sock(u)' = Sock(u) /\ Sock(u) \in Connections
    BY <1>1, <1>5, SockType DEF Sock
  <2>2. request'[Sock(u)] = request[Sock(u)] /\ reply'[Sock(u)] = reply[Sock(u)]
    BY <1>1, <1>6, <2>1 DEF SimTypes
  <2>3. Known(Sock(u)) => Known(Sock(u))'
    BY <1>6, <1>9, <2>1 DEF Known
  <2> QED BY <2>2, <2>3
<1>11. Linked(t)'
  <2>1. Known(Sock(t))'
    BY <1>5, <1>9 DEF Known
  <2>2. request'[c] = <<>> /\ reply'[c] = <<>>
    BY <1>1, <1>5, <1>6 DEF SimTypes
  <2>3. pc'[t] = "call"
    BY <1>1, <1>6 DEF Returns, Goes, SimTypes
  <2> QED BY <1>5, <2>1, <2>2, <2>3 DEF Linked
<1>12. LinkAt(t)'
  BY <1>11 DEF LinkAt
<1> QED BY <1>2, <1>5, <1>6, <1>7, <1>10, <1>12, ReturnsInv

LEMMA RefusedInv ==
  ASSUME SimInv, CoreInv', NEW t \in Tools, ConnectRefused(t) PROVE SimInv'
BY EndsInv DEF ConnectRefused, coreVars, Stopped

\* A tool that sends a command has a connection, so that it aborts only
\* when the server is gone.
LEMMA SendInv ==
  ASSUME SimInv, CoreInv', NEW t \in Tools, Send(t) PROVE SimInv'
<1>1. SimTypes /\ ProgramAt(t) /\ LinkAt(t) /\ Sock(t) \in Connections
  BY SockType DEF SimInv, ProgramInv, LinkInv
<1>2. /\ pc[t] = "call" /\ ~Done(t) /\ Call(t) \in Commands
      /\ raced' = raced /\ sock' = sock
  BY DEF Send, Calling, coreVars
<1>3. InUse(t)
  <2>1. Orderly(prog[t]) /\ next[t] \in Nat \ {0}
        /\ Len(prog[t].calls) \in Nat /\ next[t] <= Len(prog[t].calls)
    BY <1>1, <1>2 DEF ProgramAt, SimTypes, Done, Stopped
  <2>2. next[t] \in 1..Len(prog[t].calls)
    BY <2>1
  <2> QED BY <1>2, <2>1, <2>2 DEF Orderly, Call, InUse
<1>4. CASE PeerGone(t)
  <2>1. server = "closed"
    BY <1>1, <1>3, <1>4 DEF LinkAt, Linked, PeerGone
  <2>2. Ends(t, "aborted") /\ "aborted" \in Stopped
    BY <1>4 DEF Send, Stopped
  <2> QED BY <1>2, <2>1, <2>2, EndsInv
<1>5. CASE ~PeerGone(t)
  <2>1. /\ request' = [request EXCEPT ![Sock(t)] = Append(@, Call(t))]
        /\ pc' = [pc EXCEPT ![t] = "recv"] /\ prog' = prog /\ next' = next
        /\ server' = server /\ conn' = conn /\ queue' = queue
        /\ reply' = reply
    BY <1>5 DEF Send, Goes
  <2>2. /\ pc' \in [Tools -> Locations] /\ pc'[t] = "recv"
        /\ Call(t)' = Call(t) /\ (Done(t)' <=> Done(t)) /\ Sock(t)' = Sock(t)
    BY <1>1, <1>2, <2>1 DEF SimTypes, Locations, Call, Done, Sock
  <2>3. /\ request' \in [Connections -> Seq(Commands \cup {"eof"})]
        /\ \A d \in Connections \ {Sock(t)} : request'[d] = request[d]
        /\ request'[Sock(t)] = Append(request[Sock(t)], Call(t))
    <3>1. request[Sock(t)] \in Seq(Commands \cup {"eof"})
      BY <1>1 DEF SimTypes
    <3>2. Append(request[Sock(t)], Call(t)) \in Seq(Commands \cup {"eof"})
      BY <1>2, <3>1
    <3> QED BY <1>1, <2>1, <3>2 DEF SimTypes
  <2>4. SimTypes'
    BY <1>1, <1>2, <2>1, <2>2, <2>3 DEF SimTypes
  <2>5. Elsewhere(t)
    <3> SUFFICES ASSUME NEW u \in Tools \ {t}
                 PROVE  /\ request'[Sock(u)] = request[Sock(u)]
                        /\ Known(Sock(u)) => Known(Sock(u))'
      BY <1>1, <1>2, <2>1 DEF Elsewhere, SimTypes
    <3>1. Sock(u) \in Connections \ {Sock(t)} /\ Sock(u)' = Sock(u)
      BY <1>1, <1>2, SockType DEF Sock
    <3> QED BY <2>1, <2>3, <3>1 DEF Known
  <2>6. ProgramAt(t)'
    BY <1>1, <1>2, <2>1, <2>2 DEF ProgramAt, Stopped
  <2>7. AbortAt(t)'
    BY <2>2 DEF AbortAt
  <2>8. LinkAt(t)'
    <3> SUFFICES ASSUME server # "closed" PROVE Linked(t)'
      BY <2>1 DEF LinkAt
    <3>1. Linked(t)
      BY <1>1, <1>3 DEF LinkAt
    <3>2. request[Sock(t)] = <<>> /\ reply[Sock(t)] = <<>> /\ Known(Sock(t))
      BY <1>2, <3>1 DEF Linked
    <3>3. request'[Sock(t)] = <<Call(t)>> /\ reply'[Sock(t)] = <<>>
      BY <2>1, <2>3, <3>2
    <3>4. Known(Sock(t))'
      BY <2>1, <2>2, <3>2 DEF Known
    <3> QED BY <2>2, <3>3, <3>4 DEF Linked
  <2> QED BY <2>4, <2>5, <2>6, <2>7, <2>8, ToolStepInv
<1> QED BY <1>4, <1>5
\* The answer is there and is the one expected, or the server is gone.
LEMMA RecvInv ==
  ASSUME SimInv, CoreInv', NEW t \in Tools, Recv(t) PROVE SimInv'
<1>1. /\ SimTypes /\ ProgramAt(t) /\ LinkAt(t) /\ Sock(t) \in Connections
      /\ ProgramInv
  BY SockType DEF SimInv, ProgramInv, LinkInv
<1>2. /\ pc[t] = "recv" /\ ~Done(t) /\ Call(t) \in Commands
      /\ raced' = raced /\ sock' = sock /\ pc[t] \notin Stopped
  BY <1>1 DEF Recv, coreVars, ProgramAt, Stopped
<1>3. server # "closed" => /\ Known(Sock(t))
                           /\ reply[Sock(t)] = <<Expected(Call(t))>>
                           /\ request[Sock(t)] = <<>>
  <2> SUFFICES ASSUME server # "closed"
               PROVE  /\ Known(Sock(t))
                      /\ reply[Sock(t)] = <<Expected(Call(t))>>
                      /\ request[Sock(t)] = <<>>
    OBVIOUS
  <2>1. Linked(t)
    BY <1>1, <1>2 DEF LinkAt, InUse
  <2>2. Known(Sock(t)) /\ reply[Sock(t)] # <<>>
    BY <2>1 DEF Linked, Recv, PeerGone
  <2> QED BY <1>2, <2>1, <2>2 DEF Linked
<1>4. CASE reply[Sock(t)] # <<Expected(Call(t))>>
  <2>1. Ends(t, "aborted") /\ "aborted" \in Stopped /\ server = "closed"
    BY <1>3, <1>4 DEF Recv, Stopped
  <2> QED BY <1>2, <2>1, EndsInv
<1>5. CASE reply[Sock(t)] = <<Expected(Call(t))>>
  <2>1. /\ reply' = [reply EXCEPT ![Sock(t)] = <<>>] /\ Returns(t)
        /\ server' = server /\ conn' = conn /\ queue' = queue
        /\ request' = request
    BY <1>5 DEF Recv
  <2>2. reply' \in [Connections -> Seq({"ok", "value"})]
    BY <1>1, <2>1, <<>> \in Seq({"ok", "value"}) DEF SimTypes
  <2>3. ASSUME NEW u \in Tools \ {t}
        PROVE  /\ request'[Sock(u)] = request[Sock(u)]
               /\ reply'[Sock(u)] = reply[Sock(u)]
               /\ Known(Sock(u)) => Known(Sock(u))'
    <3>1. Sock(u) \in Connections \ {Sock(t)} /\ Sock(u)' = Sock(u)
      BY <1>1, <1>2, SockType DEF Sock
    <3> QED BY <1>1, <2>1, <3>1 DEF Known, SimTypes
  <2>4. LinkAt(t)'
    <3> SUFFICES ASSUME server # "closed" PROVE Linked(t)'
      BY <2>1 DEF LinkAt
    <3>1. Sock(t)' = Sock(t) /\ pc'[t] = "call"
      BY <1>1, <1>2, <2>1 DEF Sock, Returns, Goes, SimTypes
    <3>2. request'[Sock(t)] = <<>> /\ reply'[Sock(t)] = <<>>
      BY <1>1, <1>3, <2>1 DEF SimTypes
    <3>3. Known(Sock(t))'
      BY <1>3, <2>1, <3>1 DEF Known
    <3> QED BY <3>1, <3>2, <3>3 DEF Linked
  <2>5. /\ sock' \in [Tools -> 0..(Slots - 1)] /\ queue' \in Seq(Connections)
        /\ \A u \in Tools \ {t} : sock'[u] = sock[u]
        /\ request' \in [Connections -> Seq(Commands \cup {"eof"})]
    BY <1>1, <1>2, <2>1 DEF SimTypes
  <2> QED BY <1>2, <2>1, <2>2, <2>3, <2>4, <2>5, ReturnsInv
<1> QED BY <1>4, <1>5

LEMMA CloseInv ==
  ASSUME SimInv, CoreInv', NEW t \in Tools, Close(t) PROVE SimInv'
<1>1. SimTypes /\ ProgramInv /\ Sock(t) \in Connections
  BY SockType DEF SimInv
<1>2. /\ pc[t] \notin Stopped /\ ~Done(t) /\ Call(t) = "close" /\ Returns(t)
      /\ raced' = raced /\ sock' = sock /\ HangUp(t)
  BY DEF Close, Calling, coreVars, Stopped
<1>3. /\ server' = server /\ conn' = conn /\ queue' = queue
      /\ reply' = [reply EXCEPT ![Sock(t)] = <<>>]
  BY <1>2 DEF HangUp
<1>4. /\ request' \in [Connections -> Seq(Commands \cup {"eof"})]
      /\ \A c \in Connections \ {Sock(t)} : request'[c] = request[c]
  <2>1. request[Sock(t)] \in Seq(Commands \cup {"eof"})
    BY <1>1 DEF SimTypes
  <2>2. Append(request[Sock(t)], "eof") \in Seq(Commands \cup {"eof"})
    BY <2>1
  <2> QED BY <1>1, <1>2, <2>1, <2>2 DEF HangUp, SimTypes
<1>5. reply' \in [Connections -> Seq({"ok", "value"})]
  BY <1>1, <1>3, <<>> \in Seq({"ok", "value"}) DEF SimTypes
<1>6. ASSUME NEW u \in Tools \ {t}
      PROVE  /\ request'[Sock(u)] = request[Sock(u)]
             /\ reply'[Sock(u)] = reply[Sock(u)]
             /\ Known(Sock(u)) => Known(Sock(u))'
  <2>1. Sock(u) \in Connections \ {Sock(t)} /\ Sock(u)' = Sock(u)
    BY <1>1, <1>2, SockType DEF Sock
  <2> QED BY <1>1, <1>3, <1>4, <2>1 DEF Known, SimTypes
<1>7. LinkAt(t)'
  BY <1>1, <1>2, ReturnsTo DEF LinkAt
<1>8. /\ sock' \in [Tools -> 0..(Slots - 1)] /\ queue' \in Seq(Connections)
      /\ \A u \in Tools \ {t} : sock'[u] = sock[u]
  BY <1>1, <1>2, <1>3 DEF SimTypes
<1> QED BY <1>2, <1>3, <1>4, <1>5, <1>6, <1>7, <1>8, ReturnsInv

LEMMA InputInv ==
  ASSUME SimInv, CoreInv', NEW t \in Tools, Input(t) PROVE SimInv'
<1>1. SimTypes /\ ProgramInv /\ LinkAt(t)
  BY DEF SimInv, LinkInv
<1>2. /\ pc[t] = "call" /\ ~Done(t) /\ Call(t) = "input" /\ Returns(t)
      /\ raced' = raced /\ sock' = sock /\ network' = network
      /\ pc[t] \notin Stopped
  BY DEF Input, Calling, coreVars, Stopped
<1>3. /\ server' = server /\ conn' = conn /\ queue' = queue /\ reply' = reply
      /\ request' = request
  BY <1>2 DEF network
<1>4. \A u \in Tools : /\ Sock(u)' = Sock(u)
                       /\ Known(Sock(u)) => Known(Sock(u))'
  BY <1>2, <1>3 DEF Sock, Known
<1>5. LinkAt(t)'
  <2> SUFFICES ASSUME server # "closed", InUse(t)' PROVE Linked(t)'
    BY <1>3 DEF LinkAt
  <2>1. Linked(t)
    BY <1>1, <1>2, ReturnsTo DEF LinkAt, InUse
  <2>2. pc'[t] = "call"
    BY <1>1, <1>2 DEF Returns, Goes, SimTypes
  <2> QED BY <1>2, <1>3, <1>4, <2>1, <2>2 DEF Linked
<1> QED BY <1>1, <1>2, <1>3, <1>4, <1>5, ReturnsInv DEF SimTypes
\* What is left to show of a step of the server or of a shell left behind.
LEMMA ServerStepInv ==
  ASSUME SimInv, SimTypes', CoreInv', tools' = tools, raced \subseteq raced',
         server = "closed" => server' = "closed", ServerInv',
         \A u \in Tools : server' # "closed" /\ InUse(u) => Linked(u)'
  PROVE  SimInv'
<1>1. pc' = pc /\ next' = next /\ prog' = prog /\ sock' = sock
  BY DEF tools
<1>2. ProgramInv'
  BY <1>1 DEF SimInv, ProgramInv, ProgramAt, Done, Call
<1>3. AbortsForAReason'
  BY <1>1 DEF SimInv, AbortsForAReason
<1>4. LinkInv'
  BY <1>1 DEF LinkInv, LinkAt, InUse
<1> QED BY <1>2, <1>3, <1>4 DEF SimInv

LEMMA AcceptInv ==
  ASSUME SimInv, CoreInv', Accept PROVE SimInv'
<1>1. SimTypes /\ ServerInv /\ LinkInv /\ server = "accept" /\ conn = NoTool
  BY DEF SimInv, ServerInv, Accept
<1>2. /\ queue # <<>> /\ conn' = Head(queue) /\ queue' = Tail(queue)
      /\ server' = "recv" /\ request' = request /\ reply' = reply
      /\ pc' = pc /\ next' = next /\ prog' = prog /\ sock' = sock
  BY DEF Accept, tools
<1>3. conn' \in Connections /\ queue' \in Seq(Connections)
  BY <1>1, <1>2 DEF SimTypes
<1>4. SimTypes'
  BY <1>1, <1>2, <1>3 DEF SimTypes
<1>5. ServerInv'
  BY <1>2, <1>3, SimIoregAssumption DEF ServerInv
<1>6. ASSUME NEW c, c # NoTool, Known(c)
      PROVE  conn' = c \/ Contains(queue', c)
  <2>1. PICK i \in 1..Len(queue) : queue[i] = c
    BY <1>1, <1>6 DEF Known, Contains
  <2>2. CASE i = 1
    BY <1>1, <1>2, <2>1, <2>2 DEF SimTypes
  <2>3. CASE i # 1
    <3>1. i - 1 \in 1..Len(queue') /\ queue'[i - 1] = queue[i]
      BY <1>1, <1>2, <2>1, <2>3 DEF SimTypes
    <3> QED BY <2>1, <3>1 DEF Contains
  <2> QED BY <2>2, <2>3
<1>7. ASSUME NEW u \in Tools, InUse(u) PROVE Linked(u)'
  <2>1. Linked(u) /\ Sock(u) \in Connections /\ Sock(u)' = Sock(u)
        /\ Call(u)' = Call(u)
    BY <1>1, <1>2, <1>7, SockType DEF LinkInv, LinkAt, Sock, Call
  <2>2. Known(Sock(u))'
    BY <1>6, <2>1, SimIoregAssumption DEF Known, Linked
  <2> QED BY <1>2, <2>1, <2>2 DEF Linked
<1> QED BY <1>1, <1>4, <1>5, <1>7, ServerStepInv DEF Accept, coreVars

LEMMA ServeInv ==
  ASSUME SimInv, CoreInv', Serve PROVE SimInv'
<1> DEFINE r == request[conn]
           answer == IF Head(r) = "read" THEN "value" ELSE "ok"
<1>1. SimTypes /\ ServerInv /\ LinkInv /\ server = "recv" /\ conn \in Connections
  BY DEF SimInv, ServerInv, Serve, Receives, SimTypes
<1>2. r \in Seq(Commands \cup {"eof"}) /\ r # <<>>
      /\ Head(r) \in {"read", "write", "run"}
  BY <1>1 DEF SimTypes, Serve, Receives
<1>3. /\ reply' = [reply EXCEPT ![conn] = Append(@, answer)]
      /\ request' = [request EXCEPT ![conn] = Tail(@)]
      /\ server' = server /\ conn' = conn /\ queue' = queue
      /\ pc' = pc /\ next' = next /\ prog' = prog /\ sock' = sock
  BY DEF Serve, Answers, tools
<1>4. /\ request' \in [Connections -> Seq(Commands \cup {"eof"})]
      /\ request'[conn] = Tail(r)
      /\ \A c \in Connections \ {conn} : request'[c] = request[c]
  <2>1. Tail(r) \in Seq(Commands \cup {"eof"})
    BY <1>2
  <2> QED BY <1>1, <1>3, <2>1 DEF SimTypes
<1>5. /\ reply' \in [Connections -> Seq({"ok", "value"})]
      /\ reply'[conn] = Append(reply[conn], answer)
      /\ \A c \in Connections \ {conn} : reply'[c] = reply[c]
  <2>1. Append(reply[conn], answer) \in Seq({"ok", "value"})
    BY <1>1 DEF SimTypes
  <2> QED BY <1>1, <1>3, <2>1 DEF SimTypes
<1>6. SimTypes'
  BY <1>1, <1>3, <1>4, <1>5 DEF SimTypes
<1>7. ASSUME NEW u \in Tools, InUse(u) PROVE Linked(u)'
  <2>1. Linked(u) /\ Sock(u) \in Connections /\ Sock(u)' = Sock(u)
        /\ Call(u)' = Call(u) /\ (pc[u] = "call" \/ pc[u] = "recv")
    BY <1>1, <1>3, <1>7, SockType DEF LinkInv, LinkAt, Sock, Call, InUse
  <2>2. Known(Sock(u))'
    BY <1>3, <2>1 DEF Known, Linked
  <2>3. CASE Sock(u) # conn
    <3>1. request'[Sock(u)] = request[Sock(u)] /\ reply'[Sock(u)] = reply[Sock(u)]
      BY <1>4, <1>5, <2>1, <2>3
    <3> QED BY <1>3, <2>1, <2>2, <3>1 DEF Linked
  <2>4. CASE Sock(u) = conn
    <3>1. pc[u] = "recv" /\ r = <<Call(u)>> /\ reply[conn] = <<>>
      BY <1>2, <2>1, <2>4 DEF Linked
    <3>2. Tail(r) = <<>> /\ Head(r) = Call(u)
      BY <3>1
    <3>3. answer = Expected(Call(u)) /\ Append(reply[conn], answer) = <<answer>>
      BY <3>1, <3>2 DEF Expected
    <3>4. request'[conn] = <<>> /\ reply'[conn] = <<Expected(Call(u))>>
      BY <1>4, <1>5, <3>2, <3>3
    <3> QED BY <1>3, <2>1, <2>2, <2>4, <3>1, <3>4 DEF Linked
  <2> QED BY <2>3, <2>4
<1>8. ServerInv'
  BY <1>1, <1>3 DEF ServerInv
<1> QED BY <1>1, <1>6, <1>7, <1>8, ServerStepInv DEF Serve, coreVars

LEMMA LeaveInv ==
  ASSUME SimInv, CoreInv', LeaveConnection PROVE SimInv'
<1>1. SimTypes /\ ServerInv /\ LinkInv /\ server = "recv" /\ conn \in Connections
      /\ ProgramInv
  BY DEF SimInv, ServerInv, LeaveConnection, Receives, SimTypes
<1>2. /\ request' = [request EXCEPT ![conn] = <<>>] /\ reply' = reply
      /\ server' = "accept" /\ conn' = NoTool /\ queue' = queue
      /\ pc' = pc /\ next' = next /\ prog' = prog /\ sock' = sock
      /\ request[conn] # <<>> /\ Head(request[conn]) = "eof"
  BY DEF LeaveConnection, Receives, tools
<1>3. /\ request' \in [Connections -> Seq(Commands \cup {"eof"})]
      /\ \A c \in Connections \ {conn} : request'[c] = request[c]
  BY <1>1, <1>2, <<>> \in Seq(Commands \cup {"eof"}) DEF SimTypes
<1>4. SimTypes'
  BY <1>1, <1>2, <1>3 DEF SimTypes
<1>5. ServerInv'
  BY <1>2 DEF ServerInv
<1>6. ASSUME NEW u \in Tools, InUse(u) PROVE Linked(u)'
  <2>1. Linked(u) /\ Sock(u) \in Connections /\ Sock(u)' = Sock(u)
        /\ Call(u)' = Call(u) /\ (pc[u] = "call" \/ pc[u] = "recv")
    BY <1>1, <1>2, <1>6, SockType DEF LinkInv, LinkAt, Sock, Call, InUse
  <2>2. Sock(u) # conn
    <3> SUFFICES ASSUME Sock(u) = conn PROVE FALSE
      OBVIOUS
    <3>1. pc[u] = "recv" /\ request[conn] = <<Call(u)>>
      BY <1>2, <2>1 DEF Linked
    <3>2. Call(u) \in Commands /\ Head(<<Call(u)>>) = Call(u)
      BY <1>1, <3>1 DEF ProgramInv, ProgramAt
    <3> QED BY <1>2, <3>1, <3>2 DEF Commands
  <2>3. Known(Sock(u))'
    BY <1>2, <2>1, <2>2 DEF Known, Linked
  <2> QED BY <1>2, <1>3, <2>1, <2>2, <2>3 DEF Linked
<1> QED BY <1>1, <1>4, <1>5, <1>6, ServerStepInv DEF LeaveConnection, coreVars

LEMMA ClosingInv ==
  ASSUME SimInv, CoreInv', Finish \/ BrokenPipe PROVE SimInv'
<1>1. SimTypes /\ server = "recv" /\ conn \in Connections
  BY DEF SimInv, ServerInv, Finish, BrokenPipe, Receives, SimTypes
<1>2. /\ request' = [c \in Connections |-> <<>>] /\ server' = "closed"
      /\ conn' = NoTool /\ queue' = <<>> /\ tools' = tools
      /\ coreVars' = coreVars
  BY DEF Finish, BrokenPipe, Closed
<1>3. reply' \in [Connections -> Seq({"ok", "value"})]
  <2>1. CASE reply' = reply
    BY <1>1, <2>1 DEF SimTypes
  <2>2. CASE reply' = [reply EXCEPT ![conn] = Append(@, "ok")]
    <3>1. Append(reply[conn], "ok") \in Seq({"ok", "value"})
      BY <1>1 DEF SimTypes
    <3> QED BY <1>1, <2>2, <3>1 DEF SimTypes
  <2> QED BY <2>1, <2>2 DEF Finish, BrokenPipe, Answers
<1>4. request' \in [Connections -> Seq(Commands \cup {"eof"})]
  BY <1>2, <<>> \in Seq(Commands \cup {"eof"})
<1>5. queue' \in Seq(Connections)
  BY <1>2
<1>6. SimTypes' /\ ServerInv'
  BY <1>1, <1>2, <1>3, <1>4, <1>5 DEF SimTypes, ServerInv, tools
<1> QED BY <1>2, <1>6, ServerStepInv DEF coreVars

---------------------------------------------------------------------------
LEMMA SimInitInv == Init => SimInv
<1> SUFFICES ASSUME Init PROVE SimInv
  OBVIOUS
<1>1. Straight(<<>>) \in [calls : Seq(Calls), loop : Nat]
  BY DEF Straight
<1>2. SimTypes
  <2>1. /\ pc \in [Tools -> Locations] /\ next \in [Tools -> Nat]
        /\ prog \in [Tools -> [calls : Seq(Calls), loop : Nat]]
        /\ sock \in [Tools -> 0..(Slots - 1)]
    BY <1>1, SimIoregAssumption DEF Init, Locations, Stopped
  <2>2. /\ request \in [Connections -> Seq(Commands \cup {"eof"})]
        /\ queue \in Seq(Connections)
    BY <<>> \in Seq(Commands \cup {"eof"}) DEF Init
  <2>3. reply \in [Connections -> Seq({"ok", "value"})]
    BY <<>> \in Seq({"ok", "value"}) DEF Init
  <2> QED BY <2>1, <2>2, <2>3 DEF SimTypes, Init
<1>3. \A t \in Tools : pc[t] = "stopped" /\ next[t] = 1
  BY DEF Init
<1>4. ProgramInv /\ LinkInv /\ AbortsForAReason
  BY <1>3 DEF ProgramInv, ProgramAt, LinkInv, LinkAt, InUse, AbortsForAReason,
     Stopped
<1>5. ServerInv /\ CoreInv
  BY CoreInitInv DEF Init, ServerInv
<1> QED BY <1>2, <1>4, <1>5 DEF SimInv

LEMMA SimStep == SimInv /\ [Next]_vars => SimInv'
<1> SUFFICES ASSUME SimInv, [Next]_vars PROVE SimInv'
  OBVIOUS
<1>1. CoreInv'
  BY CoreStep, SimStepIsCoreStep DEF SimInv
<1>2. CASE UNCHANGED vars \/ ShellStep
  <2>1. /\ tools' = tools /\ raced \subseteq raced' /\ server' = server
        /\ conn' = conn /\ queue' = queue /\ request' = request
        /\ reply' = reply
    BY <1>2 DEF vars, network, coreVars, ShellStep, LeftShell
  <2>2. SimTypes' /\ ServerInv'
    BY <2>1 DEF SimInv, SimTypes, ServerInv, tools
  <2>3. \A u \in Tools : server' # "closed" /\ InUse(u) => Linked(u)'
    BY <2>1 DEF SimInv, LinkInv, LinkAt, Linked, Known, Sock, Call, tools
  <2> QED BY <1>1, <2>1, <2>2, <2>3, ServerStepInv
<1>3. CASE ServerStep
  BY <1>1, <1>3, AcceptInv, ServeInv, LeaveInv, ClosingInv DEF ServerStep
<1>4. ASSUME NEW t \in Tools,
             Start(t) \/ ToolStep(t) \/ Input(t) \/ EndOfInput(t) \/ Kill(t)
      PROVE  SimInv'
  BY <1>1, <1>4, StartInv, StoppingInv, ResolveInv, NoResolutionInv, ConnectInv,
     RefusedInv, SendInv, RecvInv, CloseInv, InputInv DEF ToolStep
<1> QED BY <1>2, <1>3, <1>4 DEF Next

(***************************************************************************)
(* The assertions of ioreg_init, ioreg_read, ioreg_write, sim-run and      *)
(* sim-finish fail only after a race for /tmp/result or once the           *)
(* simulation has ended, whatever tools run, however they are interleaved  *)
(* and killed: the connection that a tool opened is there until the tool   *)
(* closes it, and the next thing to arrive on it answers its last command. *)
(***************************************************************************)
THEOREM ToolsAbortForAReason == Spec => []AbortsForAReason
<1>1. SimInv => AbortsForAReason
  BY DEF SimInv
<1> QED BY SimInitInv, SimStep, <1>1, PTL DEF Spec
=============================================================================
