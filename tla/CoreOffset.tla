----------------------------- MODULE CoreOffset -----------------------------
(***************************************************************************)
(* get_core_offset of lib/sw/lsi/common/ioreg.c (and sim-ioreg.c): a tool  *)
(* learns the address of its core from the script get-core-offset, whose   *)
(* output the shell puts in /tmp/result, one file for all tools.           *)
(*                                                                         *)
(* The script writes its output in Pieces writes: "0x" and the digits on   *)
(* the target, one line in simulation.  Each writer has a position of its  *)
(* own in the file, and a piece is named by the core it was written for.   *)
(* A tool that is killed meanwhile may leave its shell at work, which then *)
(* opens or writes the file although nobody reads it.  The script itself   *)
(* is taken to succeed.                                                    *)
(***************************************************************************)
EXTENDS Naturals

CONSTANTS Tools, Cores, NoCore,
  CoreOf,  \* the core that each tool is for, NoCore if it passes NULL
  Pieces,
  Shells   \* shells that killed tools can leave behind

ASSUME CoreOffsetAssumption ==
  /\ NoCore \notin Cores
  /\ CoreOf \in [Tools -> Cores \cup {NoCore}]
  /\ Pieces \in Nat \ {0}

VARIABLES
  result,  \* the pieces in /tmp/result, NoCore where there is none
  stage,   \* 0, or k where the next write of the tool's script is the k-th
  offset,  \* the static variable of that name, as the core it belongs to;
           \* NoCore for 0
  left,    \* the shells left behind: their core and their next write, 0 where
           \* that is to open the file
  raced    \* history: tools whose resolution another one overlapped, or met a
           \* write of a shell left behind

coreVars == <<result, stage, offset, left, raced>>

Empty == [k \in 1..Pieces |-> NoCore]
Nobody == [core |-> NoCore, stage |-> 0]
Resolving(t) == stage[t] # 0

CoreInit ==
  /\ result = Empty /\ stage = [t \in Tools |-> 0]
  /\ offset = [t \in Tools |-> NoCore] /\ raced = {}
  /\ left = [p \in Shells |-> Nobody]

\* fgets and sscanf find an address when no piece is missing.  A hole at the
\* beginning is read as zeros, the end of a string; "0x" alone is 0 or no
\* number, as the library has it.
Complete == \A k \in 1..Pieces : result[k] # NoCore
Address == IF Complete THEN result[Pieces] ELSE NoCore

Overlapped(t) == {u \in Tools \ {t} : Resolving(u)}

UsesLeftover(t) ==
  /\ ~Resolving(t) /\ CoreOf[t] # NoCore
  /\ result' = IF Complete THEN result ELSE Empty
  /\ stage' = [stage EXCEPT ![t] = IF Complete THEN Pieces + 1 ELSE 1]
  /\ raced' = IF Overlapped(t) = {} THEN raced \ {t}
              ELSE raced \cup {t} \cup Overlapped(t)
  /\ UNCHANGED <<offset, left>>

\* system("get-core-offset ... > /tmp/result"): the shell opens the file.
Truncate(t) ==
  /\ ~Resolving(t) /\ CoreOf[t] # NoCore
  /\ result' = Empty /\ stage' = [stage EXCEPT ![t] = 1]
  /\ raced' = IF Overlapped(t) = {} THEN raced \ {t}
              ELSE raced \cup {t} \cup Overlapped(t)
  /\ UNCHANGED <<offset, left>>

WritePiece(t) ==
  /\ stage[t] \in 1..Pieces
  /\ result' = [result EXCEPT ![stage[t]] = CoreOf[t]]
  /\ stage' = [stage EXCEPT ![t] = @ + 1]
  /\ UNCHANGED <<offset, left, raced>>

ReadBack(t) ==
  /\ stage[t] = Pieces + 1 /\ result[1] # NoCore
  /\ offset' = [offset EXCEPT ![t] = Address]
  /\ stage' = [stage EXCEPT ![t] = 0]
  /\ UNCHANGED <<result, left, raced>>

\* One of the two assertions fails and ends the tool.
ReadFails(t) ==
  /\ stage[t] = Pieces + 1 /\ ~Complete
  /\ stage' = [stage EXCEPT ![t] = 0]
  /\ UNCHANGED <<result, offset, left, raced>>

\* A process ends, or starts again: its variables are lost.
Lost(t) ==
  /\ stage' = [stage EXCEPT ![t] = 0]
  /\ offset' = [offset EXCEPT ![t] = NoCore]
  /\ raced' = raced \ {t}
  /\ UNCHANGED result

Forget(t) == Lost(t) /\ UNCHANGED left

\* A tool is killed while it waits for its shell, which goes on.
LeaveShell(t) ==
  /\ CoreOf[t] # NoCore /\ stage[t] <= Pieces
  /\ \E p \in Shells :
       /\ left[p] = Nobody
       /\ left' = [left EXCEPT ![p] = [core |-> CoreOf[t], stage |-> stage[t]]]
  /\ Lost(t)

\* The next step of such a shell, whoever uses the file now.
LeftShell(p) ==
  /\ left[p] # Nobody
  /\ result' = IF left[p].stage = 0 THEN Empty
               ELSE [result EXCEPT ![left[p].stage] = left[p].core]
  /\ left' = [left EXCEPT ![p] =
       IF @.stage = Pieces THEN Nobody
       ELSE [core |-> @.core, stage |-> @.stage + 1]]
  /\ raced' = raced \cup {t \in Tools : Resolving(t)}
  /\ UNCHANGED <<stage, offset>>

CoreNext ==
  \/ \E t \in Tools :
       \/ Truncate(t) \/ WritePiece(t) \/ ReadBack(t) \/ ReadFails(t)
       \/ Forget(t) \/ LeaveShell(t)
  \/ \E p \in Shells : LeftShell(p)

CoreSpec == CoreInit /\ [][CoreNext]_coreVars

CoreTypeOK ==
  /\ result \in [1..Pieces -> Cores \cup {NoCore}]
  /\ stage \in [Tools -> 0..(Pieces + 1)]
  /\ offset \in [Tools -> Cores \cup {NoCore}]
  /\ left \in [Shells -> [core : Cores \cup {NoCore}, stage : 0..Pieces]]
  /\ raced \subseteq Tools

(***************************************************************************)
(* The tools hand their addresses over in one file, without a lock.  A     *)
(* tool whose get_core_offset no other one overlaps, and no shell of a     *)
(* killed one writes into, has the address of its own core, whatever else  *)
(* other tools and their shells left in the file or do afterwards.         *)
(***************************************************************************)
OwnCore ==
  \A t \in Tools \ raced :
    ~Resolving(t) /\ offset[t] # NoCore => offset[t] = CoreOf[t]

\* What makes it inductive: the file is the resolving tool's own.
FileIsMine ==
  \A t \in Tools \ raced : Resolving(t) =>
    /\ CoreOf[t] # NoCore
    /\ \A u \in Tools : Resolving(u) => u = t
    /\ \A k \in 1..Pieces :
         result[k] = IF k < stage[t] THEN CoreOf[t] ELSE NoCore

CoreInv == CoreTypeOK /\ FileIsMine /\ OwnCore
=============================================================================
