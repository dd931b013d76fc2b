---------------------------- MODULE AnalyzerTool ----------------------------
(***************************************************************************)
(* The tool traffic-analyzer-gmii                                          *)
(* (lib/sw/lsi/cores/traffic-analyzer-gmii/traffic-analyzer-gmii.c)        *)
(* reading the analyzer core while frames arrive: AnalyzerLine with the    *)
(* tool in the place of arbitrary software.                                *)
(*                                                                         *)
(* A step of the tool is one write of the control register, one read of a  *)
(* register, the two halves of a 64-bit one together, or one read of the   *)
(* capture buffer.  Frames go on arriving between any two of them.         *)
(***************************************************************************)
EXTENDS AnalyzerLine, DateAndTime
LOCAL INSTANCE FiniteSetsExt

CONSTANT MaxStarts  \* times the tool is started

VARIABLES
  pc,                \* "none", "stop", "run", "input" or what is done next
  starts,
  report,            \* the registers read for the report, by name
  words,             \* the words of the capture read so far
  frame_buf_address, \* of the core, the word that the next read returns
  steady             \* history: was the core holding still when reading began

tool == <<pc, starts, report, words, frame_buf_address, steady>>
toolVars == <<lineVars, tool>>

\* The registers, in the order in which main reads them.
ReadOrder ==
  <<"pkts", "octets", "octets_idle", "bad_crc_octets", "bad_crc_pkts",
    "bad_preamble_octets", "bad_preamble_pkts", "octets_total",
    "testframe_pkts", "sequence_errors", "latency_min", "latency_max",
    "latency", "timestamp", "frame_size", "error_expected",
    "error_received", "error_timestamp">>

Register(name) ==
  CASE name \in Counters -> stats_reg.counts[name]
    [] name = "octets_idle" -> cycles_reg.idle
    [] name = "octets_total" -> cycles_reg.total
    [] name = "latency_min" -> latency_reg.min
    [] name = "latency_max" -> latency_reg.max
    [] name = "latency" -> latency_reg.last
    [] name = "timestamp" -> ieee_1588_to_yang_date_and_time(stats_reg.at)
    [] name = "frame_size" -> stats_reg.size
    [] name = "error_expected" -> stats_reg.error.expected
    [] name = "error_received" -> stats_reg.error.received
    [] name = "error_timestamp" ->
         ieee_1588_to_yang_date_and_time(stats_reg.error.at)

NoReport == <<>>

ToolInit ==
  /\ LineInit
  /\ pc = "none" /\ starts = 0 /\ report = NoReport /\ words = <<>>
  /\ frame_buf_address = 0 /\ steady = FALSE

Core == UNCHANGED <<observers, writes>>
Untouched == UNCHANGED lineVars

\* main: ioreg_init, then control = 0, a pause, control = 1.
StartTool ==
  /\ pc = "none" /\ starts < MaxStarts /\ starts' = starts + 1
  /\ pc' = "run" /\ WriteControl(FALSE, FALSE) /\ Core
  /\ UNCHANGED <<report, words, frame_buf_address, steady>>

\* The pause of a millisecond is long enough for the core to be reset.
CoreReset == ~run /\ stats_reg = NoStats /\ seen = <<>> /\ ~holding

RunAnalyzer ==
  /\ pc = "run" /\ CoreReset
  /\ pc' = "input" /\ WriteControl(TRUE, FALSE) /\ Core
  /\ UNCHANGED <<starts, report, words, frame_buf_address, steady>>

\* getc returns a character, and the tool freezes the registers.
Freeze ==
  /\ pc = "input"
  /\ pc' = "read" /\ WriteControl(TRUE, TRUE) /\ Core
  /\ report' = NoReport /\ words' = <<>>
  /\ UNCHANGED <<starts, frame_buf_address, steady>>

\* getc returns EOF.
EndOfInput ==
  /\ pc = "input"
  /\ pc' = "none" /\ Untouched
  /\ UNCHANGED <<starts, report, words, frame_buf_address, steady>>

NoRewind ==
  /\ pc = "read"
  /\ report' = Append(report, Register(ReadOrder[Len(report) + 1]))
  /\ steady' = IF report = NoReport
               THEN holding /\ run /\ freeze_stats ELSE steady
  /\ pc' = IF Len(report') = Len(ReadOrder) THEN "capture" ELSE "read"
  /\ Untouched /\ UNCHANGED <<starts, words, frame_buf_address>>

\* Reading the frame size rewinds the capture buffer.
ReadRegister ==
  /\ pc = "read"
  /\ LET name == ReadOrder[Len(report) + 1]
     IN  /\ report' = Append(report, Register(name))
         /\ frame_buf_address' = IF name = "frame_size" THEN 0
                                 ELSE frame_buf_address
  /\ steady' = IF report = NoReport
               THEN holding /\ run /\ freeze_stats ELSE steady
  /\ pc' = IF Len(report') = Len(ReadOrder) THEN "capture" ELSE "read"
  /\ Untouched /\ UNCHANGED <<starts, words>>

Reported(name) ==
  report[CHOOSE i \in DOMAIN ReadOrder : ReadOrder[i] = name]

\* One word for every four octets and one for the rest.
WordsWanted == (Reported("frame_size") + Lanes - 1) \div Lanes

ReadCapture ==
  /\ pc = "capture" /\ Len(words) < WordsWanted
  /\ words' = Append(words, mem[frame_buf_address])
  /\ frame_buf_address' = (frame_buf_address + 1) % Words
  /\ Untouched /\ UNCHANGED <<pc, starts, report, steady>>

\* The report is printed, the registers go on.
Unfreeze ==
  /\ pc = "capture" /\ Len(words) = WordsWanted
  /\ pc' = "input" /\ WriteControl(TRUE, FALSE) /\ Core
  /\ UNCHANGED <<starts, report, words, frame_buf_address, steady>>

\* Killed, the registers frozen or not.
KillTool ==
  /\ pc # "none"
  /\ pc' = "none" /\ report' = NoReport /\ words' = <<>>
  /\ Untouched /\ UNCHANGED <<starts, frame_buf_address, steady>>

ToolStep ==
  \/ StartTool \/ RunAnalyzer \/ Freeze \/ EndOfInput \/ ReadRegister
  \/ ReadCapture \/ Unfreeze \/ KillTool

ToolNext == (LineTick /\ UNCHANGED tool) \/ ToolStep
ToolSpec == ToolInit /\ [][ToolNext]_toolVars

---------------------------------------------------------------------------
Complete == pc = "capture" /\ Len(words) = WordsWanted
ReportedTime(name) == yang_date_and_time_to_ieee_1588(Reported(name))

(***************************************************************************)
(* A report that the tool began to read while the core held still is one   *)
(* picture, although it takes dozens of reads: counters, time, size and    *)
(* sequence error are those after the same frame, the latencies those      *)
(* after a frame no later than it, and no frame that arrives meanwhile,    *)
(* nor a report that was cut short before, shows in it.                    *)
(***************************************************************************)
ReportTogether ==
  Complete /\ steady /\ ~partial => \E s \in Prefixes :
    /\ \A c \in Counters : Reported(c) = Tally(s)[c]
    /\ \E n \in 0..Len(s) : Extremes(SubSeq(s, 1, n), Reported("latency_min"),
                                    Reported("latency_max"))
    /\ s # <<>> =>
         /\ ReportedTime("timestamp") = s[Len(s)].at
         /\ Reported("frame_size") = Last(s[Len(s)].frame) + 1
    /\ Reported("sequence_errors") # 0 =>
         LET e == s[Max(OutOfSequence(s))]
         IN  /\ Reported("error_received") = e.frame.seq
             /\ ReportedTime("error_timestamp") = e.at

(***************************************************************************)
(* The capture in such a report is the last frame that it counts, octet    *)
(* for octet.                                                              *)
(***************************************************************************)
CaptureReported ==
  Complete /\ steady /\ ~partial /\ Reported("frame_size") > 0 =>
    \E i \in DOMAIN seen :
      /\ ReportedTime("timestamp") = seen[i].at
      /\ \A k \in 0..(Reported("frame_size") - 1) :
           words[k \div Lanes + 1][k % Lanes] = <<seen[i].number, k>>
=============================================================================
