----------------------------- MODULE MCSimIoreg -----------------------------
(***************************************************************************)
(* SimIoreg for TLC: two tools with a core of their own and a shell that   *)
(* calls sim-run "in a loop", sim-devmem32 and, at the end, sim-finish.    *)
(***************************************************************************)
EXTENDS SimIoreg

CONSTANTS generator, analyzer, shell, tg, ta

ToolPrograms ==
  [t \in Tools |->
    CASE t = generator -> {GeneratorProgram}
      [] t = analyzer -> {AnalyzerProgram}
      [] t = shell -> {SimRun, SimFinish, SimDevmem32}]
ToolCores ==
  [t \in Tools |-> CASE t = generator -> tg [] t = analyzer -> ta
                     [] t = shell -> NoCore]

\* A bound: while a shell is left behind, one tool at most runs.  It keeps
\* tools from being started or killed, and nothing else.
Running == {t \in Tools : pc[t] \notin Stopped}
FewAtOnce ==
  (\E p \in Shells : left[p] # Nobody) => \A t, u \in Running : t = u
=============================================================================
