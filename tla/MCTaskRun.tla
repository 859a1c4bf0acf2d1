----------------------------- MODULE MCTaskRun -----------------------------
(* TaskRun with lines that the formatter shows and raises on: one reports  *)
(* the end of a session window, one that of the weekly cap in words that   *)
(* match both kinds of patterns, and one only talks about a window.        *)
EXTENDS TaskRun

ResetTimes == {30}
AgentEffects == {-1, 0}
AgentLines ==
  {[shape |-> "assistant", says |-> {}, quota |-> "none"],
   [shape |-> "user", says |-> {"session"}, quota |-> "none"],
   [shape |-> "scalar", says |-> {}, quota |-> "none"],
   [shape |-> "result", says |-> {"session"}, quota |-> "session"],
   [shape |-> "result", says |-> {"session", "weekly"}, quota |-> "weekly"]}
=============================================================================
