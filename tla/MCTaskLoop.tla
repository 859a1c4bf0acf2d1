----------------------------- MODULE MCTaskLoop -----------------------------
(* Values for TaskLoop that a configuration file cannot write: reset times *)
(* in the past, within the ceiling of 720 minutes and beyond it, and an    *)
(* agent that completes a task, does nothing, or adds a task.              *)
EXTENDS TaskLoop

ResetTimes == {-5, 30, 800}
AgentEffects == {-1, 0, 1}
=============================================================================
