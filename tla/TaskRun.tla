------------------------------ MODULE TaskRun ------------------------------
(***************************************************************************)
(* The task loop with the pipeline of its iterations: what TaskLoop does   *)
(* in its step RunAgent happens here line by line, and the log that        *)
(* detect_quota.py reads is what got through the pipeline.                 *)
(***************************************************************************)
EXTENDS TaskLoop, LogPipeline

(* An agent may leave the task file alone.                                 *)
ASSUME RunAssumption == 0 \in Effects

VARIABLE worked   \* has the agent edited the task file in this iteration?

runVars == <<at, pending, before, stalled, log, streak, slept, quotas,
             printed, pos, alive, hit, raised, worked>>

loopVars == <<at, pending, before, stalled, log, streak, slept, quotas>>

StartPipeline ==
  /\ at = "run" /\ at' = "pipe"
  /\ PipeStart
  /\ worked' = FALSE
  /\ UNCHANGED <<pending, before, stalled, log, streak, slept, quotas>>

(* The agent works as long as it lives.                                    *)
EditTasks ==
  /\ at = "pipe" /\ 0 \in alive /\ ~ worked
  /\ worked' = TRUE
  /\ \E d \in Effects :
       /\ pending + d \in 0 .. MaxPending
       /\ pending' = IF SameFile THEN pending + d ELSE pending
  /\ UNCHANGED <<at, before, stalled, log, streak, slept, quotas, pipeVars>>

PrintSome ==
  /\ at = "pipe"
  /\ \E l \in Lines : /\ l.says /= {} => quotas < MaxQuotas
                      /\ PrintLine(l)
  /\ UNCHANGED <<loopVars, worked>>

Finish ==
  /\ at = "pipe" /\ AgentExits
  /\ UNCHANGED <<loopVars, worked>>

FlowOn ==
  /\ at = "pipe" /\ Flow
  /\ UNCHANGED <<loopVars, worked>>

(* All four processes have ended: the script reads the log.                *)
EndPipeline ==
  /\ at = "pipe" /\ PipeEnded /\ at' = "detect"
  /\ \E reset \in Offsets \cup {None} :
       /\ reset /= None => InLog("session")
       /\ log' = [weekly |-> InLog("weekly"), session |-> InLog("session"),
                  reset |-> reset]
  /\ streak' = StreakAfter(pending - before)
  /\ quotas' = IF log' = Silent THEN quotas ELSE quotas + 1
  /\ UNCHANGED <<pending, before, stalled, slept, pipeVars, worked>>

LoopStep == Preflight \/ Check \/ Detect \/ Judge

RunNext ==
  \/ LoopStep /\ UNCHANGED <<pipeVars, worked>>
  \/ StartPipeline \/ EditTasks \/ PrintSome \/ Finish \/ FlowOn \/ EndPipeline

RunInit ==
  /\ Init
  /\ printed = <<>> /\ pos = [i \in 1 .. 3 |-> 0] /\ alive = {}
  /\ hit = "none" /\ raised = FALSE /\ worked = FALSE

RunSpec == RunInit /\ [][RunNext]_runVars

(* Processes run; an agent exits some time (--max-turns).                  *)
FairRunSpec ==
  /\ RunSpec
  /\ WF_runVars(LoopStep /\ UNCHANGED <<pipeVars, worked>>)
  /\ WF_runVars(StartPipeline) /\ WF_runVars(FlowOn) /\ WF_runVars(EndPipeline)
  /\ WF_runVars(Finish)
-----------------------------------------------------------------------------
(* The loop over an agent that runs and logs in one step.  Until the       *)
(* pipeline has ended nobody looks at the task file.                       *)
Loop == INSTANCE TaskLoop WITH
  at <- IF at = "pipe" THEN "run" ELSE at,
  pending <- IF at = "pipe" THEN before ELSE pending

ImplementsLoop == Loop!Spec

(* run-tasks.sh:202, a session window exhaustion "shouldn't count as a     *)
(* stall": an iteration whose agent has run into a quota is judged only if *)
(* the formatter has raised in it and took the log down with it.           *)
QuotaNotJudged == at = "judge" /\ hit /= "none" => raised

(* run-tasks.sh:18, "A weekly cap hit aborts the loop since there is       *)
(* nothing to wait for": it is neither slept through nor retried, whatever *)
(* else the agent has printed around it (its message matches the patterns  *)
(* of a session window as well), unless the formatter has raised.          *)
WeeklyCapEnds ==
  hit = "weekly" /\ ~ raised => at \in {"pipe", "detect", "aborted_weekly"}

(* Unless the formatter raises, every line of the agent is in both logs    *)
(* and on the screen when the script goes on, whoever was slower.          *)
AllDelivered ==
  at = "detect" /\ ~ raised => \A i \in 1 .. 3 : pos[i] = Len(printed)

(* The pipeline ends, also when processes in its middle have died and      *)
(* pipes were full.                                                        *)
PipelineEnds == at = "pipe" ~> at = "detect"
=============================================================================
