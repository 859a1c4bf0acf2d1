------------------------------ MODULE TaskLoop ------------------------------
(***************************************************************************)
(* scripts/run-tasks.sh: the loop that runs an agent on one pending task   *)
(* after another, sleeps through exhausted quota windows and gives up on   *)
(* an agent that does not advance; and scripts/detect_quota.py, which      *)
(* tells it from the log of an iteration whether a quota ended it.         *)
(* The agent is outside the repository: what it does to the task file and  *)
(* what it prints is arbitrary.  Times are in minutes.                     *)
(***************************************************************************)
EXTENDS Integers

CONSTANTS
  MaxStalled,    \* --max-stalled
  MaxQuotaWait,  \* --max-quota-wait
  Fallback,      \* the sleep when no reset time could be parsed: 900 s
  Offsets,       \* reset times a log may name, relative to the present
  Effects,       \* what an iteration may add to the number of pending tasks
  SameFile,      \* is --tasks-file the tasks.md that the prompt names?
  None,          \* no reset time in the log
  MaxPending,    \* bound: pending tasks
  MaxQuotas      \* bound: iterations with a quota phrase in their log

ASSUME LoopAssumption ==
  /\ MaxStalled \in Nat \ {0} /\ MaxQuotaWait \in Nat /\ Fallback \in Nat
  /\ Offsets \subseteq Int /\ Effects \subseteq Int
  /\ SameFile \in BOOLEAN
  /\ None \notin Int
  /\ MaxPending \in Nat /\ MaxQuotas \in Nat

VARIABLES
  at,        \* where the script stands
  pending,   \* count_pending: tasks of TASKS_FILE with status pending
  before,    \* pending_before
  stalled,   \* iterations counted as stalls
  log,       \* what detect_quota.py finds in the iteration's log
  streak,    \* history: iterations in a row that completed no task, up to
             \* MaxStalled
  slept,     \* history: the last sleep
  quotas     \* history: iterations with a quota phrase, for the bound

vars == <<at, pending, before, stalled, log, streak, slept, quotas>>

(* A log has phrases that match WEEKLY_PATTERNS, SESSION_PATTERNS and the  *)
(* RESET_PATTERNS, whoever printed them: the CLI when a quota has ended,   *)
(* or the agent that talks about one.  "weekly usage limit reached"        *)
(* matches two of them.                                                    *)
Logs == [weekly : BOOLEAN, session : BOOLEAN, reset : Offsets \cup {None}]
Silent == [weekly |-> FALSE, session |-> FALSE, reset |-> None]

(* Mutant: the session window is looked for first.                         *)
Verdict_SessionFirst(l) ==
  IF l.session THEN "SESSION" ELSE IF l.weekly THEN "WEEKLY" ELSE ""

(* detect_quota.main: the weekly cap first, then the session window.       *)
Verdict(l) == IF l.weekly THEN "WEEKLY" ELSE IF l.session THEN "SESSION" ELSE ""

-----------------------------------------------------------------------------
(* Lines 118-164: no task file, a protected branch or a missing tool ends  *)
(* the script before the loop.                                             *)
Preflight ==
  /\ at = "start"
  /\ at' \in {"refused", "check"}
  /\ UNCHANGED <<pending, before, stalled, log, streak, slept, quotas>>

(* The condition of the while loop, and pending_before.                    *)
Check ==
  /\ at = "check"
  /\ at' = IF pending > 0 THEN "run" ELSE "completed"
  /\ before' = pending
  /\ UNCHANGED <<pending, stalled, log, streak, slept, quotas>>

StreakAfter(d) ==
  IF SameFile /\ d < 0 THEN 0
  ELSE IF streak < MaxStalled THEN streak + 1 ELSE streak

(* The agent runs.  It edits tasks.md, which the loop counts only when it  *)
(* was told to; its quota may end before or after it has done that.        *)
RunAgent ==
  /\ at = "run"
  /\ \E d \in Effects, l \in Logs :
       /\ l /= Silent => quotas < MaxQuotas
       /\ pending + d \in 0 .. MaxPending
       /\ pending' = IF SameFile THEN pending + d ELSE pending
       /\ streak' = StreakAfter(d)
       /\ log' = l
       /\ quotas' = IF l = Silent THEN quotas ELSE quotas + 1
  /\ at' = "detect"
  /\ UNCHANGED <<before, stalled, slept>>

(* handle_quota.  A sleep ends the iteration without counting a stall; the *)
(* weekly cap and a reset beyond the ceiling end the script.               *)
WaitFor(reset) == IF reset + 1 < 1 THEN 1 ELSE reset + 1

Sleep(minutes) ==
  /\ slept' = minutes
  /\ at' = "check"

(* Mutant: a reset time is slept for however far it is.                    *)
Detect_NoCeiling ==
  /\ at = "detect"
  /\ CASE Verdict(log) = "" -> at' = "judge" /\ UNCHANGED slept
       [] Verdict(log) = "WEEKLY" -> at' = "aborted_weekly" /\ UNCHANGED slept
       [] OTHER -> Sleep(IF log.reset = None THEN Fallback ELSE WaitFor(log.reset))
  /\ UNCHANGED <<pending, before, stalled, log, streak, quotas>>

Detect ==
  /\ at = "detect"
  /\ CASE Verdict(log) = "" ->
            at' = "judge" /\ UNCHANGED slept
       [] Verdict(log) = "WEEKLY" ->
            at' = "aborted_weekly" /\ UNCHANGED slept
       [] Verdict(log) = "SESSION" /\ log.reset = None ->
            Sleep(Fallback)
       [] OTHER ->
            IF WaitFor(log.reset) > MaxQuotaWait
            THEN at' = "aborted_ceiling" /\ UNCHANGED slept
            ELSE Sleep(WaitFor(log.reset))
  /\ UNCHANGED <<pending, before, stalled, log, streak, quotas>>

(* Mutant: the loop stops one stall too late.                              *)
Judge_LateStop ==
  /\ at = "judge"
  /\ stalled' = IF pending >= before THEN stalled + 1 ELSE 0
  /\ at' = IF stalled' > MaxStalled THEN "aborted_stalled" ELSE "check"
  /\ UNCHANGED <<pending, before, log, streak, slept, quotas>>

(* Mutant: progress does not reset the count.                              *)
Judge_NoReset ==
  /\ at = "judge"
  /\ stalled' = IF pending >= before THEN stalled + 1 ELSE stalled
  /\ at' = IF stalled' >= MaxStalled THEN "aborted_stalled" ELSE "check"
  /\ UNCHANGED <<pending, before, log, streak, slept, quotas>>

(* Mutant: no iteration counts as a stall.                                 *)
Judge_NoCount ==
  /\ at = "judge" /\ at' = "check"
  /\ UNCHANGED <<pending, before, stalled, log, streak, slept, quotas>>

(* Mutant: the comparison is the wrong way round.                          *)
Judge_Reversed ==
  /\ at = "judge"
  /\ stalled' = IF pending <= before THEN stalled + 1 ELSE 0
  /\ at' = IF stalled' >= MaxStalled THEN "aborted_stalled" ELSE "check"
  /\ UNCHANGED <<pending, before, log, streak, slept, quotas>>

(* Lines 217-230: no fewer tasks than before is a stall; enough of them    *)
(* end the script, and progress resets the count.                          *)
Judge ==
  /\ at = "judge"
  /\ stalled' = IF pending >= before THEN stalled + 1 ELSE 0
  /\ at' = IF stalled' >= MaxStalled THEN "aborted_stalled" ELSE "check"
  /\ UNCHANGED <<pending, before, log, streak, slept, quotas>>

Ended == {"refused", "completed", "aborted_weekly", "aborted_ceiling",
          "aborted_stalled"}

Init ==
  /\ at = "start"
  /\ pending \in 0 .. MaxPending
  /\ before = 0 /\ stalled = 0 /\ log = Silent
  /\ streak = 0 /\ slept = 0 /\ quotas = 0

Next == Preflight \/ Check \/ RunAgent \/ Detect \/ Judge

Spec == Init /\ [][Next]_vars

(* The script is one process: it goes on, and an agent it started returns  *)
(* (--max-turns bounds it).                                                *)
FairSpec == Spec /\ WF_vars(Next)

-----------------------------------------------------------------------------
(* Types, and the counters within what the loop lets them reach.           *)
TypeOK ==
  /\ at \in {"start", "check", "run", "detect", "judge"} \cup Ended
  /\ pending \in 0 .. MaxPending /\ before \in 0 .. MaxPending
  /\ stalled \in 0 .. MaxStalled
  /\ (stalled = MaxStalled <=> at = "aborted_stalled")
  /\ log \in Logs
  /\ streak \in 0 .. MaxStalled /\ slept \in Nat /\ quotas \in 0 .. MaxQuotas

(* run-tasks.sh:4, "stops when the agent makes no progress N times in a    *)
(* row": that many iterations have just passed without a completed task.   *)
(* An iteration with a quota phrase in its log is not judged, whether it   *)
(* completed a task or not, so that this holds only until the first of     *)
(* those.                                                                  *)
StallsInARow ==
  at = "aborted_stalled" => streak >= MaxStalled \/ quotas > 0

(* run-tasks.sh:25, "Hard ceiling on a single quota-wait".                 *)
SleepWithinCeiling == slept <= MaxQuotaWait

(* With an agent that stops adding tasks some time, and quotas that run    *)
(* out a bounded number of times, the script ends.                         *)
Terminates ==
  <>[](at \in {"detect", "judge"} => pending <= before) => <>(at \in Ended)

(* The iteration completed a task, and a session window that it exhausted  *)
(* reopens soon enough.                                                    *)
Advanced ==
  /\ pending < before /\ ~ log.weekly
  /\ log.reset = None \/ WaitFor(log.reset) <= MaxQuotaWait

(* run-tasks.sh:2, "Picks pending tasks ... stops when no pending remain": *)
(* with an agent that advances in every iteration, a loop that has started *)
(* ends with all tasks completed, waits for its quota included.            *)
DiligentCompletes ==
  [](at = "detect" => Advanced) => (at = "check" ~> at = "completed")
=============================================================================
