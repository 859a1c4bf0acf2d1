--------------------------- MODULE TaskLoopProofs ---------------------------
(***************************************************************************)
(* What scripts/run-tasks.sh guarantees for every value of its options,    *)
(* whatever the agent does to the task file, and under which conditions.   *)
(***************************************************************************)
EXTENDS TaskLoop, TLAPS

LEMMA SilentIsLog == Silent \in Logs
  BY DEF Silent, Logs

LEMMA WaitIsPositive ==
  ASSUME NEW reset \in Offsets
  PROVE  WaitFor(reset) \in Nat
  BY LoopAssumption DEF WaitFor

(* What Detect can do, in the cases the proofs need.                       *)
LEMMA DetectCases ==
  ASSUME TypeOK, Detect
  PROVE  /\ pending' = pending /\ before' = before /\ stalled' = stalled
         /\ log' = log /\ streak' = streak
         /\ quotas' = quotas
         /\ at' \in {"judge", "check", "aborted_weekly", "aborted_ceiling"}
         /\ at' = "judge" => Verdict(log) = ""
         /\ at' = "check" => Verdict(log) = "SESSION"
         /\ at' = "aborted_weekly" => Verdict(log) = "WEEKLY"
         /\ at' = "aborted_ceiling" => Verdict(log) = "SESSION"
         /\ \/ slept' = slept
            \/ slept' = Fallback
            \/ slept' \in Nat /\ slept' <= MaxQuotaWait
  <1>1. Verdict(log) \in {"", "SESSION", "WEEKLY"}
    BY DEF Verdict
  <1>2. log.reset \in Offsets \cup {None}
    BY DEF TypeOK, Logs
  <1>3. CASE Verdict(log) = ""
    BY <1>3 DEF Detect
  <1>4. CASE Verdict(log) = "WEEKLY"
    BY <1>4 DEF Detect
  <1>5. CASE Verdict(log) = "SESSION" /\ log.reset = None
    BY <1>5 DEF Detect, Sleep
  <1>6. CASE Verdict(log) = "SESSION" /\ log.reset /= None
    <2>1. WaitFor(log.reset) \in Nat
      BY <1>2, <1>6, WaitIsPositive
    <2>2. \/ WaitFor(log.reset) > MaxQuotaWait /\ at' = "aborted_ceiling"
             /\ slept' = slept
          \/ /\ ~ (WaitFor(log.reset) > MaxQuotaWait)
             /\ slept' = WaitFor(log.reset) /\ at' = "check"
      BY <1>6 DEF Detect, Sleep
    <2>3. ~ (WaitFor(log.reset) > MaxQuotaWait) => WaitFor(log.reset) <= MaxQuotaWait
      BY <2>1, LoopAssumption
    <2> QED BY <1>6, <2>1, <2>2, <2>3 DEF Detect
  <1> QED BY <1>1, <1>3, <1>4, <1>5, <1>6

(* And what the other steps of an iteration do.                            *)
LEMMA RunCases ==
  ASSUME TypeOK, RunAgent
  PROVE  \E d \in Effects, l \in Logs :
           /\ at = "run" /\ at' = "detect"
           /\ pending' \in 0 .. MaxPending
           /\ pending' = pending + d \/ (~ SameFile /\ pending' = pending)
           /\ streak' = StreakAfter(d)
           /\ log' = l
           /\ quotas' \in 0 .. MaxQuotas
           /\ before' = before /\ stalled' = stalled /\ slept' = slept
  <1>1. PICK d \in Effects, l \in Logs :
          /\ l /= Silent => quotas < MaxQuotas
          /\ pending + d \in 0 .. MaxPending
          /\ pending' = IF SameFile THEN pending + d ELSE pending
          /\ streak' = StreakAfter(d)
          /\ log' = l
          /\ quotas' = IF l = Silent THEN quotas ELSE quotas + 1
    BY DEF RunAgent
  <1>2. pending' \in 0 .. MaxPending
    BY <1>1 DEF TypeOK
  <1>3. quotas' \in 0 .. MaxQuotas
    BY <1>1, LoopAssumption DEF TypeOK
  <1>4. /\ at = "run" /\ at' = "detect"
        /\ before' = before /\ stalled' = stalled /\ slept' = slept
    BY DEF RunAgent
  <1> QED BY <1>1, <1>2, <1>3, <1>4

-----------------------------------------------------------------------------
LEMMA InitTypes == Init => TypeOK
  BY LoopAssumption, SilentIsLog DEF Init, TypeOK, Ended

LEMMA NextTypes == TypeOK /\ [Next]_vars => TypeOK'
  <1> SUFFICES ASSUME TypeOK, [Next]_vars PROVE TypeOK'
    OBVIOUS
  <1>1. CASE Preflight
    BY <1>1 DEF Preflight, TypeOK, Ended
  <1>2. CASE Check
    BY <1>2 DEF Check, TypeOK, Ended
  <1>3. CASE RunAgent
    <2>1. PICK d \in Effects, l \in Logs :
            /\ at = "run" /\ at' = "detect"
            /\ pending' \in 0 .. MaxPending
            /\ streak' = StreakAfter(d)
            /\ log' = l
            /\ quotas' \in 0 .. MaxQuotas
            /\ before' = before /\ stalled' = stalled /\ slept' = slept
      BY <1>3, RunCases
    <2>2. streak' \in 0 .. MaxStalled
      BY <2>1, LoopAssumption DEF TypeOK, StreakAfter
    <2>3. log' \in Logs
      BY <2>1, LoopAssumption
    <2> QED BY <2>1, <2>2, <2>3 DEF TypeOK, Ended
  <1>4. CASE Detect
    <2>1. slept' \in Nat
      BY <1>4, DetectCases, LoopAssumption DEF TypeOK
    <2>2. /\ at = "detect"
          /\ at' \in {"judge", "check", "aborted_weekly", "aborted_ceiling"}
          /\ pending' = pending /\ before' = before /\ stalled' = stalled
          /\ log' = log /\ streak' = streak
          /\ quotas' = quotas
      BY <1>4, DetectCases DEF Detect
    <2> QED BY <2>1, <2>2 DEF TypeOK, Ended
  <1>5. CASE Judge
    <2>1. stalled' = (IF pending >= before THEN stalled + 1 ELSE 0)
          /\ at' = (IF stalled' >= MaxStalled THEN "aborted_stalled" ELSE "check")
          /\ at = "judge"
      BY <1>5 DEF Judge
    <2>2. stalled \in Nat /\ stalled < MaxStalled /\ MaxStalled \in Nat \ {0}
      BY <2>1, LoopAssumption DEF TypeOK
    <2>3. /\ stalled' \in 0 .. MaxStalled
          /\ stalled' = MaxStalled <=> at' = "aborted_stalled"
      BY <2>1, <2>2
    <2> QED BY <1>5, <2>1, <2>3 DEF Judge, TypeOK, Ended
  <1>6. CASE UNCHANGED vars
    BY <1>6 DEF vars, TypeOK
  <1> QED BY <1>1, <1>2, <1>3, <1>4, <1>5, <1>6 DEF Next

(* The counters stay in range, and the loop ends as stalled exactly when   *)
(* the count of stalls has reached --max-stalled.                          *)
THEOREM CountersInRange == Spec => []TypeOK
  BY InitTypes, NextTypes, PTL DEF Spec

-----------------------------------------------------------------------------
(* The ceiling holds for every reset time a log may name.  The only sleep  *)
(* that is not compared with it is the fallback of 15 minutes, so that a   *)
(* --max-quota-wait of 15 or more is never exceeded.                       *)
THEOREM CeilingHolds ==
  ASSUME Fallback <= MaxQuotaWait
  PROVE  Spec => []SleepWithinCeiling
  <1>1. Init => SleepWithinCeiling
    BY LoopAssumption DEF Init, SleepWithinCeiling
  <1>2. TypeOK /\ SleepWithinCeiling /\ [Next]_vars => SleepWithinCeiling'
    <2> SUFFICES ASSUME TypeOK, SleepWithinCeiling, [Next]_vars
                 PROVE  SleepWithinCeiling'
      OBVIOUS
    <2>1. CASE Detect
      BY <2>1, DetectCases DEF SleepWithinCeiling
    <2>2. CASE ~ Detect
      <3>1. slept' = slept
        BY <2>2 DEF Next, vars, Preflight, Check, RunAgent, Judge
      <3> QED BY <3>1 DEF SleepWithinCeiling
    <2> QED BY <2>1, <2>2
  <1> QED BY <1>1, <1>2, CountersInRange, PTL DEF Spec

-----------------------------------------------------------------------------
(* Until the first log with a quota phrase, the stalls counted so far are  *)
(* iterations that have just passed without progress; in the middle of an  *)
(* iteration, this one included if the task file shows none.               *)
StreakCovers ==
  quotas = 0 =>
    /\ at = "run" => before = pending
    /\ at \in {"detect", "judge"} /\ pending >= before => streak > stalled
    /\ at \notin {"detect", "judge"} => streak >= stalled
    /\ log = Silent

(* The agent has run: without a quota phrase so far, the iteration counts  *)
(* in the streak whenever the loop is going to count it as a stall.        *)
LEMMA RunCovers ==
  ASSUME TypeOK, StreakCovers, RunAgent
  PROVE  StreakCovers'
  <1> SUFFICES ASSUME quotas' = 0
               PROVE  /\ at' = "detect" /\ log' = Silent
                      /\ pending' >= before' => streak' > stalled'
    BY DEF StreakCovers
  <1>1. PICK d \in Effects, l \in Logs :
          /\ at = "run" /\ at' = "detect" /\ log' = l
          /\ pending' = IF SameFile THEN pending + d ELSE pending
          /\ streak' = StreakAfter(d)
          /\ quotas' = IF l = Silent THEN quotas ELSE quotas + 1
          /\ before' = before /\ stalled' = stalled
    BY DEF RunAgent
  <1>2. quotas \in Nat
    BY LoopAssumption DEF TypeOK
  <1>3. l = Silent /\ quotas = 0
    BY <1>1, <1>2
  <1>4. before = pending /\ streak >= stalled
    BY <1>1, <1>3 DEF StreakCovers
  <1>5. /\ d \in Int /\ pending \in Int /\ streak \in Nat /\ stalled \in Nat
        /\ stalled < MaxStalled /\ streak <= MaxStalled /\ MaxStalled \in Nat
    BY <1>1, LoopAssumption DEF TypeOK
  <1>6. pending' >= before' => streak' > stalled'
    BY <1>1, <1>4, <1>5 DEF StreakAfter
  <1> QED BY <1>1, <1>3, <1>6

LEMMA JudgeCovers ==
  ASSUME TypeOK, StreakCovers, Judge
  PROVE  StreakCovers'
  <1> SUFFICES ASSUME quotas = 0
               PROVE  StreakCovers'
    BY DEF StreakCovers, Judge
  <1>1. /\ at = "judge" /\ at' \in {"aborted_stalled", "check"}
        /\ stalled' = IF pending >= before THEN stalled + 1 ELSE 0
        /\ streak' = streak /\ log' = log
    BY DEF Judge
  <1>2. streak \in Nat /\ stalled \in Nat
    BY DEF TypeOK
  <1>3. (pending >= before => streak > stalled) /\ log = Silent
    BY <1>1 DEF StreakCovers
  <1>4. streak' >= stalled'
    BY <1>1, <1>2, <1>3
  <1> QED BY <1>1, <1>3, <1>4 DEF StreakCovers

(* For every agent: until the first log with a quota phrase, the loop      *)
(* gives up only after --max-stalled iterations in a row without progress. *)
THEOREM StallsAreConsecutive == Spec => []StallsInARow
  <1>1. Init => StreakCovers
    BY LoopAssumption DEF Init, StreakCovers
  <1>2. TypeOK /\ StreakCovers /\ [Next]_vars => StreakCovers'
    <2> SUFFICES ASSUME TypeOK, StreakCovers, [Next]_vars PROVE StreakCovers'
      OBVIOUS
    <2>1. CASE RunAgent
      BY <2>1, RunCovers
    <2>2. CASE Detect
      <3> SUFFICES ASSUME quotas = 0 PROVE StreakCovers'
        BY <2>2 DEF StreakCovers, Detect
      <3>1. Verdict(log) = ""
        BY DEF StreakCovers, Silent, Verdict
      <3>2. at = "detect" /\ at' = "judge"
        BY <2>2, <3>1 DEF Detect
      <3> QED BY <2>2, <3>2 DEF StreakCovers, Detect
    <2>3. CASE Judge
      BY <2>3, JudgeCovers
    <2>4. CASE Preflight \/ Check
      BY <2>4 DEF Preflight, Check, StreakCovers
    <2>5. CASE UNCHANGED vars
      BY <2>5 DEF vars, StreakCovers
    <2> QED BY <2>1, <2>2, <2>3, <2>4, <2>5 DEF Next
  <1>3. TypeOK /\ StreakCovers => StallsInARow
    <2> SUFFICES ASSUME TypeOK, StreakCovers, at = "aborted_stalled", ~ quotas > 0
                 PROVE  streak >= MaxStalled
      BY DEF StallsInARow
    <2>1. quotas = 0 /\ stalled = MaxStalled
      BY LoopAssumption DEF TypeOK
    <2> QED BY <2>1 DEF StreakCovers
  <1> QED BY <1>1, <1>2, <1>3, CountersInRange, PTL DEF Spec
-----------------------------------------------------------------------------
(* Why the loop ends.  An iteration is followed through its steps, for     *)
(* every value that the counters can have when it begins; what is left to  *)
(* say that the script ends is that counters do not go down for ever.      *)

(* What the two theorems take from ENABLED: the script can go on, and an   *)
(* agent that it started returns.                                          *)
LoopCanGoOn == at \notin Ended => ENABLED <<Next>>_vars

(* The agent has not added tasks, or has completed one.                    *)
NoneAdded == at \in {"detect", "judge"} => pending <= before
Diligent == at = "detect" => Advanced

(* An iteration that began with q phrases in logs, p tasks and s stalls... *)
Begun(q, p, s) == at = "check" /\ quotas = q /\ pending = p /\ stalled = s

Running(q, p, s) ==
  at = "run" /\ before = p /\ quotas = q /\ pending = p /\ stalled = s

Logged(q, p, s) ==
  /\ at = "detect" /\ before = p /\ stalled = s
  /\ quotas = q + 1 \/ (quotas = q /\ log = Silent)

Judged(q, p, s) ==
  at = "judge" /\ before = p /\ stalled = s /\ quotas \in {q, q + 1}

(* ... has counted: a quota phrase more, a task less or a stall more.      *)
Counted(q, p, s) ==
  \/ at \in Ended
  \/ /\ at = "check"
     /\ \/ quotas > q
        \/ quotas = q /\ pending < p
        \/ quotas = q /\ pending = p /\ stalled > s

LEMMA RoundGoesOn ==
  ASSUME TypeOK, Next, NoneAdded, NoneAdded', NEW q \in Nat, NEW p \in Nat, NEW s \in Nat
  PROVE  /\ Begun(q, p, s) => Running(q, p, s)' \/ Counted(q, p, s)'
         /\ Running(q, p, s) => Logged(q, p, s)'
         /\ Logged(q, p, s) => Judged(q, p, s)' \/ Counted(q, p, s)'
         /\ Judged(q, p, s) => Counted(q, p, s)'
  <1> USE DEF Begun, Running, Logged, Judged, Counted
  <1>1. CASE Preflight
    BY <1>1 DEF Preflight
  <1>2. CASE Check
    BY <1>2 DEF Check, Ended, TypeOK
  <1>3. CASE RunAgent
    <2>1. /\ at = "run" /\ at' = "detect" /\ before' = before /\ stalled' = stalled
          /\ \/ quotas' = quotas /\ log' = Silent
             \/ quotas' = quotas + 1
      BY <1>3 DEF RunAgent
    <2> QED BY <2>1
  <1>4. CASE Detect
    <2>1. /\ at = "detect" /\ pending' = pending /\ before' = before
          /\ stalled' = stalled /\ quotas' = quotas
          /\ at' \in {"judge", "check", "aborted_weekly", "aborted_ceiling"}
          /\ at' = "check" => Verdict(log) = "SESSION"
      BY <1>4, DetectCases DEF Detect
    <2>2. log = Silent => at' /= "check"
      BY <2>1 DEF Silent, Verdict
    <2>3. quotas \in Nat
      BY DEF TypeOK
    <2> QED BY <2>1, <2>2, <2>3 DEF Ended
  <1>5. CASE Judge
    <2>1. /\ at = "judge" /\ pending' = pending /\ before' = before /\ quotas' = quotas
          /\ at' \in {"check", "aborted_stalled"}
          /\ pending >= before => stalled' = stalled + 1
      BY <1>5 DEF Judge
    <2>2. pending \in Nat /\ before \in Nat /\ stalled \in Nat /\ quotas \in Nat
      BY DEF TypeOK
    <2>3. pending <= before
      BY <2>1 DEF NoneAdded
    <2>4. pending < before \/ pending = before
      BY <2>2, <2>3
    <2>5. Judged(q, p, s) => Counted(q, p, s)'
      <3> SUFFICES ASSUME Judged(q, p, s) PROVE Counted(q, p, s)'
        OBVIOUS
      <3>1. CASE pending < before
        BY <2>1, <2>2, <3>1 DEF Ended
      <3>2. CASE pending = before
        BY <2>1, <2>2, <3>2 DEF Ended
      <3> QED BY <2>4, <3>1, <3>2
    <2> QED BY <2>1, <2>5
  <1> QED BY <1>1, <1>2, <1>3, <1>4, <1>5 DEF Next

(* run-tasks.sh:166-231.  With an agent that stops adding tasks some time, *)
(* every iteration from then on ends the script or counts: it has one more *)
(* quota phrase, one task less with as many phrases, or one more stall     *)
(* with as many of both.  No iteration leaves all counters as they were.   *)
THEOREM EveryRoundCounts ==
  ASSUME NEW q \in Nat, NEW p \in Nat, NEW s \in Nat
  PROVE  FairSpec /\ []LoopCanGoOn /\ <>[]NoneAdded
           => <>[](Begun(q, p, s) => <>Counted(q, p, s))
  <1>1. TypeOK /\ NoneAdded /\ NoneAdded' /\ [Next]_vars
          => /\ Begun(q, p, s) => Begun(q, p, s)' \/ Running(q, p, s)' \/ Counted(q, p, s)'
             /\ Running(q, p, s) => Running(q, p, s)' \/ Logged(q, p, s)'
             /\ Logged(q, p, s) => Logged(q, p, s)' \/ Judged(q, p, s)' \/ Counted(q, p, s)'
             /\ Judged(q, p, s) => Judged(q, p, s)' \/ Counted(q, p, s)'
    <2>1. UNCHANGED vars
            => /\ Begun(q, p, s) => Begun(q, p, s)'
               /\ Running(q, p, s) => Running(q, p, s)'
               /\ Logged(q, p, s) => Logged(q, p, s)'
               /\ Judged(q, p, s) => Judged(q, p, s)'
      BY DEF vars, Begun, Running, Logged, Judged
    <2> QED BY <2>1, RoundGoesOn
  <1>2. TypeOK /\ NoneAdded /\ NoneAdded' /\ <<Next>>_vars
          => /\ Begun(q, p, s) => Running(q, p, s)' \/ Counted(q, p, s)'
             /\ Running(q, p, s) => Logged(q, p, s)'
             /\ Logged(q, p, s) => Judged(q, p, s)' \/ Counted(q, p, s)'
             /\ Judged(q, p, s) => Counted(q, p, s)'
    BY RoundGoesOn
  <1>3. LoopCanGoOn
          /\ (Begun(q, p, s) \/ Running(q, p, s) \/ Logged(q, p, s) \/ Judged(q, p, s))
          => ENABLED <<Next>>_vars
    BY DEF LoopCanGoOn, Begun, Running, Logged, Judged, Ended
  <1> QED BY <1>1, <1>2, <1>3, CountersInRange, PTL DEF FairSpec, Spec

-----------------------------------------------------------------------------
(* The iterations of an agent that advances, n tasks before each: the      *)
(* agent runs; its log is looked at; what it has done is judged; and the   *)
(* next iteration has fewer tasks, if there are any.                       *)
Waiting(n) == at = "check" /\ pending = n
AtWork(n) == at = "run" /\ before = n
HasWorked(n) == at = "detect" /\ before = n
HasAdvanced(n) == at = "judge" /\ before = n /\ pending < n
FewerLeft(n) == at = "completed" \/ (at = "check" /\ pending < n)

LEMMA AdvanceGoesOn ==
  ASSUME TypeOK, Next, Diligent, NEW n \in Nat
  PROVE  /\ Waiting(n) => AtWork(n)' \/ FewerLeft(n)'
         /\ AtWork(n) => HasWorked(n)'
         /\ HasWorked(n) => HasAdvanced(n)' \/ FewerLeft(n)'
         /\ HasAdvanced(n) => FewerLeft(n)'
  <1> USE DEF Waiting, AtWork, HasWorked, HasAdvanced, FewerLeft
  <1>1. CASE Preflight
    BY <1>1 DEF Preflight
  <1>2. CASE Check
    <2>1. at = "check" /\ at' \in {"run", "completed"} /\ before' = pending
      BY <1>2 DEF Check
    <2> QED BY <2>1
  <1>3. CASE RunAgent
    BY <1>3 DEF RunAgent
  <1>4. CASE Detect
    <2>1. pending < before /\ Verdict(log) /= "WEEKLY"
      BY <1>4 DEF Diligent, Advanced, Detect, Verdict
    <2>2. at' /= "aborted_ceiling"
      <3>1. log.reset \in Offsets \cup {None}
        BY DEF TypeOK, Logs
      <3>2. log.reset /= None
              => WaitFor(log.reset) \in Nat /\ WaitFor(log.reset) <= MaxQuotaWait
        BY <1>4, <3>1, WaitIsPositive DEF Diligent, Advanced, Detect
      <3>3. ~ (log.reset /= None /\ WaitFor(log.reset) > MaxQuotaWait)
        BY <3>2, LoopAssumption
      <3> QED BY <1>4, <2>1, <3>3 DEF Detect, Sleep, Verdict
    <2>3. /\ at = "detect" /\ pending' = pending /\ before' = before
          /\ at' \in {"judge", "check", "aborted_weekly", "aborted_ceiling"}
          /\ at' = "aborted_weekly" => Verdict(log) = "WEEKLY"
      BY <1>4, DetectCases DEF Detect
    <2> QED BY <2>1, <2>2, <2>3
  <1>5. CASE Judge
    <2>1. HasAdvanced(n) => ~ (pending >= before)
      BY DEF TypeOK
    <2>2. HasAdvanced(n) => at' = "check"
      BY <1>5, <2>1, LoopAssumption DEF Judge
    <2> QED BY <1>5, <2>2 DEF Judge
  <1> QED BY <1>1, <1>2, <1>3, <1>4, <1>5 DEF Next

(* run-tasks.sh:2.  An agent that advances in every iteration is never     *)
(* given up on: an iteration with n tasks is followed by one with fewer,   *)
(* waits for a quota included, or by the end with none left.               *)
THEOREM DiligenceAdvances ==
  ASSUME NEW n \in Nat
  PROVE  FairSpec /\ []LoopCanGoOn /\ []Diligent => (Waiting(n) ~> FewerLeft(n))
  <1>1. TypeOK /\ Diligent /\ [Next]_vars
          => /\ Waiting(n) => Waiting(n)' \/ AtWork(n)' \/ FewerLeft(n)'
             /\ AtWork(n) => AtWork(n)' \/ HasWorked(n)'
             /\ HasWorked(n) => HasWorked(n)' \/ HasAdvanced(n)' \/ FewerLeft(n)'
             /\ HasAdvanced(n) => HasAdvanced(n)' \/ FewerLeft(n)'
    <2>1. UNCHANGED vars
            => /\ Waiting(n) => Waiting(n)'
               /\ AtWork(n) => AtWork(n)'
               /\ HasWorked(n) => HasWorked(n)'
               /\ HasAdvanced(n) => HasAdvanced(n)'
      BY DEF vars, Waiting, AtWork, HasWorked, HasAdvanced
    <2> QED BY <2>1, AdvanceGoesOn
  <1>2. TypeOK /\ Diligent /\ <<Next>>_vars
          => /\ Waiting(n) => AtWork(n)' \/ FewerLeft(n)'
             /\ AtWork(n) => HasWorked(n)'
             /\ HasWorked(n) => HasAdvanced(n)' \/ FewerLeft(n)'
             /\ HasAdvanced(n) => FewerLeft(n)'
    BY AdvanceGoesOn
  <1>3. LoopCanGoOn /\ (Waiting(n) \/ AtWork(n) \/ HasWorked(n) \/ HasAdvanced(n))
          => ENABLED <<Next>>_vars
    BY DEF LoopCanGoOn, Waiting, AtWork, HasWorked, HasAdvanced, Ended
  <1> QED BY <1>1, <1>2, <1>3, CountersInRange, PTL DEF FairSpec, Spec
=============================================================================
