--------------------------- MODULE TaskRunProofs ---------------------------
(***************************************************************************)
(* The pipeline of an iteration of run-tasks.sh, for every length of its   *)
(* pipes and whatever the agent prints: what reaches the log, and that the *)
(* loop around it is the loop of TaskLoop.                                 *)
(***************************************************************************)
EXTENDS TaskRun, TaskLoopProofs

(* Unless the formatter has raised, a process ends after the one before it *)
(* and with nothing left to read.                                          *)
Orderly ==
  ~ raised => \A i \in 1 .. 3 :
    i \notin alive => i - 1 \notin alive /\ pos[i] = Behind(i)

PipeInv == PipeTypeOK /\ Orderly

-----------------------------------------------------------------------------
LEMMA BehindIs ==
  ASSUME PipeTypeOK
  PROVE  /\ Behind(1) = Len(printed) /\ Behind(2) = pos[1] /\ Behind(3) = pos[2]
         /\ pos[1] \in Nat /\ pos[2] \in Nat /\ pos[3] \in Nat /\ Len(printed) \in Nat
         /\ pos[1] <= Len(printed) /\ pos[2] <= pos[1] /\ pos[3] <= pos[2]
  <1>1. \A i \in 1 .. 3 : pos[i] <= Behind(i) /\ pos[i] \in Nat
    BY PipelineAssumption DEF PipeTypeOK
  <1>2. Behind(1) = Len(printed) /\ Behind(2) = pos[1] /\ Behind(3) = pos[2]
    BY DEF Behind
  <1>3. Len(printed) \in Nat
    BY DEF PipeTypeOK
  <1> QED BY <1>1, <1>2, <1>3

LEMMA StartsOrderly == PipeStart => PipeInv'
  <1> SUFFICES ASSUME PipeStart PROVE PipeInv'
    OBVIOUS
  <1>1. printed' \in Seq(Lines) /\ Len(printed') = 0
    BY DEF PipeStart
  <1>2. Behind(1)' = 0 /\ Behind(2)' = 0 /\ Behind(3)' = 0
    BY <1>1 DEF PipeStart, Behind
  <1>3. pos' \in [1 .. 3 -> 0 .. MaxLines] /\ \A i \in 1 .. 3 : pos'[i] = 0
    BY PipelineAssumption DEF PipeStart
  <1>4. \A i \in 1 .. 3 : pos'[i] <= Behind(i)' /\ Behind(i)' - pos'[i] <= PipeSize
    BY <1>2, <1>3, PipelineAssumption
  <1>5. PipeTypeOK'
    <2>1. /\ alive' \subseteq 0 .. 3 /\ raised' \in BOOLEAN
          /\ hit' \in {"none", "session", "weekly"}
      BY DEF PipeStart
    <2>2. Len(printed') <= MaxLines
      BY <1>1, PipelineAssumption
    <2> QED BY <1>1, <1>3, <1>4, <2>1, <2>2 DEF PipeTypeOK
  <1>6. Orderly'
    BY DEF PipeStart, Orderly
  <1> QED BY <1>5, <1>6 DEF PipeInv

LEMMA PrintOrderly ==
  ASSUME PipeInv, NEW l \in Lines, PrintLine(l)
  PROVE  PipeInv'
  <1> USE DEF PipeInv
  <1>1. CASE 1 \in alive /\ HasRoom(1) /\ printed' = Append(printed, l) /\ alive' = alive
    <2>1. Len(printed') = Len(printed) + 1 /\ printed' \in Seq(Lines)
      BY <1>1 DEF PipeTypeOK
    <2>2. pos' = pos /\ raised' = raised /\ Len(printed) < MaxLines
          /\ hit' \in {"none", "session", "weekly"}
      BY LinesAssumption DEF PrintLine, PipeTypeOK
    <2>3. Behind(1)' = Behind(1) + 1 /\ Behind(2)' = Behind(2) /\ Behind(3)' = Behind(3)
      BY <2>1, <2>2 DEF Behind
    <2>4. Len(printed') <= MaxLines
      BY <2>1, <2>2, PipelineAssumption DEF PipeTypeOK
    <2>5. \A i \in 1 .. 3 : pos[i] <= Behind(i)' /\ Behind(i)' - pos[i] <= PipeSize
      <3>1. pos[1] <= Behind(1)' /\ Behind(1)' - pos[1] <= PipeSize
        BY <1>1, <2>3, BehindIs, PipelineAssumption DEF HasRoom, PipeTypeOK
      <3>2. pos[2] <= Behind(2)' /\ Behind(2)' - pos[2] <= PipeSize
        BY <2>3 DEF PipeTypeOK
      <3>3. pos[3] <= Behind(3)' /\ Behind(3)' - pos[3] <= PipeSize
        BY <2>3 DEF PipeTypeOK
      <3> QED BY <3>1, <3>2, <3>3
    <2>6. PipeTypeOK'
      BY <1>1, <2>1, <2>2, <2>4, <2>5 DEF PipeTypeOK
    <2>7. Orderly'
      BY <1>1, <2>2, <2>3 DEF Orderly
    <2> QED BY <2>6, <2>7
  <1>2. CASE 1 \notin alive /\ Die(0) /\ printed' = printed
    <2>1. pos' = pos /\ raised' = raised /\ hit' \in {"none", "session", "weekly"}
      BY LinesAssumption DEF PrintLine, PipeTypeOK
    <2>2. PipeTypeOK'
      BY <1>2, <2>1 DEF PipeTypeOK, Behind, Die
    <2>3. Orderly'
      BY <1>2, <2>1 DEF Orderly, Behind, Die
    <2> QED BY <2>2, <2>3
  <1> QED BY <1>1, <1>2 DEF PrintLine

LEMMA ExitOrderly ==
  ASSUME PipeInv, AgentExits
  PROVE  PipeInv'
  BY DEF PipeInv, AgentExits, Die, PipeTypeOK, Orderly, Behind

(* Process i passes a line on.                                             *)
LEMMA MoveOrderly ==
  ASSUME PipeInv, NEW i \in 1 .. 3, i \in alive, HasInput(i),
         i = 3 \/ (i + 1 \in alive /\ HasRoom(i + 1)),
         pos' = [pos EXCEPT ![i] = @ + 1], UNCHANGED <<printed, alive, hit, raised>>
  PROVE  PipeInv'
  <1> USE DEF PipeInv
  <1>1. pos'[i] = pos[i] + 1 /\ \A j \in 1 .. 3 : j /= i => pos'[j] = pos[j]
    BY DEF PipeTypeOK
  <1>2. /\ Behind(1)' = Len(printed) /\ Behind(2)' = pos'[1] /\ Behind(3)' = pos'[2]
    BY DEF Behind
  <1>3. pos[i] + 1 <= Behind(i)
    BY BehindIs DEF HasInput
  <1>4. \A j \in 1 .. 3 : Behind(j) \in Nat /\ Behind(j) - pos[j] <= PipeSize
    BY BehindIs DEF PipeTypeOK
  <1>5. \A j \in 1 .. 3 : pos'[j] <= Behind(j)' /\ Behind(j)' - pos'[j] <= PipeSize
    <2>1. CASE i = 1
      BY <2>1, <1>1, <1>2, <1>3, <1>4, BehindIs, PipelineAssumption DEF HasRoom
    <2>2. CASE i = 2
      BY <2>2, <1>1, <1>2, <1>3, <1>4, BehindIs, PipelineAssumption DEF HasRoom
    <2>3. CASE i = 3
      BY <2>3, <1>1, <1>2, <1>3, <1>4, BehindIs, PipelineAssumption
    <2> QED BY <2>1, <2>2, <2>3
  <1>6. pos' \in [1 .. 3 -> 0 .. MaxLines]
    <2>1. Len(printed) <= MaxLines /\ pos \in [1 .. 3 -> 0 .. MaxLines]
      BY DEF PipeTypeOK
    <2>2. Behind(i) <= Len(printed) /\ pos[i] \in Nat /\ Behind(i) \in Nat
      BY BehindIs
    <2>3. pos[i] + 1 \in 0 .. MaxLines
      BY <1>3, <2>1, <2>2, BehindIs, PipelineAssumption
    <2> QED BY <2>1, <2>3
  <1>7. PipeTypeOK'
    BY <1>5, <1>6 DEF PipeTypeOK
  <1>8. Orderly'
    <2> SUFFICES ASSUME ~ raised, NEW j \in 1 .. 3, j \notin alive
                 PROVE  j - 1 \notin alive /\ pos'[j] = Behind(j)'
      BY DEF Orderly
    <2>1. j - 1 \notin alive /\ pos[j] = Behind(j)
      BY DEF Orderly
    <2>2. j /= i /\ j /= i + 1
      BY <2>1
    <2>3. pos'[j] = pos[j] /\ Behind(j)' = Behind(j)
      BY <1>1, <1>2, <2>2, BehindIs
    <2> QED BY <2>1, <2>3
  <1> QED BY <1>7, <1>8

(* Process i ends, with nothing to read or with a formatter that raised.   *)
LEMMA EndOrderly ==
  ASSUME PipeInv, NEW i \in 1 .. 3, Die(i), UNCHANGED <<printed, pos, hit>>,
         raised' \in BOOLEAN, raised => raised',
         ~ raised' => i - 1 \notin alive /\ pos[i] = Behind(i)
  PROVE  PipeInv'
  <1> USE DEF PipeInv
  <1>1. \A j \in 1 .. 3 : Behind(j)' = Behind(j)
    BY DEF Behind
  <1>2. PipeTypeOK'
    BY <1>1 DEF PipeTypeOK, Die
  <1>3. Orderly'
    BY <1>1 DEF Orderly, Die, PipeTypeOK
  <1> QED BY <1>2, <1>3

LEMMA FlowOrderly == PipeInv /\ Flow => PipeInv'
  <1> SUFFICES ASSUME PipeInv, Flow PROVE PipeInv'
    OBVIOUS
  <1>1. ASSUME NEW i \in Tees, Copy(i) PROVE PipeInv'
    <2>1. i \in 1 .. 3 /\ i + 1 \in 1 .. 3 /\ raised \in BOOLEAN
      BY DEF Tees, PipeInv, PipeTypeOK
    <2>2. CASE i + 1 \in alive /\ HasRoom(i + 1) /\ pos' = [pos EXCEPT ![i] = @ + 1]
               /\ UNCHANGED alive
      BY <1>1, <2>1, <2>2, MoveOrderly DEF Copy
    <2>3. CASE i + 1 \notin alive /\ Die(i) /\ UNCHANGED pos
      <3>1. raised
        BY <1>1, <2>1, <2>3 DEF PipeInv, Orderly, Copy
      <3> QED BY <1>1, <2>1, <2>3, <3>1, EndOrderly DEF Copy
    <2> QED BY <1>1, <2>2, <2>3 DEF Copy
  <1>2. CASE FormatEvent
    <2>1. CASE Formatter \in alive /\ HasInput(Formatter)
               /\ pos' = [pos EXCEPT ![3] = @ + 1] /\ UNCHANGED <<alive, raised>>
               /\ UNCHANGED <<printed, hit>>
      BY <2>1, MoveOrderly DEF Formatter
    <2>2. CASE Die(Formatter) /\ raised' = TRUE /\ UNCHANGED <<printed, pos, hit>>
      BY <2>2, EndOrderly DEF Formatter
    <2> QED BY <1>2, <2>1, <2>2 DEF FormatEvent
  <1>3. ASSUME NEW i \in 1 .. 3, EndOfInput(i) PROVE PipeInv'
    <2>1. pos[i] = Behind(i) /\ raised \in BOOLEAN
      BY <1>3, BehindIs DEF EndOfInput, HasInput, PipeInv, PipeTypeOK
    <2> QED BY <1>3, <2>1, EndOrderly DEF EndOfInput
  <1> QED BY <1>1, <1>2, <1>3 DEF Flow

-----------------------------------------------------------------------------
(* The loop's state while the pipeline runs.                               *)
LoopTyped ==
  /\ pending \in 0 .. MaxPending /\ before \in 0 .. MaxPending
  /\ stalled \in 0 .. MaxStalled - 1
  /\ log \in Logs
  /\ streak \in 0 .. MaxStalled /\ slept \in Nat /\ quotas \in 0 .. MaxQuotas

(* What the agent has done to the task file since it was counted.          *)
WorkKnown ==
  /\ at = "run" \/ (at = "pipe" /\ ~ worked) => pending = before
  /\ at = "pipe" => /\ pending - before \in Effects
                    /\ SameFile \/ pending = before

Phrase == \E n \in 1 .. Len(printed) : printed[n].says /= {}

(* A quota that the agent has run into is one that its lines report, and   *)
(* the line is lost only if the formatter has raised.                      *)
HitKnown ==
  /\ hit /= "none" /\ ~ raised => \E n \in 1 .. Len(printed) : printed[n].quota = hit
  /\ at = "pipe" /\ Phrase => quotas < MaxQuotas

(* Outside of an iteration's pipeline all its processes have ended, and    *)
(* the log that is looked at is its log.                                   *)
LogKnown ==
  /\ at /= "pipe" => alive = {}
  /\ at = "detect" => /\ log.weekly = InLog("weekly")
                      /\ log.session = InLog("session")

(* No quota is judged, and a weekly cap nothing but the end.               *)
QuotasHeeded == QuotaNotJudged /\ WeeklyCapEnds

RunInv ==
  /\ at = "pipe" => LoopTyped
  /\ at /= "pipe" => TypeOK
  /\ PipeInv /\ WorkKnown /\ HitKnown /\ LogKnown /\ QuotasHeeded

-----------------------------------------------------------------------------
LEMMA InitRun == RunInit => RunInv
  <1> SUFFICES ASSUME RunInit PROVE RunInv
    OBVIOUS
  <1>1. TypeOK /\ at = "start"
    BY InitTypes DEF RunInit, Init
  <1>2. PipeTypeOK
    <2>1. printed \in Seq(Lines) /\ Len(printed) = 0
      BY DEF RunInit
    <2>2. Behind(1) = 0 /\ Behind(2) = 0 /\ Behind(3) = 0
      BY <2>1 DEF RunInit, Behind
    <2>3. pos \in [1 .. 3 -> 0 .. MaxLines] /\ \A i \in 1 .. 3 : pos[i] = 0
      BY PipelineAssumption DEF RunInit
    <2>4. \A i \in 1 .. 3 : pos[i] <= Behind(i) /\ Behind(i) - pos[i] <= PipeSize
      BY <2>2, <2>3, PipelineAssumption
    <2>5. /\ alive \subseteq 0 .. 3 /\ raised \in BOOLEAN
          /\ hit \in {"none", "session", "weekly"}
      BY DEF RunInit
    <2>6. Len(printed) <= MaxLines
      BY <2>1, PipelineAssumption
    <2> QED BY <2>1, <2>3, <2>4, <2>5, <2>6 DEF PipeTypeOK
  <1>3. Orderly
    BY DEF RunInit, Orderly, Behind
  <1>4. WorkKnown /\ HitKnown /\ LogKnown /\ QuotasHeeded
    BY <1>1, LoopAssumption
       DEF RunInit, WorkKnown, HitKnown, Phrase, LogKnown, QuotasHeeded, QuotaNotJudged, WeeklyCapEnds
  <1> QED BY <1>1, <1>2, <1>3, <1>4 DEF RunInv, PipeInv

LEMMA StartRuns ==
  ASSUME RunInv, StartPipeline
  PROVE  RunInv'
  <1>1. at = "run" /\ at' = "pipe" /\ pending = before /\ TypeOK
    BY DEF StartPipeline, RunInv, WorkKnown
  <1>2. LoopTyped'
    <2>1. stalled \in 0 .. MaxStalled - 1
      BY <1>1, LoopAssumption DEF TypeOK
    <2> QED BY <1>1, <2>1 DEF StartPipeline, TypeOK, LoopTyped
  <1>3. PipeInv'
    BY StartsOrderly DEF StartPipeline
  <1>4. WorkKnown'
    BY <1>1, RunAssumption DEF StartPipeline, WorkKnown, TypeOK
  <1>5. hit' = "none" /\ Len(printed') = 0
    BY DEF StartPipeline, PipeStart
  <1>6. HitKnown' /\ LogKnown' /\ QuotasHeeded'
    BY <1>1, <1>5, LoopAssumption DEF HitKnown, Phrase, LogKnown, QuotasHeeded, QuotaNotJudged, WeeklyCapEnds
  <1> QED BY <1>1, <1>2, <1>3, <1>4, <1>6 DEF RunInv

LEMMA EditRuns ==
  ASSUME RunInv, EditTasks
  PROVE  RunInv'
  <1>1. at = "pipe" /\ at' = "pipe" /\ pending = before /\ worked' = TRUE
    BY DEF EditTasks, RunInv, WorkKnown
  <1>2. PICK d \in Effects :
          /\ pending + d \in 0 .. MaxPending
          /\ pending' = IF SameFile THEN pending + d ELSE pending
    BY DEF EditTasks
  <1>3. UNCHANGED <<before, stalled, log, streak, slept, quotas>>
        /\ UNCHANGED <<printed, pos, alive, hit, raised>>
    BY DEF EditTasks, pipeVars
  <1>4. LoopTyped /\ LoopTyped'
    BY <1>1, <1>2, <1>3 DEF RunInv, LoopTyped
  <1>5. WorkKnown'
    <2>1. pending \in Int /\ before \in Int /\ d \in Int
      BY <1>4, LoopAssumption DEF LoopTyped
    <2>2. pending' - before = IF SameFile THEN d ELSE 0
      BY <1>1, <1>2, <2>1, LoopAssumption
    <2> QED BY <1>1, <1>2, <1>3, <2>1, <2>2, RunAssumption DEF WorkKnown
  <1>6. PipeInv' /\ HitKnown' /\ LogKnown' /\ QuotasHeeded'
    BY <1>1, <1>3 DEF RunInv, PipeInv, PipeTypeOK, Orderly, Behind, HitKnown, Phrase,
                      LogKnown, QuotasHeeded, QuotaNotJudged, WeeklyCapEnds
  <1> QED BY <1>1, <1>4, <1>5, <1>6 DEF RunInv

(* Steps of the pipeline alone.                                            *)
LEMMA PipeRuns ==
  ASSUME RunInv, at = "pipe", UNCHANGED <<loopVars, worked>>, PipeInv', HitKnown'
  PROVE  RunInv'
  <1>1. at' = "pipe"
    BY DEF loopVars
  <1>2. LoopTyped' /\ WorkKnown'
    BY <1>1 DEF loopVars, RunInv, LoopTyped, WorkKnown
  <1>3. LogKnown' /\ QuotasHeeded'
    BY <1>1 DEF RunInv, LogKnown, QuotasHeeded, QuotaNotJudged, WeeklyCapEnds,
                loopVars
  <1> QED BY <1>1, <1>2, <1>3 DEF RunInv

LEMMA PrintRuns ==
  ASSUME RunInv, PrintSome
  PROVE  RunInv'
  <1>1. PICK l \in Lines : (l.says /= {} => quotas < MaxQuotas) /\ PrintLine(l)
    BY DEF PrintSome
  <1>2. at = "pipe" /\ at' = "pipe" /\ quotas' = quotas /\ raised' = raised
    BY <1>1 DEF PrintSome, loopVars, PrintLine
  <1>3. PipeInv'
    BY <1>1, PrintOrderly DEF RunInv
  <1>4. hit' = IF l.quota = "none" \/ hit = "weekly" THEN hit ELSE l.quota
    BY <1>1 DEF PrintLine
  <1>5. HitKnown
    BY DEF RunInv
  <1>6. ASSUME printed' = Append(printed, l) PROVE HitKnown'
    <2>1. /\ Len(printed') = Len(printed) + 1 /\ Len(printed) \in Nat
          /\ printed'[Len(printed) + 1] = l
          /\ \A n \in 1 .. Len(printed) : printed'[n] = printed[n]
      BY <1>6 DEF RunInv, PipeInv, PipeTypeOK
    <2>2. Phrase' => Phrase \/ l.says /= {}
      BY <2>1 DEF Phrase
    <2>3. Phrase' => quotas < MaxQuotas
      BY <1>1, <1>2, <1>5, <2>2 DEF HitKnown
    <2>4. ASSUME hit' /= "none", ~ raised
          PROVE  \E n \in 1 .. Len(printed') : printed'[n].quota = hit'
      <3>1. CASE hit' = hit
        <4>1. PICK n \in 1 .. Len(printed) : printed[n].quota = hit
          BY <1>5, <2>4, <3>1 DEF HitKnown
        <4>2. n \in 1 .. Len(printed') /\ printed'[n].quota = hit'
          BY <2>1, <3>1, <4>1
        <4> QED BY <4>2
      <3>2. CASE hit' = l.quota
        <4>1. Len(printed) + 1 \in 1 .. Len(printed')
          BY <2>1
        <4>2. printed'[Len(printed) + 1].quota = hit'
          BY <2>1, <3>2
        <4> QED BY <4>1, <4>2
      <3> QED BY <1>4, <3>1, <3>2
    <2>5. hit' /= "none" /\ ~ raised' =>
            \E n \in 1 .. Len(printed') : printed'[n].quota = hit'
      BY <1>2, <2>4
    <2> QED BY <1>2, <2>3, <2>5 DEF HitKnown
  <1>7. ASSUME 1 \notin alive, printed' = printed PROVE HitKnown'
    <2>1. raised
      <3>1. 0 \in alive
        BY <1>1 DEF PrintLine
      <3> QED BY <1>7, <3>1 DEF RunInv, PipeInv, Orderly
    <2>2. Phrase' = Phrase
      BY <1>7 DEF Phrase
    <2>3. Phrase' => quotas < MaxQuotas
      BY <1>2, <1>5, <2>2 DEF HitKnown
    <2>4. raised'
      BY <1>2, <2>1
    <2> QED BY <1>2, <2>3, <2>4 DEF HitKnown
  <1>9. printed' = Append(printed, l) \/ (1 \notin alive /\ printed' = printed)
    BY <1>1 DEF PrintLine
  <1>10. HitKnown'
    BY <1>6, <1>7, <1>9
  <1> QED BY <1>2, <1>3, <1>10, PipeRuns DEF PrintSome

LEMMA FlowRuns ==
  ASSUME RunInv, Finish \/ FlowOn
  PROVE  RunInv'
  <1>1. at = "pipe" /\ UNCHANGED <<loopVars, worked>> /\ (AgentExits \/ Flow)
    BY DEF Finish, FlowOn
  <1>2. PipeInv'
    BY <1>1, ExitOrderly, FlowOrderly DEF RunInv
  <1>3. printed' = printed /\ hit' = hit /\ (raised => raised')
    BY <1>1 DEF AgentExits, Flow, Copy, FormatEvent, EndOfInput
  <1>4. HitKnown'
    BY <1>1, <1>3 DEF RunInv, HitKnown, Phrase, loopVars
  <1> QED BY <1>1, <1>2, <1>4, PipeRuns

(* When all processes have ended, what the log lacks is a broken pipe's.   *)
LEMMA AllThrough ==
  ASSUME PipeInv, alive = {}, ~ raised
  PROVE  \A i \in 1 .. 3 : pos[i] = Len(printed)
  <1>1. \A i \in 1 .. 3 : pos[i] = Behind(i)
    BY DEF PipeInv, Orderly
  <1> QED BY <1>1, BehindIs DEF PipeInv

LEMMA LoggedIsPrinted ==
  ASSUME PipeInv, NEW phrase, InLog(phrase)
  PROVE  Phrase
  <1>1. PICK n \in 1 .. pos[2] : phrase \in printed[n].says
    BY DEF InLog
  <1>2. n \in 1 .. Len(printed)
    BY BehindIs DEF PipeInv
  <1> QED BY <1>1, <1>2 DEF Phrase

(* The log that EndPipeline finds is one that RunAgent may leave.          *)
LEMMA EndLog ==
  ASSUME RunInv, EndPipeline
  PROVE  /\ log' \in Logs
         /\ log'.weekly = InLog("weekly") /\ log'.session = InLog("session")
         /\ log' /= Silent => quotas < MaxQuotas
  <1>1. PICK reset \in Offsets \cup {None} :
          /\ reset /= None => InLog("session")
          /\ log' = [weekly |-> InLog("weekly"), session |-> InLog("session"),
                     reset |-> reset]
    BY DEF EndPipeline
  <1>2. InLog("weekly") \in BOOLEAN /\ InLog("session") \in BOOLEAN
    BY DEF InLog
  <1>3. log' \in Logs /\ log'.weekly = InLog("weekly")
        /\ log'.session = InLog("session") /\ log'.reset = reset
    BY <1>1, <1>2 DEF Logs
  <1>4. log' /= Silent => InLog("weekly") \/ InLog("session")
    <2>1. ~ InLog("weekly") /\ ~ InLog("session") =>
            InLog("weekly") = FALSE /\ InLog("session") = FALSE /\ reset = None
      BY <1>1, <1>2
    <2> QED BY <1>1, <2>1 DEF Silent
  <1>5. Phrase => quotas < MaxQuotas
    BY DEF RunInv, HitKnown, EndPipeline
  <1> QED BY <1>3, <1>4, <1>5, LoggedIsPrinted DEF RunInv

LEMMA EndRuns ==
  ASSUME RunInv, EndPipeline
  PROVE  RunInv'
  <1>1. /\ at = "pipe" /\ at' = "detect" /\ LoopTyped /\ alive = {}
        /\ UNCHANGED <<pending, before, stalled, slept>>
        /\ UNCHANGED <<printed, pos, alive, hit, raised>>
    BY DEF EndPipeline, RunInv, PipeEnded, pipeVars
  <1>2. TypeOK'
    <2>1. streak' \in 0 .. MaxStalled
      BY <1>1, LoopAssumption DEF EndPipeline, StreakAfter, LoopTyped
    <2>2. quotas' \in 0 .. MaxQuotas
      BY <1>1, EndLog, LoopAssumption DEF EndPipeline, LoopTyped
    <2>3. stalled \in 0 .. MaxStalled /\ stalled /= MaxStalled
      BY <1>1, LoopAssumption DEF LoopTyped
    <2> QED BY <1>1, <2>1, <2>2, <2>3, EndLog DEF TypeOK, LoopTyped, Ended
  <1>3. PipeInv'
    BY <1>1 DEF RunInv, PipeInv, PipeTypeOK, Orderly, Behind
  <1>4. WorkKnown' /\ QuotasHeeded'
    BY <1>1 DEF WorkKnown, QuotasHeeded, QuotaNotJudged, WeeklyCapEnds
  <1>5. HitKnown'
    BY <1>1 DEF RunInv, HitKnown, Phrase
  <1>6. LogKnown'
    BY <1>1, EndLog DEF LogKnown, InLog
  <1> QED BY <1>1, <1>2, <1>3, <1>4, <1>5, <1>6 DEF RunInv

LEMMA LoopRuns ==
  ASSUME RunInv, LoopStep, UNCHANGED <<pipeVars, worked>>
  PROVE  RunInv'
  <1>1. at /= "pipe" /\ at' /= "pipe" /\ at' /= "detect" /\ TypeOK /\ alive = {}
    <2>1. at \in {"start", "check", "detect", "judge"}
      BY DEF LoopStep, Preflight, Check, Detect, Judge
    <2>2. TypeOK /\ alive = {}
      BY <2>1 DEF RunInv, LogKnown
    <2>3. at' \notin {"pipe", "detect"}
      BY <2>2, DetectCases DEF LoopStep, Preflight, Check, Judge
    <2> QED BY <2>1, <2>2, <2>3
  <1>2. UNCHANGED <<printed, pos, alive, hit, raised, worked>>
    BY DEF pipeVars
  <1>3. TypeOK'
    BY <1>1, NextTypes DEF LoopStep, Next
  <1>4. PipeInv'
    BY <1>2 DEF RunInv, PipeInv, PipeTypeOK, Orderly, Behind
  <1>5. WorkKnown'
    BY <1>1, DetectCases DEF LoopStep, Preflight, Check, Judge, WorkKnown
  <1>6. HitKnown'
    BY <1>1, <1>2 DEF RunInv, HitKnown, Phrase
  <1>7. LogKnown'
    BY <1>1, <1>2 DEF LogKnown
  <1>8. ASSUME Detect, hit /= "none", ~ raised
        PROVE  InLog(hit) /\ hit \in {"session", "weekly"}
    <2>1. PICK n \in 1 .. Len(printed) : printed[n].quota = hit
      BY <1>8 DEF RunInv, HitKnown
    <2>2. hit \in printed[n].says
      BY <1>8, <2>1, LinesAssumption DEF RunInv, PipeInv, PipeTypeOK
    <2>3. hit \in {"session", "weekly"}
      BY <1>8 DEF RunInv, PipeInv, PipeTypeOK
    <2> QED BY <1>1, <1>8, <2>2, <2>3, AllThrough DEF RunInv, InLog
  <1>9. QuotaNotJudged'
    <2> SUFFICES ASSUME at' = "judge", hit /= "none", ~ raised PROVE FALSE
      BY <1>2 DEF QuotaNotJudged
    <2>1. Detect /\ at = "detect"
      BY DEF LoopStep, Preflight, Check, Detect, Judge
    <2>2. Verdict(log) = ""
      BY <1>1, <2>1, DetectCases
    <2>3. log.weekly \/ log.session
      BY <1>8, <2>1 DEF RunInv, LogKnown
    <2> QED BY <2>2, <2>3 DEF Verdict
  <1>10. WeeklyCapEnds'
    <2> SUFFICES ASSUME hit = "weekly", ~ raised PROVE at' = "aborted_weekly"
      BY <1>2 DEF WeeklyCapEnds
    <2>1. Detect /\ at = "detect"
      BY <1>1 DEF RunInv, QuotasHeeded, WeeklyCapEnds, LoopStep, Preflight, Check,
                  Detect, Judge
    <2>2. Verdict(log) = "WEEKLY"
      BY <1>8, <2>1 DEF RunInv, LogKnown, Verdict
    <2> QED BY <1>1, <2>1, <2>2, DetectCases
  <1> QED
    BY <1>1, <1>3, <1>4, <1>5, <1>6, <1>7, <1>9, <1>10 DEF RunInv, QuotasHeeded

LEMMA NextRun == RunInv /\ [RunNext]_runVars => RunInv'
  <1> SUFFICES ASSUME RunInv, [RunNext]_runVars PROVE RunInv'
    OBVIOUS
  <1>1. CASE UNCHANGED runVars
    <2>1. UNCHANGED <<at, pending, before, stalled, log, streak, slept, quotas,
                      printed, pos, alive, hit, raised, worked>>
      BY <1>1 DEF runVars
    <2>2. TypeOK' = TypeOK /\ LoopTyped' = LoopTyped /\ QuotasHeeded' = QuotasHeeded
      BY <2>1 DEF TypeOK, LoopTyped, QuotasHeeded, QuotaNotJudged, WeeklyCapEnds
    <2>3. PipeInv'
      BY <2>1 DEF RunInv, PipeInv, PipeTypeOK, Orderly, Behind
    <2>4. WorkKnown' /\ HitKnown' /\ LogKnown'
      BY <2>1 DEF RunInv, WorkKnown, HitKnown, Phrase, LogKnown, InLog
    <2> QED BY <2>1, <2>2, <2>3, <2>4 DEF RunInv
  <1> QED BY <1>1, LoopRuns, StartRuns, EditRuns, PrintRuns, FlowRuns, EndRuns DEF RunNext

THEOREM RunCorrect == RunSpec => []RunInv
  BY InitRun, NextRun, PTL DEF RunSpec

-----------------------------------------------------------------------------
(* run-tasks.sh:206.  Whatever the agent prints and however short the      *)
(* pipes are, the log that detect_quota.py reads has every line, unless    *)
(* the formatter has raised.                                               *)
THEOREM EveryLineDelivered == RunSpec => []AllDelivered
  <1>1. RunInv => AllDelivered
    BY AllThrough DEF RunInv, LogKnown, AllDelivered
  <1> QED BY <1>1, RunCorrect, PTL

(* run-tasks.sh:202.  So an iteration whose agent has run into a quota is  *)
(* judged only if the formatter has raised in it.                          *)
THEOREM QuotaSparesJudgement == RunSpec => []QuotaNotJudged
  <1>1. RunInv => QuotaNotJudged
    BY DEF RunInv, QuotasHeeded
  <1> QED BY <1>1, RunCorrect, PTL

(* run-tasks.sh:18.  And a weekly cap ends the loop there and then, however *)
(* the agent goes on about other quotas, unless the formatter has raised.  *)
THEOREM WeeklyCapEndsTheLoop == RunSpec => []WeeklyCapEnds
  <1>1. RunInv => WeeklyCapEnds
    BY DEF RunInv, QuotasHeeded
  <1> QED BY <1>1, RunCorrect, PTL

-----------------------------------------------------------------------------
LEMMA EndIsRunAgent ==
  ASSUME RunInv, EndPipeline
  PROVE  Loop!RunAgent
  <1> DEFINE d == pending - before
  <1>1. /\ at = "pipe" /\ at' = "detect"
        /\ pending' = pending /\ before' = before /\ stalled' = stalled /\ slept' = slept
        /\ streak' = StreakAfter(d)
        /\ quotas' = IF log' = Silent THEN quotas ELSE quotas + 1
    BY DEF EndPipeline
  <1>2. LoopTyped /\ d \in Effects /\ (SameFile \/ pending = before)
    BY <1>1 DEF RunInv, WorkKnown, HitKnown
  <1>3. /\ before + d \in 0 .. MaxPending
        /\ pending = IF SameFile THEN before + d ELSE before
    BY <1>2 DEF LoopTyped
  <1>4. log' \in Loop!Logs /\ Loop!Silent = Silent
        /\ (log' /= Silent => quotas < MaxQuotas)
    BY EndLog DEF Loop!Logs, Logs, Loop!Silent, Silent
  <1>5. Loop!StreakAfter(d) = StreakAfter(d)
    BY DEF Loop!StreakAfter, StreakAfter
  <1> HIDE DEF d
  <1> QED BY <1>1, <1>2, <1>3, <1>4, <1>5 DEF Loop!RunAgent

LEMMA StepImplementsLoop == RunInv /\ [RunNext]_runVars => [Loop!Next]_Loop!vars
  <1> SUFFICES ASSUME RunInv, [RunNext]_runVars
               PROVE  Loop!Next \/ UNCHANGED Loop!vars
    OBVIOUS
  <1>1. CASE StartPipeline
    BY <1>1 DEF StartPipeline, RunInv, WorkKnown, Loop!vars
  <1>2. CASE EditTasks \/ PrintSome \/ Finish \/ FlowOn
    BY <1>2 DEF EditTasks, PrintSome, Finish, FlowOn, loopVars, Loop!vars
  <1>3. CASE EndPipeline
    BY <1>3, EndIsRunAgent DEF Loop!Next
  <1>4. CASE LoopStep
    <2>1. at /= "pipe" /\ at' /= "pipe" /\ TypeOK
      BY <1>4, DetectCases DEF RunInv, LoopStep, Preflight, Check, Detect, Judge
    <2>2. CASE Preflight
      BY <2>1, <2>2 DEF Preflight, Loop!Preflight, Loop!Next
    <2>3. CASE Check
      BY <2>1, <2>3 DEF Check, Loop!Check, Loop!Next
    <2>4. CASE Detect
      BY <2>1, <2>4 DEF Detect, Loop!Detect, Verdict, Loop!Verdict, Sleep, Loop!Sleep,
                        WaitFor, Loop!WaitFor, Loop!Next
    <2>5. CASE Judge
      BY <2>1, <2>5 DEF Judge, Loop!Judge, Loop!Next
    <2> QED BY <1>4, <2>2, <2>3, <2>4, <2>5 DEF LoopStep
  <1>5. CASE UNCHANGED runVars
    BY <1>5 DEF runVars, Loop!vars
  <1> QED BY <1>1, <1>2, <1>3, <1>4, <1>5 DEF RunNext

(* The four processes of an iteration, interleaved line by line, are one   *)
(* step of the loop: TaskRun implements TaskLoop.                          *)
THEOREM PipelineImplementsLoop == RunSpec => ImplementsLoop
  <1>1. RunInit => Loop!Init
    BY DEF RunInit, Init, Loop!Init, Silent, Loop!Silent
  <1> QED BY <1>1, StepImplementsLoop, RunCorrect, PTL
          DEF RunSpec, ImplementsLoop, Loop!Spec
-----------------------------------------------------------------------------
(* Why the pipeline ends.  Somebody can always go on: full pipes and dead  *)
(* readers never leave everyone waiting for everyone.                      *)
CanCopy(i) == i \in alive /\ HasInput(i) /\ (i + 1 \in alive => HasRoom(i + 1))
CanEnd(i) == i \in alive /\ i - 1 \notin alive /\ ~ HasInput(i)
CanFlow ==
  \/ CanCopy(1) \/ CanCopy(2) \/ (Formatter \in alive /\ HasInput(Formatter))
  \/ \E i \in 1 .. 3 : CanEnd(i)

LEMMA NobodyStuck ==
  ASSUME PipeInv, 0 \notin alive, alive /= {}
  PROVE  CanFlow
  <1> USE DEF CanFlow, CanCopy, CanEnd, HasInput, HasRoom, Formatter
  <1>1. /\ Behind(1) = Len(printed) /\ Behind(2) = pos[1] /\ Behind(3) = pos[2]
        /\ pos[1] \in Nat /\ pos[2] \in Nat /\ pos[3] \in Nat /\ Len(printed) \in Nat
        /\ pos[1] <= Len(printed) /\ pos[2] <= pos[1] /\ pos[3] <= pos[2]
    BY BehindIs DEF PipeInv
  <1>2. 1 \in alive \/ 2 \in alive \/ 3 \in alive
    <2>1. PICK x \in alive : TRUE
      OBVIOUS
    <2>2. x \in 0 .. 3 /\ x /= 0
      BY <2>1 DEF PipeInv, PipeTypeOK
    <2> QED BY <2>1, <2>2
  <1>3. PipeSize \in Nat /\ PipeSize >= 1
    BY PipelineAssumption
  <1>4. CASE 3 \in alive /\ pos[3] < pos[2]
    BY <1>1, <1>4
  <1>5. CASE 2 \in alive /\ pos[2] < pos[1] /\ (3 \in alive => pos[3] = pos[2])
    BY <1>1, <1>3, <1>5
  <1>6. CASE 1 \in alive /\ pos[1] < Len(printed) /\ (2 \in alive => pos[2] = pos[1])
    BY <1>1, <1>3, <1>6
  <1>7. CASE /\ 1 \in alive => pos[1] = Len(printed)
             /\ 2 \in alive => pos[2] = pos[1]
             /\ 3 \in alive => pos[3] = pos[2]
    <2>1. CASE 1 \in alive
      BY <1>1, <1>7, <2>1
    <2>2. CASE 1 \notin alive /\ 2 \in alive
      BY <1>1, <1>7, <2>2
    <2>3. CASE 1 \notin alive /\ 2 \notin alive /\ 3 \in alive
      BY <1>1, <1>7, <2>3
    <2> QED BY <1>2, <2>1, <2>2, <2>3
  <1> QED BY <1>1, <1>4, <1>5, <1>6, <1>7

(* What the three processes behind the agent have still to do: lines to    *)
(* pass on, and their own ends.                                            *)
Alive(i) == IF i \in alive THEN 1 ELSE 0
Left ==
  (Len(printed) - pos[1]) + (Len(printed) - pos[2]) + (Len(printed) - pos[3])
    + Alive(1) + Alive(2) + Alive(3)

LEMMA LeftIsNat == PipeInv => Left \in Nat
  <1> SUFFICES ASSUME PipeInv PROVE Left \in Nat
    OBVIOUS
  <1>1. Alive(1) \in Nat /\ Alive(2) \in Nat /\ Alive(3) \in Nat
    BY DEF Alive
  <1>2. /\ pos[1] \in Nat /\ pos[2] \in Nat /\ pos[3] \in Nat /\ Len(printed) \in Nat
        /\ pos[1] <= Len(printed) /\ pos[2] <= Len(printed) /\ pos[3] <= Len(printed)
    BY BehindIs DEF PipeInv
  <1>3. /\ Len(printed) - pos[1] \in Nat /\ Len(printed) - pos[2] \in Nat
        /\ Len(printed) - pos[3] \in Nat
    BY <1>2
  <1>4. \A a, b, c, d, e, f \in Nat : a + b + c + d + e + f \in Nat
    OBVIOUS
  <1> QED BY <1>1, <1>3, <1>4 DEF Left

(* Each of their steps does some of it.                                    *)
LEMMA FlowDrains ==
  ASSUME PipeInv, Flow
  PROVE  Left' = Left - 1 /\ alive' \subseteq alive
  <1>0. /\ pos[1] \in Nat /\ pos[2] \in Nat /\ pos[3] \in Nat /\ Len(printed) \in Nat
        /\ pos \in [1 .. 3 -> 0 .. MaxLines]
    BY BehindIs DEF PipeInv, PipeTypeOK
  <1>1. ASSUME NEW i \in 1 .. 3, pos' = [pos EXCEPT ![i] = @ + 1],
               UNCHANGED <<printed, alive>>
        PROVE  Left' = Left - 1
    <2>1. pos'[i] = pos[i] + 1 /\ \A j \in 1 .. 3 : j /= i => pos'[j] = pos[j]
      BY <1>0, <1>1
    <2>2. CASE i = 1
      BY <1>0, <1>1, <2>1, <2>2 DEF Left, Alive
    <2>3. CASE i = 2
      BY <1>0, <1>1, <2>1, <2>3 DEF Left, Alive
    <2>4. CASE i = 3
      BY <1>0, <1>1, <2>1, <2>4 DEF Left, Alive
    <2> QED BY <2>2, <2>3, <2>4
  <1>2. ASSUME NEW i \in 1 .. 3, i \in alive, Die(i), UNCHANGED <<printed, pos>>
        PROVE  Left' = Left - 1
    <2>1. i \notin alive' /\ \A j : j /= i => (j \in alive' <=> j \in alive)
      BY <1>2 DEF Die
    <2>2. CASE i = 1
      BY <1>0, <1>2, <2>1, <2>2 DEF Left, Alive
    <2>3. CASE i = 2
      BY <1>0, <1>2, <2>1, <2>3 DEF Left, Alive
    <2>4. CASE i = 3
      BY <1>0, <1>2, <2>1, <2>4 DEF Left, Alive
    <2> QED BY <2>2, <2>3, <2>4
  <1>3. ASSUME NEW i \in Tees, Copy(i) PROVE Left' = Left - 1 /\ alive' \subseteq alive
    BY <1>1, <1>2, <1>3 DEF Copy, Tees, Die
  <1>4. CASE FormatEvent
    BY <1>1, <1>2, <1>4 DEF FormatEvent, Formatter, Die
  <1>5. ASSUME NEW i \in 1 .. 3, EndOfInput(i)
        PROVE  Left' = Left - 1 /\ alive' \subseteq alive
    BY <1>2, <1>5 DEF EndOfInput, Die
  <1> QED BY <1>3, <1>4, <1>5 DEF Flow

-----------------------------------------------------------------------------
(* What the theorem takes from ENABLED: a process whose guard holds runs.  *)
PipeCanGoOn ==
  at = "pipe" =>
    /\ 0 \in alive => ENABLED <<Finish>>_runVars
    /\ 0 \notin alive /\ CanFlow => ENABLED <<FlowOn>>_runVars
    /\ PipeEnded => ENABLED <<EndPipeline>>_runVars

(* The agent has ended and n steps of the others are left; what follows.   *)
Draining(n) == at = "pipe" /\ 0 \notin alive /\ Left = n
Drained(n) == at = "detect" \/ (at = "pipe" /\ 0 \notin alive /\ Left < n)

LEMMA DrainStep ==
  ASSUME RunInv, RunNext, NEW n \in Nat, Draining(n)
  PROVE  Drained(n)'
  <1>0. at = "pipe" /\ 0 \notin alive /\ Left = n /\ PipeInv
    BY DEF Draining, RunInv
  <1>1. CASE FlowOn
    <2>1. at' = "pipe" /\ Left' = Left - 1 /\ alive' \subseteq alive
      BY <1>0, <1>1, FlowDrains DEF FlowOn, loopVars
    <2> QED BY <1>0, <2>1, LeftIsNat DEF Drained
  <1>2. CASE EndPipeline
    BY <1>2 DEF EndPipeline, Drained
  <1>3. CASE EditTasks \/ PrintSome \/ Finish
    BY <1>0, <1>3 DEF EditTasks, PrintSome, PrintLine, Finish, AgentExits
  <1>4. CASE StartPipeline \/ LoopStep
    BY <1>0, <1>4 DEF StartPipeline, LoopStep, Preflight, Check, Detect, Judge
  <1> QED BY <1>1, <1>2, <1>3, <1>4 DEF RunNext

(* run-tasks.sh:202-206.  Every pipeline comes to the point where its      *)
(* agent has ended, and from there each step is one of at most Left: for   *)
(* every agent and every size of the pipes, processes that run, and that   *)
(* may have died with pipes full before them, leave less and less to do    *)
(* until the script goes on.                                               *)
THEOREM PipelineDrains ==
  ASSUME NEW n \in Nat
  PROVE  FairRunSpec /\ []PipeCanGoOn
           => /\ at = "pipe" ~> at = "detect" \/ (at = "pipe" /\ 0 \notin alive)
              /\ Draining(n) ~> Drained(n)
              /\ [](Left \in Nat)
  <1>1. RunInv => Left \in Nat
    BY LeftIsNat DEF RunInv
  <1>2. RunInv /\ Draining(n) /\ [RunNext]_runVars => Draining(n)' \/ Drained(n)'
    <2>1. UNCHANGED runVars /\ Draining(n) => Draining(n)'
      BY DEF runVars, Draining, Left, Alive
    <2> QED BY <2>1, DrainStep
  <1>3. RunInv /\ Draining(n) /\ <<FlowOn>>_runVars => Drained(n)'
    BY DrainStep DEF RunNext
  <1>4. RunInv /\ Draining(n) /\ <<EndPipeline>>_runVars => Drained(n)'
    BY DrainStep DEF RunNext
  <1>5. at = "pipe" /\ [RunNext]_runVars => (at = "pipe")' \/ (at = "detect")'
    BY DEF RunNext, LoopStep, Preflight, Check, Detect, Judge, StartPipeline, EditTasks,
           PrintSome, Finish, FlowOn, EndPipeline, loopVars, runVars
  <1>6. at = "pipe" /\ <<Finish>>_runVars => (at = "pipe" /\ 0 \notin alive)'
    BY DEF Finish, AgentExits, Die, loopVars
  <1>7. PipeCanGoOn /\ at = "pipe" => 0 \notin alive \/ ENABLED <<Finish>>_runVars
    BY DEF PipeCanGoOn
  <1>8. RunInv /\ PipeCanGoOn /\ Draining(n)
          => \/ PipeEnded /\ ENABLED <<EndPipeline>>_runVars
             \/ ~ PipeEnded /\ ENABLED <<FlowOn>>_runVars
    BY NobodyStuck DEF RunInv, PipeCanGoOn, PipeEnded, Draining
  <1>9. Draining(n) /\ PipeEnded /\ [RunNext]_runVars
           => (Draining(n) /\ PipeEnded)' \/ Drained(n)' \/ ~ RunInv
    BY DrainStep DEF Draining, PipeEnded, runVars, Left, Alive
  <1>10. Draining(n) /\ ~ PipeEnded /\ [RunNext]_runVars
           => (Draining(n) /\ ~ PipeEnded)' \/ Drained(n)' \/ ~ RunInv
    BY DrainStep DEF Draining, PipeEnded, runVars, Left, Alive
  <1> QED
    BY <1>1, <1>2, <1>3, <1>4, <1>5, <1>6, <1>7, <1>8, <1>9, <1>10, RunCorrect, PTL
    DEF FairRunSpec, RunSpec
=============================================================================
