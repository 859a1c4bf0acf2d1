---------------------------- MODULE LogPipeline ----------------------------
(***************************************************************************)
(* The pipeline that an iteration of run-tasks.sh runs its agent in:       *)
(*                                                                         *)
(*   claude 2>&1 | tee -a run_log | tee iter_log | format-stream.py        *)
(*                                                                         *)
(* Four processes, of which 0 is the agent and 3 the formatter.  A line    *)
(* that format_event does not expect ends the formatter, and then a broken *)
(* pipe ends the writers before it, one after the other.                   *)
(***************************************************************************)
EXTENDS Naturals, Sequences

CONSTANTS
  Lines,      \* what the agent may print: records of a shape, of the quota
              \* phrases in it, and of the quota whose end it reports
  PipeSize,   \* how many lines a pipe holds
  MaxLines    \* bound: lines printed in an iteration

ASSUME PipelineAssumption == PipeSize \in Nat \ {0} /\ MaxLines \in Nat

VARIABLES
  printed,  \* the lines that the agent has got into its pipe
  pos,      \* pos[i]: how many of them process i has passed on
  alive,    \* the processes that have not ended
  hit,      \* history: the quota that the agent has run into; the weekly cap
            \* rather than a session window
  raised    \* history: the formatter has raised

pipeVars == <<printed, pos, alive, hit, raised>>

Tees == {1, 2}
Formatter == 3

(* What a line of the agent may look like: blank; no JSON; an event of a   *)
(* type that is shown, or of one that is not; JSON that is no object; an   *)
(* event whose "message" is null.                                          *)
Skipped == {"blank", "other"}
Shown == {"text", "init", "assistant", "user", "result"}
Raising == {"scalar", "no_message"}

(* A report of a quota has its phrase, and may have the other one too; the *)
(* text of the agent, or of a file that it reads, has any.                 *)
ASSUME LinesAssumption ==
  /\ Lines \subseteq [shape : Skipped \cup Shown \cup Raising,
                      says : SUBSET {"session", "weekly"},
                      quota : {"none", "session", "weekly"}]
  /\ \A l \in Lines : l.quota /= "none" => l.quota \in l.says

(* What process i can read next: the lines that the one before has passed  *)
(* on and i has not.                                                       *)
Behind(i) == IF i = 1 THEN Len(printed) ELSE pos[i - 1]
HasInput(i) == pos[i] < Behind(i)
HasRoom(i) == Behind(i) - pos[i] < PipeSize

Die(i) == alive' = alive \ {i}

(* Mutant: the log of the iteration is appended to.                        *)
PipeStart_Appends ==
  /\ UNCHANGED <<printed, pos>>
  /\ alive' = 0 .. 3
  /\ hit' = "none" /\ raised' = FALSE

PipeStart ==
  /\ printed' = <<>> /\ pos' = [i \in 1 .. 3 |-> 0]
  /\ alive' = 0 .. 3
  /\ hit' = "none" /\ raised' = FALSE

(* The agent prints a line, or finds its pipe broken and ends there.       *)
PrintLine(l) ==
  /\ 0 \in alive /\ Len(printed) < MaxLines
  /\ hit' = IF l.quota = "none" \/ hit = "weekly" THEN hit ELSE l.quota
  /\ \/ /\ 1 \in alive /\ HasRoom(1)
        /\ printed' = Append(printed, l)
        /\ UNCHANGED alive
     \/ /\ 1 \notin alive
        /\ Die(0)
        /\ UNCHANGED printed
  /\ UNCHANGED <<pos, raised>>

AgentExits ==
  /\ 0 \in alive /\ Die(0)
  /\ UNCHANGED <<printed, pos, hit, raised>>

(* Mutant: a writer waits for a reader that has gone.                      *)
Copy_Waits(i) ==
  /\ i \in alive /\ HasInput(i) /\ HasRoom(i + 1)
  /\ pos' = [pos EXCEPT ![i] = @ + 1]
  /\ UNCHANGED <<printed, alive, hit, raised>>

(* tee passes a line on before it writes it to its file; a write into a    *)
(* broken pipe ends it.                                                    *)
Copy(i) ==
  /\ i \in alive /\ HasInput(i)
  /\ \/ /\ i + 1 \in alive /\ HasRoom(i + 1)
        /\ pos' = [pos EXCEPT ![i] = @ + 1]
        /\ UNCHANGED alive
     \/ /\ i + 1 \notin alive
        /\ Die(i)
        /\ UNCHANGED pos
  /\ UNCHANGED <<printed, hit, raised>>

(* Mutant: the formatter ends at a line that it cannot format, silently.   *)
FormatEvent_Stops ==
  /\ Formatter \in alive /\ HasInput(Formatter)
  /\ IF printed[pos[3] + 1].shape \in Raising
     THEN Die(Formatter) /\ UNCHANGED pos
     ELSE pos' = [pos EXCEPT ![3] = @ + 1] /\ UNCHANGED alive
  /\ UNCHANGED <<printed, hit, raised>>

(* format_event: event.get of a number or of None raises AttributeError,   *)
(* which nothing catches.                                                  *)
FormatEvent ==
  /\ Formatter \in alive /\ HasInput(Formatter)
  /\ \/ /\ printed[pos[3] + 1].shape \notin Raising
        /\ pos' = [pos EXCEPT ![3] = @ + 1]
        /\ UNCHANGED <<alive, raised>>
     \/ /\ printed[pos[3] + 1].shape \in Raising
        /\ Die(Formatter) /\ raised' = TRUE
        /\ UNCHANGED pos
  /\ UNCHANGED <<printed, hit>>

(* A reader whose writer has ended stops when it has read everything.      *)
EndOfInput(i) ==
  /\ i \in alive /\ i - 1 \notin alive /\ ~ HasInput(i)
  /\ Die(i)
  /\ UNCHANGED <<printed, pos, hit, raised>>

Flow ==
  \/ \E i \in Tees : Copy(i)
  \/ FormatEvent
  \/ \E i \in 1 .. 3 : EndOfInput(i)

(* The shell goes on when all four have ended.                             *)
PipeEnded == alive = {}

(* What detect_quota.py finds in the file of the second tee.               *)
InLog(phrase) == \E n \in 1 .. pos[2] : phrase \in printed[n].says
-----------------------------------------------------------------------------
PipeTypeOK ==
  /\ printed \in Seq(Lines) /\ Len(printed) <= MaxLines
  /\ pos \in [1 .. 3 -> 0 .. MaxLines]
  /\ alive \subseteq 0 .. 3
  /\ \A i \in 1 .. 3 : pos[i] <= Behind(i) /\ Behind(i) - pos[i] <= PipeSize
  /\ hit \in {"none", "session", "weekly"} /\ raised \in BOOLEAN
=============================================================================
