-------------------------- MODULE OperationsProofs --------------------------
(***************************************************************************)
(* Overlapping deployments, for any number of pushes; the mail preview,    *)
(* for any list of samples; seeds, for any number of processes, personas,  *)
(* bulk users and edits, with what keeps those that wait for each other's  *)
(* rows from waiting in a circle.                                          *)
(***************************************************************************)
EXTENDS Operations, FiniteSetTheorems, WellFoundedInduction, TLAPS

RunStates == {"none", "pending", "build", "deploy"} \cup Finished

DeployTypes ==
  /\ grouped \in BOOLEAN /\ pushed \in 0 .. Pushes
  /\ run \in [Commits -> RunStates]
  /\ \A c \in Commits : run[c] = "none" <=> c > pushed

(* What is served is behind the tag only while a run has a release to do.  *)
Behindhand ==
  serving = latest \/ \E c \in Commits : run[c] \in {"deploy", "failed"}

(* In a concurrency group: one run at a time; only the newest waits, and   *)
(* only for a run in progress; an older run goes on only while the newest  *)
(* waits.                                                                  *)
OneAtATime ==
  grouped =>
    /\ \A c, d \in Commits : Running(c) /\ Running(d) => c = d
    /\ \A c \in Commits : run[c] = "pending" => c = pushed /\ \E d \in Commits : Running(d)
    /\ \A c \in Commits : Running(c) /\ c /= pushed => run[pushed] = "pending"

(* ... and what has become of the newest.                                  *)
NewestKnown ==
  grouped /\ pushed > 0 =>
    /\ run[pushed] /= "cancelled"
    /\ run[pushed] = "deploy" => latest = pushed
    /\ run[pushed] = "deployed" => serving = pushed

NothingYet == pushed = 0 => latest = 0 /\ serving = 0

DeployInv == DeployTypes /\ Behindhand /\ OneAtATime /\ NewestKnown /\ NothingYet

-----------------------------------------------------------------------------
LEMMA InitDeploys == OperationsInit => DeployInv
  BY PushesAssumption DEF OperationsInit, InitDeploy, DeployInv, DeployTypes, Commits,
     RunStates, Behindhand, OneAtATime, Running, NewestKnown, NothingYet

LEMMA PushKeeps ==
  ASSUME DeployInv, Push
  PROVE  DeployInv'
  <1> DEFINE new == pushed + 1
             waits == grouped /\ \E d \in Commits : Running(d)
  <1>1. /\ new \in Commits /\ pushed' = new /\ pushed \in Nat
        /\ UNCHANGED <<grouped, latest, serving>>
    BY PushesAssumption DEF Push, DeployInv, DeployTypes, Commits
  <1>2. run' = [c \in Commits |->
                 CASE c = new -> IF waits THEN "pending" ELSE "build"
                   [] c /= new /\ run[c] = "pending" -> "cancelled"
                   [] OTHER -> run[c]]
    BY DEF Push
  <1>3. run'[new] = IF waits THEN "pending" ELSE "build"
    BY <1>1, <1>2
  <1>4. \A c \in Commits : c /= new =>
          run'[c] = IF run[c] = "pending" THEN "cancelled" ELSE run[c]
    BY <1>1, <1>2
  <1>5. waits \in BOOLEAN /\ run[new] = "none"
    BY <1>1 DEF DeployInv, DeployTypes
  <1>6. grouped /\ ~ waits => \A d \in Commits : ~ Running(d)
    OBVIOUS
  <1>7. waits => grouped /\ \E d \in Commits : Running(d)
    OBVIOUS
  <1> HIDE DEF new, waits
  <1>8. DeployTypes'
    <2>1. \A c \in Commits : run'[c] \in RunStates
      BY <1>3, <1>4, <1>5 DEF DeployInv, DeployTypes, RunStates, Finished
    <2>2. run' \in [Commits -> RunStates]
      BY <1>2, <2>1
    <2>3. \A c \in Commits : run'[c] = "none" <=> c > pushed'
      BY <1>1, <1>3, <1>4 DEF DeployInv, DeployTypes, Commits, new
    <2> QED BY <1>1, <2>2, <2>3 DEF DeployInv, DeployTypes, Commits
  <1>9. \A c \in Commits : run[c] \in {"build", "deploy", "failed"} => run'[c] = run[c]
    BY <1>4, <1>5
  <1>10. Behindhand'
    BY <1>1, <1>9 DEF DeployInv, Behindhand
  <1>11. \A c \in Commits : Running(c)' <=> Running(c) \/ (c = new /\ ~ waits)
    BY <1>3, <1>4, <1>5 DEF Running
  <1>12. OneAtATime'
    <2> SUFFICES ASSUME grouped
                 PROVE  /\ \A c, d \in Commits : Running(c)' /\ Running(d)' => c = d
                        /\ \A c \in Commits : run'[c] = "pending" =>
                             c = new /\ \E d \in Commits : Running(d)'
                        /\ \A c \in Commits : Running(c)' /\ c /= new => run'[new] = "pending"
      BY <1>1 DEF OneAtATime
    <2>1. CASE waits
      BY <1>3, <1>4, <1>7, <1>11, <2>1 DEF DeployInv, OneAtATime
    <2>2. CASE ~ waits
      BY <1>3, <1>4, <1>6, <1>11, <2>2
    <2> QED BY <2>1, <2>2
  <1>13. NewestKnown' /\ NothingYet'
    BY <1>1, <1>3, <1>5 DEF NewestKnown, NothingYet, new
  <1> QED BY <1>8, <1>10, <1>12, <1>13 DEF DeployInv

LEMMA PushImageKeeps ==
  ASSUME DeployInv, NEW c \in Commits, PushImage(c)
  PROVE  DeployInv'
  <1>1. /\ run[c] = "build" /\ run' = [run EXCEPT ![c] = "deploy"] /\ latest' = c
        /\ UNCHANGED <<grouped, pushed, serving>>
    BY DEF PushImage
  <1>2. run'[c] = "deploy" /\ \A d \in Commits : d /= c => run'[d] = run[d]
    BY <1>1 DEF DeployInv, DeployTypes
  <1>3. DeployTypes'
    BY <1>1, <1>2 DEF DeployInv, DeployTypes, RunStates
  <1>4. Behindhand'
    BY <1>2 DEF Behindhand
  <1>5. \A d \in Commits : Running(d)' <=> Running(d)
    BY <1>1, <1>2 DEF Running
  <1>6. OneAtATime'
    BY <1>1, <1>2, <1>5 DEF DeployInv, OneAtATime, Running
  <1>7. pushed \in Nat /\ c <= pushed /\ c > 0 /\ (pushed > 0 => pushed \in Commits)
    BY <1>1, PushesAssumption DEF DeployInv, DeployTypes, Commits
  <1>8. NewestKnown'
    <2>1. CASE c = pushed
      BY <1>1, <1>2, <2>1 DEF NewestKnown
    <2>2. CASE c /= pushed /\ grouped
      <3>1. run'[pushed] = "pending"
        BY <1>1, <1>2, <1>7, <2>2 DEF DeployInv, OneAtATime, Running
      <3> QED BY <1>1, <3>1 DEF NewestKnown
    <2>3. CASE ~ grouped
      <3>1. ~ grouped'
        BY <1>1, <2>3
      <3> QED BY <3>1 DEF NewestKnown
    <2> QED BY <2>1, <2>2, <2>3
  <1>9. NothingYet'
    BY <1>1, <1>7, PushesAssumption DEF NothingYet, Commits
  <1> QED BY <1>3, <1>4, <1>6, <1>8, <1>9 DEF DeployInv

(* The end of a run, however it ends: the one that waits begins.           *)
LEMMA EndKeeps ==
  ASSUME DeployInv, NEW c \in Commits, Running(c), NEW how \in {"deployed", "failed"},
         EndRun(c, how), UNCHANGED <<grouped, pushed, latest>>,
         serving' = IF how = "deployed" THEN latest ELSE serving,
         how = "deployed" => run[c] = "deploy"
  PROVE  DeployInv'
  <1>1. /\ run'[c] = how
        /\ \A d \in Commits : d /= c =>
             run'[d] = IF run[d] = "pending" THEN "build" ELSE run[d]
    BY DEF EndRun
  <1>2. pushed \in Nat /\ c <= pushed /\ c > 0 /\ pushed \in Commits
    BY PushesAssumption DEF DeployInv, DeployTypes, Commits, Running
  <1>3. DeployTypes'
    <2>1. \A d \in Commits : run'[d] \in RunStates
      BY <1>1 DEF DeployInv, DeployTypes, RunStates, Finished
    <2>2. run' \in [Commits -> RunStates]
      BY <2>1 DEF EndRun
    <2>3. \A d \in Commits : run'[d] = "none" <=> run[d] = "none"
      BY <1>1 DEF Running
    <2> QED BY <2>2, <2>3 DEF DeployInv, DeployTypes
  <1>4. Behindhand'
    <2>1. CASE how = "failed"
      BY <1>1, <2>1 DEF Behindhand
    <2>2. CASE how = "deployed"
      BY <2>2 DEF Behindhand
    <2> QED BY <2>1, <2>2
  <1>5. \A d \in Commits : Running(d)' <=> d /= c /\ (Running(d) \/ run[d] = "pending")
    BY <1>1 DEF Running
  <1>6. OneAtATime'
    <2> SUFFICES ASSUME grouped
                 PROVE  /\ \A d, e \in Commits : Running(d)' /\ Running(e)' => d = e
                        /\ \A d \in Commits : run'[d] /= "pending"
                        /\ \A d \in Commits : Running(d)' => d = pushed
      BY DEF OneAtATime
    <2>1. \A d \in Commits : Running(d)' => d = pushed
      BY <1>5 DEF DeployInv, OneAtATime
    <2>2. \A d \in Commits : run'[d] /= "pending"
      BY <1>1
    <2> QED BY <2>1, <2>2
  <1>7. NewestKnown'
    <2> SUFFICES ASSUME grouped
                 PROVE  /\ run'[pushed] /= "cancelled"
                        /\ run'[pushed] = "deploy" => latest = pushed
                        /\ run'[pushed] = "deployed" => serving' = pushed
      BY DEF NewestKnown
    <2>1. CASE c = pushed
      BY <1>1, <1>2, <2>1 DEF DeployInv, NewestKnown
    <2>2. CASE c /= pushed
      <3>1. run[pushed] = "pending"
        BY <2>2 DEF DeployInv, OneAtATime
      <3> QED BY <1>1, <1>2, <2>2, <3>1
    <2> QED BY <2>1, <2>2
  <1>8. NothingYet'
    BY <1>2 DEF NothingYet
  <1> QED BY <1>3, <1>4, <1>6, <1>7, <1>8 DEF DeployInv

LEMMA NextDeploys == DeployInv /\ [OperationsNext]_operationVars => DeployInv'
  <1> SUFFICES ASSUME DeployInv, DeployNext \/ UNCHANGED deployVars PROVE DeployInv'
    BY DEF OperationsNext, operationVars
  <1>1. ASSUME NEW c \in Commits, Release(c) PROVE DeployInv'
    BY <1>1, EndKeeps DEF Release, Running
  <1>2. ASSUME NEW c \in Commits, RunFails(c) PROVE DeployInv'
    BY <1>2, EndKeeps DEF RunFails
  <1>3. CASE UNCHANGED deployVars
    BY <1>3 DEF deployVars, DeployInv, DeployTypes, Behindhand, OneAtATime, Running,
                NewestKnown, NothingYet
  <1> QED BY <1>1, <1>2, <1>3, PushKeeps, PushImageKeeps DEF DeployNext

(* ec2-main.yml:36.  However many pushes overlap: in a concurrency group   *)
(* one run is in progress at a time, and when all have ended without a     *)
(* failure the newest commit is served; without one the service still runs *)
(* what the image tag names.                                               *)
THEOREM DeploymentsConverge == OperationsSpec => []LatestServed
  <1>1. DeployInv => LatestServed
    <2> SUFFICES ASSUME DeployInv PROVE LatestServed
      OBVIOUS
    <2>1. ASSUME grouped PROVE Cardinality({c \in Commits : Running(c)}) <= 1
      <3>1. CASE {c \in Commits : Running(c)} = {}
        BY <3>1, FS_EmptySet
      <3>2. CASE {c \in Commits : Running(c)} /= {}
        <4>1. PICK c \in Commits : Running(c)
          BY <3>2
        <4>2. {d \in Commits : Running(d)} = {c}
          BY <2>1, <4>1 DEF DeployInv, OneAtATime
        <4> QED BY <4>2, FS_Singleton
      <3> QED BY <3>1, <3>2
    <2>2. ASSUME Quiet, NoneFailed PROVE serving = latest /\ (grouped => serving = pushed)
      <3>1. serving = latest
        BY <2>2 DEF DeployInv, Behindhand, Quiet, NoneFailed
      <3>2. CASE pushed = 0
        BY <3>1, <3>2 DEF DeployInv, NothingYet
      <3>3. CASE pushed /= 0 /\ grouped
        <4>1. pushed \in Commits /\ pushed > 0 /\ run[pushed] /= "none"
              /\ run[pushed] \in RunStates
          BY <3>3, PushesAssumption DEF DeployInv, DeployTypes, Commits
        <4>2. run[pushed] = "deployed"
          BY <2>2, <3>3, <4>1 DEF DeployInv, NewestKnown, RunStates, Finished, Quiet,
             NoneFailed
        <4> QED BY <3>1, <3>3, <4>1, <4>2 DEF DeployInv, NewestKnown
      <3> QED BY <3>1, <3>2, <3>3
    <2> QED BY <2>1, <2>2 DEF LatestServed
  <1> QED BY <1>1, InitDeploys, NextDeploys, PTL DEF OperationsSpec

-----------------------------------------------------------------------------
(* Where the batch stands: the samples asked for that it has been through. *)
Tried == {SAMPLES[i] : i \in 1 .. next - 1} \cap Asked

PreviewTypeOK ==
  /\ options \in Options
  /\ stage \in {"only", "batch", "send"} \cup Stopped
  /\ next \in 1 .. Len(SAMPLES) + 1
  /\ sent \in Nat /\ failed \in Nat

(* A sample is sent when its turn has come, and the end is after the last. *)
InTurn ==
  /\ stage = "send" => next <= Len(SAMPLES) /\ SAMPLES[next] \in Asked
  /\ stage \in {"ok", "send_failed"} => next = Len(SAMPLES) + 1
  /\ stage = "only" => next = 1

(* Of the samples tried each has landed or been counted as failed, and the *)
(* file of the one that is about to be sent is there already.              *)
CountsAddUp ==
  /\ IsFiniteSet(Tried) /\ IsFiniteSet(landed) /\ landed \subseteq Tried
  /\ sent = Cardinality(landed)
  /\ options.to => sent + failed = Cardinality(Tried)
  /\ options.to /\ failed = 0 => landed = Tried
  /\ options.out /\ stage /= "raised" =>
       files = IF stage = "send" THEN Tried \cup {SAMPLES[next]} ELSE Tried
  /\ stage = "ok" /\ options.to => failed = 0

PreviewInv == PreviewTypeOK /\ InTurn /\ CountsAddUp

LEMMA PreviewBegins == OperationsInit => PreviewInv
  <1> SUFFICES ASSUME OperationsInit PROVE PreviewInv
    OBVIOUS
  <1> USE DEF OperationsInit, InitPreview
  <1>1. PreviewTypeOK /\ InTurn
    BY PreviewAssumption DEF PreviewTypeOK, InTurn
  <1>2. Tried = {}
    BY DEF Tried
  <1> QED BY <1>1, <1>2, FS_EmptySet DEF PreviewInv, CountsAddUp

(* A step to the next sample adds it to those tried, if it was asked for;  *)
(* it has not been tried before, since keys differ.                        *)
LEMMA Advance ==
  ASSUME PreviewInv, next <= Len(SAMPLES), next' = next + 1, UNCHANGED options
  PROVE  /\ next' \in 1 .. Len(SAMPLES) + 1
         /\ Asked' = Asked
         /\ SAMPLES[next] \notin Tried
         /\ Tried' = IF SAMPLES[next] \in Asked THEN Tried \cup {SAMPLES[next]}
                     ELSE Tried
  <1>1. Asked' = Asked
    BY DEF Asked
  <1>2. next \in 1 .. Len(SAMPLES) /\ Len(SAMPLES) \in Nat
    BY PreviewAssumption DEF PreviewInv, PreviewTypeOK
  <1>3. SAMPLES[next] \notin Tried
    <2> SUFFICES ASSUME NEW i \in 1 .. next - 1, SAMPLES[next] = SAMPLES[i] PROVE FALSE
      BY DEF Tried
    <2> QED BY <1>2, PreviewAssumption
  <1>4. 1 .. next' - 1 = (1 .. next - 1) \cup {next}
    BY <1>2
  <1>5. {SAMPLES[i] : i \in 1 .. next' - 1} = {SAMPLES[i] : i \in 1 .. next - 1} \cup {SAMPLES[next]}
    BY <1>4
  <1> QED BY <1>1, <1>2, <1>3, <1>5 DEF Tried

LEMMA PassOverKeeps == PreviewInv /\ PassOver => PreviewInv'
  <1> SUFFICES ASSUME PreviewInv, PassOver PROVE PreviewInv'
    OBVIOUS
  <1> USE DEF PassOver
  <1>1. Tried' = Tried /\ Asked' = Asked /\ next' \in 1 .. Len(SAMPLES) + 1
    BY Advance
  <1> QED BY <1>1 DEF PreviewInv, PreviewTypeOK, InTurn, CountsAddUp

LEMMA StandsStill ==
  ASSUME UNCHANGED <<options, next>>
  PROVE  Asked' = Asked /\ Tried' = Tried
  BY DEF Asked, Tried

LEMMA OnlyKeeps == PreviewInv /\ CheckOnly => PreviewInv'
  <1> SUFFICES ASSUME PreviewInv, CheckOnly PROVE PreviewInv'
    OBVIOUS
  <1> USE DEF CheckOnly
  <1>1. Tried' = Tried /\ Asked' = Asked
    BY StandsStill
  <1> QED BY <1>1 DEF PreviewInv, PreviewTypeOK, InTurn, CountsAddUp, Stopped

LEMMA RenderKeeps == PreviewInv /\ RenderToFile => PreviewInv'
  <1> SUFFICES ASSUME PreviewInv, RenderToFile PROVE PreviewInv'
    OBVIOUS
  <1> USE DEF RenderToFile
  <1>1. Tried' = Tried /\ Asked' = Asked
    BY StandsStill
  <1> QED BY <1>1 DEF PreviewInv, PreviewTypeOK, InTurn, CountsAddUp, Stopped

LEMMA ReportKeeps == PreviewInv /\ ReportBatch => PreviewInv'
  <1> SUFFICES ASSUME PreviewInv, ReportBatch PROVE PreviewInv'
    OBVIOUS
  <1> USE DEF ReportBatch
  <1>1. Tried' = Tried /\ Asked' = Asked
    BY StandsStill
  <1>2. next = Len(SAMPLES) + 1
    BY PreviewAssumption DEF PreviewInv, PreviewTypeOK
  <1> QED BY <1>1, <1>2 DEF PreviewInv, PreviewTypeOK, InTurn, CountsAddUp, Stopped

LEMMA SendKeeps == PreviewInv /\ (SkipSend \/ SendSample \/ SendRaises) => PreviewInv'
  <1> SUFFICES ASSUME PreviewInv, SkipSend \/ SendSample \/ SendRaises PROVE PreviewInv'
    OBVIOUS
  <1>1. stage = "send" /\ stage' = "batch" /\ next' = next + 1 /\ UNCHANGED <<options, files>>
        /\ next <= Len(SAMPLES) /\ SAMPLES[next] \in Asked
    BY DEF SkipSend, SendSample, SendRaises, PreviewInv, InTurn
  <1>2. /\ Tried' = Tried \cup {SAMPLES[next]} /\ SAMPLES[next] \notin Tried
        /\ Asked' = Asked /\ next' \in 1 .. Len(SAMPLES) + 1
    BY <1>1, Advance
  <1>3. IsFiniteSet(Tried') /\ Cardinality(Tried') = Cardinality(Tried) + 1
        /\ Cardinality(Tried) \in Nat
    BY <1>2, FS_AddElement, FS_CardinalityType DEF PreviewInv, CountsAddUp
  <1>4. PreviewTypeOK' /\ InTurn'
    BY <1>1, <1>2 DEF PreviewInv, PreviewTypeOK, InTurn, SkipSend, SendSample, SendRaises
  <1>5. files' = files /\ (options.out => files' = Tried')
    BY <1>1, <1>2 DEF PreviewInv, CountsAddUp
  <1>6. CASE SkipSend
    BY <1>1, <1>2, <1>3, <1>4, <1>5, <1>6 DEF SkipSend, PreviewInv, CountsAddUp
  <1>7. CASE SendRaises
    BY <1>1, <1>2, <1>3, <1>4, <1>5, <1>7
       DEF SendRaises, PreviewInv, PreviewTypeOK, CountsAddUp
  <1>8. CASE SendSample
    <2>1. SAMPLES[next] \notin landed /\ landed' = landed \cup {SAMPLES[next]}
      BY <1>2, <1>8 DEF SendSample, PreviewInv, CountsAddUp
    <2>2. IsFiniteSet(landed') /\ Cardinality(landed') = Cardinality(landed) + 1
      BY <2>1, FS_AddElement DEF PreviewInv, CountsAddUp
    <2> QED BY <1>1, <1>2, <1>3, <1>4, <1>5, <1>8, <2>1, <2>2
            DEF SendSample, PreviewInv, PreviewTypeOK, CountsAddUp
  <1> QED BY <1>6, <1>7, <1>8

LEMMA PreviewKeeps == PreviewInv /\ [OperationsNext]_operationVars => PreviewInv'
  <1> SUFFICES ASSUME PreviewInv, PreviewNext \/ UNCHANGED previewVars PROVE PreviewInv'
    BY DEF OperationsNext, operationVars
  <1>1. CASE UNCHANGED previewVars
    BY <1>1, StandsStill
       DEF previewVars, PreviewInv, PreviewTypeOK, InTurn, CountsAddUp
  <1> QED BY <1>1, OnlyKeeps, PassOverKeeps, RenderKeeps, SendKeeps, ReportKeeps
          DEF PreviewNext

(* preview_emails.py:106.  For any list of samples and whatever is asked   *)
(* for: unless a file could not be rendered, every sample asked for has    *)
(* been tried when the command ends, and the counts are those of the mails *)
(* that landed and of those that did not.                                  *)
THEOREM BatchesAddUp == OperationsSpec => []BatchAccounted
  <1>1. PreviewInv => BatchAccounted
    <2> SUFFICES ASSUME PreviewInv, stage \in {"ok", "send_failed"} PROVE BatchAccounted
      BY DEF BatchAccounted
    <2>1. next - 1 = Len(SAMPLES)
      BY PreviewAssumption DEF PreviewInv, InTurn
    <2>2. Tried = Asked
      BY <2>1 DEF Tried, Asked, Keys
    <2> QED BY <2>2 DEF PreviewInv, PreviewTypeOK, CountsAddUp, BatchAccounted
  <1> QED BY <1>1, PreviewBegins, PreviewKeeps, PTL DEF OperationsSpec

-----------------------------------------------------------------------------
(* Seeds.  SeedInv holds what a run is and has written; CauseInv that only *)
(* an edit comes between a run that began clean and its commit.            *)
Working == {"get", "save", "status", "commit"}

RowsKept(rows) == \A u \in DOMAIN rows : u /= Nobody /\ rows[u] \in Rows

IsRun(r) ==
  r = [at |-> r.at, item |-> r.item, first |-> r.first, own |-> r.own, lifts |-> r.lifts,
       user |-> r.user, active |-> r.active, since |-> r.since, clean |-> r.clean]

RunStands(r) ==
  /\ r.at \in Ended => r = NoSeed(r.at)
  /\ r.at \notin Ended => r.at \in Working /\ r.first = 0
  /\ r.at \in {"get", "save"} => r.item \in Items
  /\ r.active \in BOOLEAN

(* A run writes accounts of its addresses, all with a profile, and keeps   *)
(* the addresses of the committed rows it writes; those it inserts are its *)
(* own.                                                                    *)
WritesOwn(r, rows) ==
  \A u \in DOMAIN r.own :
    /\ u /= Nobody /\ r.own[u] \in Rows /\ r.own[u].email \in Table
    /\ r.own[u].profile
    /\ IF u \in DOMAIN rows THEN r.own[u].email = rows[u].email
       ELSE u = LocalPart(r.own[u].email)

(* The account that was found has the address wanted, or has gone.         *)
FoundStands(r, rows) ==
  r.at = "save" /\ r.user /= Nobody =>
    IF r.user \in DOMAIN r.own
    THEN r.own[r.user].email = EmailOf(r.item, 0)
    ELSE r.user \in DOMAIN rows /\ rows[r.user].email = EmailOf(r.item, 0)

(* What the run has been through is seeded.                                *)
SeededSoFar(r) ==
  \A j \in Items :
    r.at \in {"status", "commit"} \/ (r.at \in {"get", "save"} /\ j < r.item) =>
      AsSeeded(r.own, j)

RunKept(r, rows) ==
  IsRun(r) /\ RunStands(r) /\ WritesOwn(r, rows) /\ FoundStands(r, rows) /\ SeededSoFar(r)

(* No row is written by two transactions.                                  *)
OneWriter ==
  \A p, q \in Seeds : p /= q =>
    \A u : ~ (u \in DOMAIN seed[p].own /\ u \in DOMAIN seed[q].own)

SeedInv ==
  /\ seed = [p \in Seeds |-> seed[p]]
  /\ RowsKept(accounts)
  /\ \A p \in Seeds : RunKept(seed[p], accounts)
  /\ OneWriter
  /\ operational \in BOOLEAN /\ edits \in 0 .. MaxEdits

LEMMA EmailsDiffer ==
  \A i, j \in Items : EmailOf(i, 0) = EmailOf(j, 0) => i = j
  BY SeedAssumption DEF Items, EmailOf, Persona, Bulk

LEMMA FlagsKnown ==
  \A i \in Items :
    /\ Flags(i) \in [verified : BOOLEAN, complete : BOOLEAN, active : BOOLEAN]
    /\ EmailOf(i, 0) \in Table
  <1>1. SUFFICES ASSUME NEW i \in Items
                 PROVE  Flags(i) \in [verified : BOOLEAN, complete : BOOLEAN, active : BOOLEAN]
    BY DEF Table
  <1>2. i <= Len(PERSONAS) =>
          PERSONAS[i] \in [verified : BOOLEAN, complete : BOOLEAN, active : BOOLEAN]
    <2> SUFFICES ASSUME i <= Len(PERSONAS)
                 PROVE  PERSONAS[i] \in
                          [verified : BOOLEAN, complete : BOOLEAN, active : BOOLEAN]
      OBVIOUS
    <2>1. i \in 1 .. Len(PERSONAS)
      BY SeedAssumption DEF Items
    <2> DEFINE Kinds == [verified : BOOLEAN, complete : BOOLEAN, active : BOOLEAN]
    <2>2. PERSONAS \in Seq(Kinds)
      BY SeedAssumption
    <2> HIDE DEF Kinds
    <2>3. PERSONAS[i] \in Kinds
      BY <2>1, <2>2
    <2> QED BY <2>3 DEF Kinds
  <1>3. CASE i <= Len(PERSONAS)
    BY <1>2, <1>3 DEF Flags
  <1>4. CASE ~ (i <= Len(PERSONAS))
    BY <1>4 DEF Flags
  <1> QED BY <1>3, <1>4

LEMMA NoRunKept ==
  ASSUME NEW how \in Ended, NEW rows
  PROVE  RunKept(NoSeed(how), rows) /\ DOMAIN NoSeed(how).own = {}
  BY DEF RunKept, IsRun, NoSeed, RunStands, WritesOwn, FoundStands, SeededSoFar, Ended

LEMMA NoRunAt == \A how : NoSeed(how).at = how
  BY DEF NoSeed

LEMMA SeedsBegin == OperationsInit => SeedInv
  BY NoRunKept, SeedAssumption DEF OperationsInit, InitSeed, SeedInv, RowsKept, OneWriter,
     Ended

(* Steps of one run that leave the committed rows.                         *)
LEMMA RunKeeps ==
  ASSUME SeedInv, NEW p \in Seeds, UNCHANGED <<accounts, operational, edits>>,
         NEW r, seed' = [seed EXCEPT ![p] = r], RunKept(r, accounts),
         \A u \in DOMAIN r.own : u \in DOMAIN seed[p].own \/ ~ LockedFor(p, u)
  PROVE  SeedInv'
  <1>1. seed'[p] = r /\ \A q \in Seeds : q /= p => seed'[q] = seed[q]
    BY DEF SeedInv
  <1>2. seed' = [q \in Seeds |-> seed'[q]]
    BY DEF SeedInv
  <1>3. \A q \in Seeds : RunKept(seed'[q], accounts)
    BY <1>1 DEF SeedInv
  <1>4. OneWriter'
    <2> SUFFICES ASSUME NEW q \in Seeds, NEW s \in Seeds, q /= s, NEW u,
                        u \in DOMAIN seed'[q].own, u \in DOMAIN seed'[s].own
                 PROVE  FALSE
      BY DEF OneWriter
    <2>1. CASE q = p
      BY <1>1, <2>1 DEF SeedInv, OneWriter, LockedFor
    <2>2. CASE s = p
      BY <1>1, <2>2 DEF SeedInv, OneWriter, LockedFor
    <2>3. CASE q /= p /\ s /= p
      BY <1>1, <2>3 DEF SeedInv, OneWriter
    <2> QED BY <2>1, <2>2, <2>3
  <1> QED BY <1>2, <1>3, <1>4 DEF SeedInv, RowsKept, RunKept, WritesOwn, FoundStands

LEMMA StartKeeps ==
  ASSUME SeedInv, NEW p \in Seeds, Start(p)
  PROVE  SeedInv'
  <1> DEFINE r == IF Debug
       THEN [NoSeed("get") EXCEPT !.item = 1, !.first = FirstNumber,
                             !.since = edits, !.clean = Clean]
       ELSE NoSeed("refused")
  <1>1. RunKept(r, accounts) /\ DOMAIN r.own = {}
    <2>1. 1 \in Items /\ \A j \in Items : ~ (j < 1)
      BY SeedAssumption DEF Items
    <2>2. CASE Debug
      <3>1. r = [at |-> "get", item |-> 1, first |-> 0, own |-> <<>>, lifts |-> FALSE,
                 user |-> Nobody, active |-> TRUE, since |-> edits, clean |-> Clean]
        BY <2>2 DEF NoSeed, FirstNumber
      <3> HIDE DEF r
      <3> QED BY <2>1, <3>1 DEF RunKept, IsRun, NoSeed, RunStands, WritesOwn, FoundStands,
         SeededSoFar, Ended, Working, FirstNumber
    <2>3. CASE ~ Debug
      BY <2>3, NoRunKept DEF Ended
    <2> QED BY <2>2, <2>3
  <1>2. seed' = [seed EXCEPT ![p] = r] /\ UNCHANGED <<accounts, operational, edits>>
    BY DEF Start
  <1> HIDE DEF r
  <1> QED BY <1>1, <1>2, RunKeeps

LEMMA AbortKeeps ==
  ASSUME SeedInv, NEW p \in Seeds, NEW how \in Ended, Abort(p, how)
  PROVE  SeedInv'
  BY NoRunKept, RunKeeps DEF Abort

LEMMA Seen ==
  ASSUME SeedInv, NEW p \in Seeds
  PROVE  /\ DOMAIN View(p) = DOMAIN seed[p].own \cup DOMAIN accounts
         /\ \A u \in DOMAIN seed[p].own : View(p)[u] = seed[p].own[u]
         /\ \A u \in DOMAIN accounts : View(p)[u].email = accounts[u].email
         /\ \A u \in DOMAIN View(p) : View(p)[u] \in Rows /\ u /= Nobody
         /\ \A u \in DOMAIN accounts \ DOMAIN seed[p].own : View(p)[u] = accounts[u]
  BY DEF SeedInv, View, RunKept, WritesOwn, RowsKept

LEMMA GetUserKeeps ==
  ASSUME SeedInv, NEW p \in Seeds, GetUser(p)
  PROVE  SeedInv'
  <1>1. PICK u \in Holders(View(p), Wanted(p)) :
          seed' = [seed EXCEPT ![p].at = "save", ![p].user = u,
                               ![p].active = View(p)[u].active]
    BY DEF GetUser
  <1> DEFINE r == [seed[p] EXCEPT !.at = "save", !.user = u, !.active = View(p)[u].active]
  <1>2. seed' = [seed EXCEPT ![p] = r]
    BY <1>1 DEF SeedInv
  <1>3. IsRun(r) /\ r.at = "save" /\ r.user = u /\ r.own = seed[p].own /\ r.item = seed[p].item
        /\ r.first = seed[p].first /\ r.active = View(p)[u].active
    <2>1. PICK s : /\ s = seed[p]
                   /\ r = [s EXCEPT !.at = "save", !.user = u, !.active = View(p)[u].active]
      OBVIOUS
    <2>2. IsRun(s)
      BY <2>1 DEF SeedInv, RunKept
    <2> HIDE DEF r
    <2>3. IsRun(r) /\ r.at = "save" /\ r.user = u /\ r.own = s.own /\ r.item = s.item
          /\ r.first = s.first /\ r.active = View(p)[u].active
      BY <2>1, <2>2 DEF IsRun
    <2> QED BY <2>1, <2>3
  <1>4. seed[p].at = "get" /\ seed[p].first = 0 /\ seed[p].item \in Items
    BY DEF GetUser, SeedInv, RunKept, RunStands, Ended
  <1>5. /\ u \in DOMAIN View(p) /\ View(p)[u].email = EmailOf(seed[p].item, 0)
        /\ View(p)[u].active \in BOOLEAN
    BY <1>4, Seen DEF Holders, Wanted, Rows
  <1> HIDE DEF r
  <1>6. RunStands(r)
    BY <1>3, <1>4, <1>5 DEF RunStands, Ended, Working
  <1>7. WritesOwn(r, accounts)
    BY <1>3 DEF SeedInv, RunKept, WritesOwn
  <1>8. FoundStands(r, accounts)
    <2>1. CASE u \in DOMAIN seed[p].own
      BY <1>3, <1>5, <2>1, Seen DEF FoundStands
    <2>2. CASE u \notin DOMAIN seed[p].own
      BY <1>3, <1>5, <2>2, Seen DEF FoundStands
    <2> QED BY <2>1, <2>2
  <1>9. SeededSoFar(r)
    BY <1>3, <1>4 DEF SeedInv, RunKept, SeededSoFar
  <1>10. RunKept(r, accounts)
    BY <1>3, <1>6, <1>7, <1>8, <1>9 DEF RunKept
  <1> QED BY <1>2, <1>3, <1>10, RunKeeps DEF GetUser

LEMMA StatusKeeps ==
  ASSUME SeedInv, NEW p \in Seeds, SeedStatus(p)
  PROVE  SeedInv'
  <1> DEFINE r == [seed[p] EXCEPT !.at = "commit", !.lifts = ~ operational]
  <1>1. seed' = [seed EXCEPT ![p] = r]
    BY DEF SeedInv, SeedStatus
  <1>2. /\ IsRun(r) /\ r.at = "commit" /\ r.own = seed[p].own
        /\ r.first = seed[p].first /\ r.active = seed[p].active
    <2>1. PICK s : s = seed[p] /\ r = [s EXCEPT !.at = "commit", !.lifts = ~ operational]
      OBVIOUS
    <2>2. IsRun(s)
      BY <2>1 DEF SeedInv, RunKept
    <2> HIDE DEF r
    <2>3. /\ IsRun(r) /\ r.at = "commit" /\ r.own = s.own /\ r.first = s.first
          /\ r.active = s.active
      BY <2>1, <2>2 DEF IsRun
    <2> QED BY <2>1, <2>3
  <1>3. seed[p].at = "status"
    BY DEF SeedStatus
  <1> HIDE DEF r
  <1>4. RunKept(r, accounts)
    BY <1>2, <1>3 DEF SeedInv, RunKept, RunStands, WritesOwn, FoundStands, SeededSoFar,
       Ended, Working
  <1> QED BY <1>1, <1>2, <1>4, RunKeeps DEF SeedStatus

(* What CreateUser and SaveUser write: the account of the item, seeded.    *)
Puts(p, u, row) ==
  /\ Write(p, u, row) /\ UNCHANGED <<accounts, operational, edits>>
  /\ seed[p].at \in {"get", "save"} /\ ~ LockedFor(p, u) /\ u /= Nobody
  /\ AfterGeneration(row, seed[p].item) \in Rows
  /\ AfterGeneration(row, seed[p].item).password = "seed"
  /\ AfterGeneration(row, seed[p].item).profile
  /\ AfterGeneration(row, seed[p].item).email = EmailOf(seed[p].item, 0)
  /\ AfterGeneration(row, seed[p].item).verified = Flags(seed[p].item).verified
  /\ AfterGeneration(row, seed[p].item).complete = Flags(seed[p].item).complete
  /\ IF u \in DOMAIN View(p) THEN View(p)[u].email = EmailOf(seed[p].item, 0)
     ELSE u = LocalPart(EmailOf(seed[p].item, 0))

LEMMA WriteKeeps ==
  ASSUME SeedInv, NEW p \in Seeds, NEW u, NEW row, Puts(p, u, row)
  PROVE  SeedInv'
  <1> DEFINE i == seed[p].item
             new == AfterGeneration(row, i)
             at == IF i + 1 \in Items THEN "get" ELSE "status"
             own == Put(seed[p].own, u, new)
             r == [seed[p] EXCEPT !.own = own, !.at = at, !.item = i + 1]
  <1> USE DEF Puts
  <1>1. seed' = [seed EXCEPT ![p] = r]
    BY DEF SeedInv, Write, Puts
  <1>2. i \in Items /\ i \in Nat /\ seed[p].first = 0 /\ EmailOf(i, 0) \in Table
        /\ seed[p].active \in BOOLEAN
    BY FlagsKnown, SeedAssumption DEF SeedInv, RunKept, RunStands, Ended, Items
  <1>3. IsRun(r) /\ r.at = at /\ r.own = own /\ r.item = i + 1 /\ r.first = 0
        /\ r.active = seed[p].active
    <2>1. PICK s : s = seed[p] /\ r = [s EXCEPT !.own = own, !.at = at, !.item = i + 1]
      OBVIOUS
    <2>2. IsRun(s)
      BY <2>1 DEF SeedInv, RunKept
    <2> HIDE DEF r, at, own
    <2>3. /\ IsRun(r) /\ r.at = at /\ r.own = own /\ r.item = i + 1
          /\ r.first = s.first /\ r.active = s.active
      BY <2>1, <2>2 DEF IsRun
    <2> QED BY <1>2, <2>1, <2>3
  <1>4. /\ DOMAIN own = DOMAIN seed[p].own \cup {u} /\ own[u] = new
        /\ \A v \in DOMAIN seed[p].own : v /= u => own[v] = seed[p].own[v]
    BY DEF Put
  <1>5. RunStands(r)
    BY <1>2, <1>3 DEF RunStands, Ended, Working
  <1>5a. u \in DOMAIN seed[p].own => seed[p].own[u].email = EmailOf(i, 0)
    BY Seen
  <1>6. WritesOwn(r, accounts)
    <2>1. u \in DOMAIN accounts => accounts[u].email = EmailOf(i, 0)
      BY Seen
    <2>2. u \notin DOMAIN accounts => u = LocalPart(EmailOf(i, 0))
      <3>1. CASE u \in DOMAIN seed[p].own
        <4>1. View(p)[u] = seed[p].own[u] /\ u \in DOMAIN View(p)
          BY <3>1, Seen
        <4>2. u \notin DOMAIN accounts => u = LocalPart(seed[p].own[u].email)
          BY <3>1 DEF SeedInv, RunKept, WritesOwn
        <4> QED BY <4>1, <4>2
      <3>2. CASE u \notin DOMAIN seed[p].own
        BY <3>2, Seen
      <3> QED BY <3>1, <3>2
    <2> QED BY <1>2, <1>3, <1>4, <2>1, <2>2 DEF SeedInv, RunKept, WritesOwn
  <1>7. FoundStands(r, accounts)
    BY <1>3 DEF FoundStands
  <1>8. SeededSoFar(r)
    <2>1. AsSeeded(own, i)
      BY <1>4 DEF AsSeeded, Holders
    <2>2. ASSUME NEW j \in Items, j < i PROVE AsSeeded(own, j)
      <3>1. PICK v \in Holders(seed[p].own, EmailOf(j, 0)) :
              /\ seed[p].own[v].password = "seed"
              /\ seed[p].own[v].verified = Flags(j).verified
              /\ seed[p].own[v].complete = Flags(j).complete
        BY <2>2 DEF SeedInv, RunKept, SeededSoFar, AsSeeded
      <3>2. v \in DOMAIN seed[p].own /\ seed[p].own[v].email = EmailOf(j, 0)
        BY DEF Holders
      <3>3. j \in Nat /\ EmailOf(j, 0) /= EmailOf(i, 0)
        BY <1>2, <2>2, EmailsDiffer, SeedAssumption DEF Items
      <3>4. v /= u
        <4> HIDE DEF Puts, i
        <4> QED BY <1>5a, <3>2, <3>3
      <3> QED BY <1>4, <3>1, <3>2, <3>4 DEF AsSeeded, Holders
    <2>3. \A j \in Items : j \in Nat /\ (j < i + 1 => j < i \/ j = i)
      BY <1>2, SeedAssumption DEF Items
    <2>4. ASSUME i + 1 \notin Items PROVE \A j \in Items : j < i + 1
      BY <1>2, <2>4, SeedAssumption DEF Items
    <2> HIDE DEF own, i
    <2> QED BY <1>3, <2>1, <2>2, <2>3, <2>4 DEF SeededSoFar
  <1>9. RunKept(r, accounts)
    BY <1>3, <1>5, <1>6, <1>7, <1>8 DEF RunKept
  <1> HIDE DEF r
  <1>10. \A v \in DOMAIN r.own : v \in DOMAIN seed[p].own \/ ~ LockedFor(p, v)
    BY <1>3, <1>4
  <1> QED BY <1>1, <1>9, <1>10, RunKeeps

LEMMA Generated ==
  ASSUME NEW row, NEW i,
         row = [email |-> row.email, test |-> row.test, password |-> row.password,
                active |-> row.active, profile |-> row.profile,
                verified |-> row.verified, complete |-> row.complete]
  PROVE  AfterGeneration(row, i) =
           [email |-> row.email, test |-> row.test, password |-> "seed",
            active |-> row.active, profile |-> row.profile,
            verified |-> Flags(i).verified,
            complete |-> Flags(i).complete]
  <1>1. PICK v, c : v = Flags(i).verified /\ c = Flags(i).complete
    OBVIOUS
  <1>2. PICK a : a = [row EXCEPT !.password = "seed"]
    OBVIOUS
  <1>3. PICK b : b = [a EXCEPT !.verified = v]
    OBVIOUS
  <1>4. a = [email |-> row.email, test |-> row.test, password |-> "seed",
             active |-> row.active, profile |-> row.profile,
             verified |-> row.verified, complete |-> row.complete]
    BY <1>2
  <1>5. b = [email |-> row.email, test |-> row.test, password |-> "seed",
             active |-> row.active, profile |-> row.profile,
             verified |-> v, complete |-> row.complete]
    BY <1>3, <1>4
  <1>6. [b EXCEPT !.complete = c] =
          [email |-> row.email, test |-> row.test, password |-> "seed",
           active |-> row.active, profile |-> row.profile,
           verified |-> v, complete |-> c]
    BY <1>5
  <1>7. AfterGeneration(row, i) = [b EXCEPT !.complete = c]
    BY <1>1, <1>2, <1>3 DEF AfterGeneration
  <1> QED BY <1>1, <1>6, <1>7

LEMMA CreateUserPuts ==
  ASSUME SeedInv, NEW p \in Seeds, CreateUser(p)
  PROVE  \E row : Puts(p, LocalPart(Wanted(p)), row)
  <1> DEFINE u == LocalPart(Wanted(p))
             i == seed[p].item
             row == [email |-> Wanted(p), test |-> TRUE, password |-> "unset",
                     active |-> Flags(i).active, profile |-> TRUE,
                     verified |-> FALSE, complete |-> FALSE]
  <1>1. /\ seed[p].at = "get" /\ ~ LockedFor(p, u) /\ u \notin DOMAIN View(p)
        /\ Write(p, u, row) /\ UNCHANGED <<accounts, operational, edits>>
    BY DEF CreateUser
  <1>2. i \in Items /\ Wanted(p) = EmailOf(i, 0)
    BY <1>1 DEF SeedInv, RunKept, RunStands, Ended, Wanted
  <1>3. AfterGeneration(row, i) =
          [email |-> EmailOf(i, 0), test |-> TRUE, password |-> "seed",
           active |-> Flags(i).active, profile |-> TRUE, verified |-> Flags(i).verified,
           complete |-> Flags(i).complete]
    <2>1. row = [email |-> EmailOf(i, 0), test |-> TRUE, password |-> "unset",
                 active |-> Flags(i).active, profile |-> TRUE,
                 verified |-> FALSE, complete |-> FALSE]
      BY <1>2
    <2> HIDE DEF row, i
    <2>2. /\ row.email = EmailOf(i, 0) /\ row.test = TRUE /\ row.active = Flags(i).active
          /\ row.profile = TRUE
          /\ row = [email |-> row.email, test |-> row.test, password |-> row.password,
                    active |-> row.active, profile |-> row.profile,
                    verified |-> row.verified,
                    complete |-> row.complete]
      BY <2>1
    <2>3. AfterGeneration(row, i) =
            [email |-> row.email, test |-> row.test, password |-> "seed",
             active |-> row.active, profile |-> row.profile,
             verified |-> Flags(i).verified,
             complete |-> Flags(i).complete]
      BY <2>2, Generated
    <2> QED BY <2>2, <2>3
  <1> HIDE DEF row
  <1>4. AfterGeneration(row, i) \in Rows
    BY <1>2, <1>3, FlagsKnown DEF Rows
  <1>5. u /= Nobody /\ u = LocalPart(EmailOf(i, 0))
    BY <1>2 DEF LocalPart, Nobody, Whole
  <1> HIDE DEF u, row
  <1>6. Puts(p, u, row)
    BY <1>1, <1>2, <1>3, <1>4, <1>5 DEF Puts
  <1> QED BY <1>6 DEF u

LEMMA SaveUserPuts ==
  ASSUME SeedInv, NEW p \in Seeds, SaveUser(p)
  PROVE  \E row : Puts(p, seed[p].user, row)
  <1> DEFINE u == seed[p].user
             i == seed[p].item
             row == [View(p)[u] EXCEPT !.active = seed[p].active]
  <1>1. /\ seed[p].at = "save" /\ ~ LockedFor(p, u) /\ u \in DOMAIN accounts
        /\ Write(p, u, row) /\ UNCHANGED <<accounts, operational, edits>>
        /\ View(p)[u].profile
    BY DEF SaveUser
  <1>2. i \in Items /\ seed[p].active \in BOOLEAN /\ u /= Nobody
    BY <1>1 DEF SeedInv, RunKept, RunStands, RowsKept
  <1>3. u \in DOMAIN View(p) /\ View(p)[u] \in Rows
    BY <1>1, Seen
  <1>4. View(p)[u].email = EmailOf(i, 0)
    BY <1>1, <1>2, Seen DEF SeedInv, RunKept, FoundStands
  <1>5. PICK old \in Rows : /\ old = View(p)[u] /\ old.email = EmailOf(i, 0)
                           /\ old.profile = TRUE
    BY <1>1, <1>3, <1>4 DEF Rows
  <1>6. AfterGeneration(row, i) =
          [email |-> EmailOf(i, 0), test |-> old.test, password |-> "seed",
           active |-> seed[p].active, profile |-> TRUE, verified |-> Flags(i).verified,
           complete |-> Flags(i).complete]
    <2>1. PICK a : a = seed[p].active
      OBVIOUS
    <2>2. old = [email |-> old.email, test |-> old.test, password |-> old.password,
                 active |-> old.active, profile |-> old.profile,
                 verified |-> old.verified, complete |-> old.complete]
      BY DEF Rows
    <2>3. PICK new : new = [old EXCEPT !.active = a]
      OBVIOUS
    <2>4. new = [email |-> old.email, test |-> old.test, password |-> old.password,
                 active |-> a, profile |-> old.profile, verified |-> old.verified,
                 complete |-> old.complete]
      BY <2>2, <2>3
    <2>5. /\ new.email = EmailOf(i, 0) /\ new.test = old.test /\ new.active = a
          /\ new.profile = TRUE
          /\ new = [email |-> new.email, test |-> new.test, password |-> new.password,
                    active |-> new.active, profile |-> new.profile,
                    verified |-> new.verified, complete |-> new.complete]
      BY <1>5, <2>4
    <2>6. new = row
      BY <1>5, <2>1, <2>3
    <2> HIDE DEF row, i
    <2>7. AfterGeneration(new, i) =
            [email |-> new.email, test |-> new.test, password |-> "seed",
             active |-> new.active, profile |-> new.profile,
             verified |-> Flags(i).verified, complete |-> Flags(i).complete]
      BY <2>5, Generated
    <2> QED BY <2>1, <2>5, <2>6, <2>7
  <1> HIDE DEF row
  <1>7. AfterGeneration(row, i) \in Rows
    BY <1>2, <1>5, <1>6, FlagsKnown DEF Rows
  <1> HIDE DEF u, row
  <1>8. Puts(p, u, row)
    BY <1>1, <1>2, <1>3, <1>4, <1>6, <1>7 DEF Puts
  <1> QED BY <1>8 DEF u

LEMMA CommitKeeps ==
  ASSUME SeedInv, NEW p \in Seeds, Commit(p)
  PROVE  SeedInv'
  <1>1. /\ seed[p].at = "commit" /\ accounts' = View(p) /\ UNCHANGED edits
        /\ operational' = (operational \/ seed[p].lifts)
    BY DEF Commit
  <1>2. /\ seed' = [seed EXCEPT ![p] = NoSeed("done")] /\ seed'[p] = NoSeed("done")
        /\ \A q \in Seeds : q /= p => seed'[q] = seed[q]
    BY DEF Commit, SeedInv
  <1>3. RowsKept(accounts')
    BY <1>1, Seen DEF RowsKept
  <1>4. ASSUME NEW q \in Seeds PROVE RunKept(seed'[q], accounts')
    <2>1. CASE q = p
      BY <1>2, <2>1, NoRunKept DEF Ended
    <2>2. CASE q /= p
      <3> DEFINE r == seed[q]
      <3>1. RunKept(r, accounts) /\ seed'[q] = r
        BY <1>2, <2>2 DEF SeedInv
      <3>2. WritesOwn(r, accounts')
        <4>1. \A u \in DOMAIN r.own : u \notin DOMAIN seed[p].own
          BY <2>2 DEF SeedInv, OneWriter
        <4> QED BY <1>1, <3>1, <4>1, Seen DEF RunKept, WritesOwn
      <3>3. FoundStands(r, accounts')
        BY <1>1, <3>1, Seen DEF RunKept, FoundStands
      <3> HIDE DEF r
      <3> QED BY <3>1, <3>2, <3>3 DEF RunKept
    <2> QED BY <2>1, <2>2
  <1>5. OneWriter'
    BY <1>2, NoRunKept DEF SeedInv, OneWriter, Ended
  <1>6. operational' \in BOOLEAN
    BY <1>1 DEF SeedInv
  <1> QED BY <1>1, <1>2, <1>3, <1>4, <1>5, <1>6 DEF SeedInv

(* What others do to the committed rows: none that a run has written goes  *)
(* or gets another address, and a run forgets an account that has gone.    *)
LEMMA EditKeeps ==
  ASSUME SeedInv, RowsKept(accounts'), operational' \in BOOLEAN, edits' \in 0 .. MaxEdits,
         \A u \in DOMAIN accounts \cap DOMAIN accounts' : accounts'[u].email = accounts[u].email,
         \A u \in DOMAIN accounts' \ DOMAIN accounts : ~ Locked(u),
         \A u \in DOMAIN accounts \ DOMAIN accounts' : ~ Locked(u),
         seed' = [q \in Seeds |->
           IF seed[q].user \in DOMAIN accounts \ DOMAIN accounts'
           THEN [seed[q] EXCEPT !.user = Nobody] ELSE seed[q]]
  PROVE  SeedInv'
  <1>1. ASSUME NEW q \in Seeds
        PROVE  /\ seed'[q].own = seed[q].own /\ seed'[q].at = seed[q].at
               /\ RunKept(seed'[q], accounts')
    <2>1. PICK r : r = seed[q] /\ RunKept(r, accounts)
      BY DEF SeedInv
    <2>2. \A u \in DOMAIN r.own : Locked(u)
      BY <2>1 DEF Locked
    <2>3. WritesOwn(r, accounts')
      BY <2>1, <2>2 DEF RunKept, WritesOwn
    <2>4. CASE r.user \in DOMAIN accounts \ DOMAIN accounts'
      <3> DEFINE s == [r EXCEPT !.user = Nobody]
      <3>1. /\ IsRun(s) /\ s.user = Nobody /\ s.at = r.at /\ s.own = r.own
            /\ s.item = r.item /\ s.first = r.first /\ s.active = r.active
        BY <2>1 DEF RunKept, IsRun
      <3>2. r.user /= Nobody
        BY <2>4 DEF SeedInv, RowsKept
      <3>3. r.at \notin Ended
        <4>1. ASSUME r.at \in Ended PROVE r.user = Nobody
          BY <2>1, <4>1 DEF RunKept, RunStands, NoSeed
        <4> QED BY <3>2, <4>1
      <3> HIDE DEF s
      <3>4. RunKept(s, accounts')
        BY <2>1, <2>3, <3>1, <3>3 DEF RunKept, RunStands, WritesOwn, FoundStands, SeededSoFar
      <3>5. seed'[q] = s
        BY <2>1, <2>4 DEF s
      <3> QED BY <2>1, <3>1, <3>4, <3>5
    <2>5. CASE r.user \notin DOMAIN accounts \ DOMAIN accounts'
      <3>1. seed'[q] = r
        BY <2>1, <2>5
      <3>2. FoundStands(r, accounts')
        BY <2>1, <2>5 DEF RunKept, FoundStands
      <3> QED BY <2>1, <2>3, <3>1, <3>2 DEF RunKept
    <2> QED BY <2>4, <2>5
  <1>2. OneWriter'
    BY <1>1 DEF SeedInv, OneWriter
  <1>3. seed' = [q \in Seeds |-> seed'[q]]
    OBVIOUS
  <1> QED BY <1>1, <1>2, <1>3 DEF SeedInv

LEMMA OtherEdits ==
  ASSUME SeedInv, Edit
  PROVE  SeedInv'
  <1>1. edits' \in 0 .. MaxEdits
    BY SeedAssumption DEF Edit, SeedInv
  <1>2. ASSUME UNCHANGED seed, DOMAIN accounts \subseteq DOMAIN accounts'
        PROVE  /\ \A u \in DOMAIN accounts \ DOMAIN accounts' : ~ Locked(u)
               /\ seed' = [q \in Seeds |->
                    IF seed[q].user \in DOMAIN accounts \ DOMAIN accounts'
                    THEN [seed[q] EXCEPT !.user = Nobody] ELSE seed[q]]
    <2>1. seed' = [q \in Seeds |-> seed[q]]
      BY <1>2 DEF SeedInv
    <2> QED BY <1>2, <2>1
  <1>3. ASSUME NEW e \in Table, Register(e) PROVE SeedInv'
    <2>1. PICK test \in BOOLEAN : accounts' = Put(accounts, Whole(e), Registered(e, test))
      BY <1>3 DEF Register
    <2>2. Registered(e, test) \in Rows /\ Registered(e, test).email = e
      BY DEF Registered, Rows
    <2>3. /\ DOMAIN accounts' = DOMAIN accounts \cup {Whole(e)}
          /\ accounts'[Whole(e)] = Registered(e, test)
          /\ \A u \in DOMAIN accounts : u /= Whole(e) => accounts'[u] = accounts[u]
      BY <2>1 DEF Put
    <2>4. Whole(e) /= Nobody
      <3>1. e /= Elsewhere
        BY DEF Table, EmailOf, Persona, Bulk, Elsewhere
      <3> QED BY <3>1 DEF Whole, Nobody
    <2>5. RowsKept(accounts')
      BY <2>2, <2>3, <2>4 DEF SeedInv, RowsKept
    <2>6. Whole(e) \notin DOMAIN accounts /\ UNCHANGED <<operational, seed>>
      BY <1>3 DEF Register
    <2>7. ~ Locked(Whole(e))
      <3>1. \A x : LocalPart(x) /= Whole(e)
        BY DEF LocalPart, Whole
      <3> QED BY <2>6, <3>1 DEF SeedInv, RunKept, WritesOwn, Locked
    <2> QED BY <1>1, <1>2, <2>3, <2>5, <2>6, <2>7, EditKeeps DEF SeedInv
  <1>4. ASSUME NEW e \in Table, CreateSuperuser(e) PROVE SeedInv'
    <2> DEFINE u == LocalPart(e)
               row == [Registered(Elsewhere, FALSE) EXCEPT !.verified = TRUE,
                                                           !.profile = TRUE]
    <2>1. /\ accounts' = Put(accounts, u, row)
          /\ u \notin DOMAIN accounts /\ ~ Locked(u) /\ UNCHANGED <<operational, seed>>
      BY <1>4 DEF CreateSuperuser
    <2>2. row \in Rows
      BY DEF Registered, Rows
    <2>3. u /= Nobody
      BY DEF LocalPart, Nobody, Whole
    <2> HIDE DEF u, row
    <2>4. /\ DOMAIN accounts' = DOMAIN accounts \cup {u} /\ accounts'[u] = row
          /\ \A v \in DOMAIN accounts : v /= u => accounts'[v] = accounts[v]
      BY <2>1 DEF Put
    <2>5. RowsKept(accounts')
      BY <2>2, <2>3, <2>4 DEF SeedInv, RowsKept
    <2> QED BY <1>1, <1>2, <2>1, <2>4, <2>5, EditKeeps DEF SeedInv
  <1>5. ASSUME NEW u \in DOMAIN accounts, VerifyEmail(u) \/ ToggleBlock(u) \/ OwnPassword(u)
        PROVE  SeedInv'
    <2>1. UNCHANGED <<operational, seed>>
      BY <1>5 DEF VerifyEmail, ToggleBlock, OwnPassword
    <2>2. accounts[u] \in Rows
      BY DEF SeedInv, RowsKept
    <2>3. \E row \in Rows : /\ accounts' = [accounts EXCEPT ![u] = row]
                           /\ row.email = accounts[u].email
      <3>1. PICK old \in Rows : old = accounts[u]
        BY <2>2
      <3>2. CASE VerifyEmail(u)
        <4> DEFINE new == [old EXCEPT !.verified = TRUE]
        <4>1. new \in Rows /\ new.email = old.email
          BY DEF Rows
        <4>2. accounts' = [accounts EXCEPT ![u] = new]
          BY <3>1, <3>2 DEF VerifyEmail
        <4> QED BY <3>1, <4>1, <4>2
      <3>3. CASE ToggleBlock(u)
        <4> DEFINE new == [old EXCEPT !.active = ~ @]
        <4>1. new \in Rows /\ new.email = old.email
          BY DEF Rows
        <4>2. accounts' = [accounts EXCEPT ![u] = new]
          BY <3>1, <3>3 DEF ToggleBlock
        <4> QED BY <3>1, <4>1, <4>2
      <3>4. CASE OwnPassword(u)
        <4> DEFINE new == [old EXCEPT !.password = "own"]
        <4>1. new \in Rows /\ new.email = old.email
          BY DEF Rows
        <4>2. accounts' = [accounts EXCEPT ![u] = new]
          BY <3>1, <3>4 DEF OwnPassword
        <4> QED BY <3>1, <4>1, <4>2
      <3> QED BY <1>5, <3>2, <3>3, <3>4
    <2>4. PICK row \in Rows : /\ accounts' = [accounts EXCEPT ![u] = row]
                             /\ row.email = accounts[u].email
      BY <2>3
    <2>5. /\ DOMAIN accounts' = DOMAIN accounts /\ accounts'[u] = row
          /\ \A v \in DOMAIN accounts : v /= u => accounts'[v] = accounts[v]
      BY <2>4
    <2>6. RowsKept(accounts')
      BY <2>2, <2>4, <2>5 DEF SeedInv, RowsKept
    <2> QED BY <1>1, <1>2, <2>1, <2>4, <2>5, <2>6, EditKeeps DEF SeedInv
  <1>6. CASE DeleteTestUsers
    <2> DEFINE kept == {u \in DOMAIN accounts : ~ accounts[u].test}
    <2>1. /\ \A u \in DOMAIN accounts \ kept : ~ Locked(u)
          /\ accounts' = [u \in kept |-> accounts[u]]
          /\ seed' = [q \in Seeds |->
               IF seed[q].user \in DOMAIN accounts \ kept
               THEN [seed[q] EXCEPT !.user = Nobody] ELSE seed[q]]
          /\ UNCHANGED operational
      BY <1>6 DEF DeleteTestUsers
    <2>2. kept \subseteq DOMAIN accounts
      OBVIOUS
    <2> HIDE DEF kept
    <2>3. DOMAIN accounts' = kept /\ \A u \in kept : accounts'[u] = accounts[u]
      BY <2>1
    <2>4. RowsKept(accounts')
      BY <2>2, <2>3 DEF SeedInv, RowsKept
    <2> QED BY <1>1, <2>1, <2>2, <2>3, <2>4, EditKeeps DEF SeedInv
  <1>7. CASE SetStatus
    BY <1>1, <1>2, <1>7, EditKeeps DEF SetStatus, SeedInv
  <1> QED BY <1>3, <1>4, <1>5, <1>6, <1>7 DEF Edit

LEMMA ProfileKeeps ==
  ASSUME SeedInv, NEW u \in DOMAIN accounts, InsertProfile(u)
  PROVE  /\ UNCHANGED <<operational, seed, edits>> /\ DOMAIN accounts' = DOMAIN accounts
         /\ \A v \in DOMAIN accounts :
              /\ accounts'[v].email = accounts[v].email
              /\ accounts[v].profile => accounts'[v].profile
         /\ SeedInv'
  <1>1. PICK old \in Rows : old = accounts[u]
    BY DEF SeedInv, RowsKept
  <1> DEFINE new == [old EXCEPT !.profile = TRUE]
  <1>2. new \in Rows /\ new.email = old.email /\ new.profile
    BY DEF Rows
  <1>3. accounts' = [accounts EXCEPT ![u] = new] /\ UNCHANGED <<operational, seed, edits>>
    BY <1>1 DEF InsertProfile
  <1> HIDE DEF new
  <1>4. /\ DOMAIN accounts' = DOMAIN accounts /\ accounts'[u] = new
        /\ \A v \in DOMAIN accounts : v /= u => accounts'[v] = accounts[v]
    BY <1>3
  <1>5. /\ RowsKept(accounts')
        /\ \A v \in DOMAIN accounts :
             /\ accounts'[v].email = accounts[v].email
             /\ accounts[v].profile => accounts'[v].profile
    BY <1>1, <1>2, <1>4 DEF SeedInv, RowsKept
  <1>6. seed' = [q \in Seeds |->
          IF seed[q].user \in DOMAIN accounts \ DOMAIN accounts'
          THEN [seed[q] EXCEPT !.user = Nobody] ELSE seed[q]]
    BY <1>3, <1>4 DEF SeedInv
  <1>7. SeedInv'
    BY <1>3, <1>4, <1>5, <1>6, EditKeeps DEF SeedInv
  <1> QED BY <1>3, <1>4, <1>5, <1>7

LEMMA SeedsKeep == SeedInv /\ [OperationsNext]_operationVars => SeedInv'
  <1> SUFFICES ASSUME SeedInv, SeedNext \/ UNCHANGED seedVars PROVE SeedInv'
    BY DEF OperationsNext, operationVars
  <1>1. ASSUME NEW p \in Seeds, Start(p) \/ SeedStep(p) \/ Killed(p) PROVE SeedInv'
    <2>1. GetFails(p) \/ SaveFails(p) \/ Killed(p) => \E how \in Ended : Abort(p, how)
      BY DEF GetFails, SaveFails, Killed, Ended
    <2> QED BY <1>1, <2>1, StartKeeps, GetUserKeeps, CreateUserPuts, AbortKeeps,
           SaveUserPuts, WriteKeeps, StatusKeeps, CommitKeeps DEF SeedStep
  <1>2. CASE UNCHANGED seedVars
    BY <1>2 DEF seedVars, SeedInv, OneWriter
  <1> QED BY <1>1, <1>2, OtherEdits, ProfileKeeps DEF SeedNext

LEMMA SeedsHold == SeedInv => SeedTypeOK
  BY DEF SeedInv, RowsKept, RunKept, RunStands, WritesOwn, SeedTypeOK

(* Accounts and open transactions are well-formed, with any number of      *)
(* seeds and accounts; a run that has ended holds no rows.                 *)
THEOREM SeedTypes == OperationsSpec => []SeedTypeOK
  BY SeedsHold, SeedsBegin, SeedsKeep, PTL DEF OperationsSpec

(* What a step does to the run, field by field.                            *)
Only(p) ==
  /\ \A q \in Seeds : q /= p => seed'[q] = seed[q]
  /\ UNCHANGED <<accounts, operational, edits>>

LEMMA StartEffect ==
  ASSUME SeedInv, NEW p \in Seeds, Start(p)
  PROVE  /\ Only(p) /\ seed[p].at \in Ended
         /\ \/ seed'[p] = NoSeed("refused")
            \/ /\ seed'[p].at = "get" /\ seed'[p].item = 1 /\ seed'[p].own = <<>>
               /\ seed'[p].since = edits /\ seed'[p].clean = Clean
  <1> DEFINE r == [NoSeed("get") EXCEPT !.item = 1, !.first = FirstNumber,
                                        !.since = edits, !.clean = Clean]
  <1>1. /\ r.at = "get" /\ r.item = 1 /\ r.own = <<>> /\ r.since = edits
        /\ r.clean = Clean
    BY DEF NoSeed
  <1>2. /\ seed' = [seed EXCEPT ![p] = IF Debug THEN r ELSE NoSeed("refused")]
        /\ UNCHANGED <<accounts, operational, edits>> /\ seed[p].at \in Ended
    BY DEF Start
  <1> HIDE DEF r
  <1>3. Only(p)
    BY <1>2 DEF Only, SeedInv
  <1>4. seed'[p] = IF Debug THEN r ELSE NoSeed("refused")
    BY <1>2 DEF SeedInv
  <1> QED BY <1>1, <1>2, <1>3, <1>4

LEMMA GetEffect ==
  ASSUME SeedInv, NEW p \in Seeds, GetUser(p)
  PROVE  /\ Only(p) /\ seed[p].at = "get" /\ seed'[p].at = "save"
         /\ seed'[p].user /= Nobody /\ seed'[p].own = seed[p].own
         /\ seed'[p].item = seed[p].item /\ seed'[p].since = seed[p].since
         /\ seed'[p].clean = seed[p].clean
  <1>1. PICK u \in Holders(View(p), Wanted(p)) :
          seed' = [seed EXCEPT ![p].at = "save", ![p].user = u,
                               ![p].active = View(p)[u].active]
    BY DEF GetUser
  <1>2. PICK s : s = seed[p] /\ IsRun(s)
    BY DEF SeedInv, RunKept
  <1> DEFINE r == [s EXCEPT !.at = "save", !.user = u, !.active = View(p)[u].active]
  <1>3. seed' = [seed EXCEPT ![p] = r]
    BY <1>1, <1>2 DEF SeedInv
  <1>4. /\ r.at = "save" /\ r.user = u /\ r.own = s.own /\ r.item = s.item
        /\ r.since = s.since /\ r.clean = s.clean
    BY <1>2 DEF IsRun
  <1>5. u /= Nobody
    BY Seen DEF Holders
  <1> HIDE DEF r
  <1>6. seed'[p] = r /\ Only(p)
    BY <1>3 DEF SeedInv, GetUser, Only
  <1> QED BY <1>2, <1>4, <1>5, <1>6 DEF GetUser

LEMMA StatusEffect ==
  ASSUME SeedInv, NEW p \in Seeds, SeedStatus(p)
  PROVE  /\ Only(p) /\ seed[p].at = "status" /\ seed'[p].at = "commit"
         /\ seed'[p].own = seed[p].own /\ seed'[p].since = seed[p].since
         /\ seed'[p].clean = seed[p].clean /\ seed'[p].item = seed[p].item
         /\ seed'[p].lifts = ~ operational
  <1>1. PICK s : s = seed[p] /\ IsRun(s)
    BY DEF SeedInv, RunKept
  <1> DEFINE r == [s EXCEPT !.at = "commit", !.lifts = ~ operational]
  <1>2. seed' = [seed EXCEPT ![p] = r]
    BY <1>1 DEF SeedInv, SeedStatus
  <1>3. /\ r.at = "commit" /\ r.own = s.own /\ r.since = s.since /\ r.clean = s.clean
        /\ r.item = s.item /\ r.lifts = ~ operational
    BY <1>1 DEF IsRun
  <1> HIDE DEF r
  <1>4. seed'[p] = r /\ Only(p)
    BY <1>2 DEF SeedInv, SeedStatus, Only
  <1> QED BY <1>1, <1>3, <1>4 DEF SeedStatus

LEMMA WriteEffect ==
  ASSUME SeedInv, NEW p \in Seeds, NEW u, NEW row, Puts(p, u, row)
  PROVE  /\ Only(p) /\ seed'[p].at \in {"get", "status"}
         /\ seed'[p].item = seed[p].item + 1
         /\ DOMAIN seed'[p].own = DOMAIN seed[p].own \cup {u}
         /\ \A v \in DOMAIN seed[p].own : v /= u => seed'[p].own[v] = seed[p].own[v]
         /\ seed'[p].own[u].email = EmailOf(seed[p].item, 0)
         /\ seed'[p].since = seed[p].since /\ seed'[p].clean = seed[p].clean
  <1>1. PICK s : s = seed[p] /\ IsRun(s)
    BY DEF SeedInv, RunKept
  <1> DEFINE own == Put(s.own, u, AfterGeneration(row, s.item))
             at == IF s.item + 1 \in Items THEN "get" ELSE "status"
             r == [s EXCEPT !.own = own, !.at = at, !.item = s.item + 1]
  <1>2. seed' = [seed EXCEPT ![p] = r]
    BY <1>1 DEF SeedInv, Puts, Write
  <1>3. /\ DOMAIN own = DOMAIN s.own \cup {u} /\ own[u] = AfterGeneration(row, s.item)
        /\ \A v \in DOMAIN s.own : v /= u => own[v] = s.own[v]
    BY DEF Put
  <1> HIDE DEF own, at
  <1>4. /\ r.at = at /\ r.own = own /\ r.item = s.item + 1
        /\ r.since = s.since /\ r.clean = s.clean
    BY <1>1 DEF IsRun
  <1> HIDE DEF r
  <1>5. seed'[p] = r /\ Only(p)
    BY <1>2 DEF SeedInv, Puts, Only
  <1>6. at \in {"get", "status"}
    BY DEF at
  <1> QED BY <1>1, <1>3, <1>4, <1>5, <1>6 DEF Puts

LEMMA AbortEffect ==
  ASSUME SeedInv, NEW p \in Seeds, GetFails(p) \/ SaveFails(p) \/ Killed(p)
  PROVE  /\ Only(p) /\ seed[p].at \notin Ended
         /\ \E how \in {"failed", "killed"} : seed'[p] = NoSeed(how)
         /\ Killed(p) => seed'[p] = NoSeed("killed")
  BY DEF SeedInv, GetFails, SaveFails, Killed, Abort, Only, Ended

LEMMA EditEffect ==
  ASSUME SeedInv, NEW p \in Seeds, Edit
  PROVE  /\ seed'[p].at = seed[p].at /\ seed'[p].item = seed[p].item
         /\ seed'[p].own = seed[p].own /\ seed'[p].since = seed[p].since
  <1>1. PICK s : s = seed[p] /\ IsRun(s)
    BY DEF SeedInv, RunKept
  <1>2. PICK r : r = [s EXCEPT !.user = Nobody]
    OBVIOUS
  <1>3. r.since = s.since /\ r.own = s.own /\ r.at = s.at /\ r.item = s.item
    BY <1>1, <1>2 DEF IsRun
  <1>4. seed'[p] = r \/ seed'[p] = s
    BY <1>1, <1>2 DEF Edit, Register, VerifyEmail, ToggleBlock, OwnPassword,
       DeleteTestUsers, CreateSuperuser, SetStatus
  <1> QED BY <1>1, <1>3, <1>4

(* A username has an account of the e-mail, committed or not.              *)
Claims(u, e) ==
  \/ u \in DOMAIN accounts /\ accounts[u].email = e
  \/ \E q \in Seeds : u \in DOMAIN seed[q].own /\ seed[q].own[u].email = e

(* What a clean start finds, and what only an edit disturbs.               *)
Undisputed ==
  \A e \in Table :
    /\ \A u, v : Claims(u, e) /\ Claims(v, e) => u = v
    /\ \A u \in DOMAIN accounts : accounts[u].email = e => accounts[u].profile
    /\ LocalPart(e) \in DOMAIN accounts => accounts[LocalPart(e)].email = e

(* Accounts of a run belong to items it has been through; the one it has   *)
(* found can only have gone by an edit.                                    *)
PlaceKept(p) ==
  /\ seed[p].since \in 0 .. edits
  /\ seed[p].at = "save" /\ seed[p].since = edits => seed[p].user /= Nobody
  /\ seed[p].at \in {"get", "save"} => \A u \in DOMAIN seed[p].own :
       \E j \in Items : j < seed[p].item /\ seed[p].own[u].email = EmailOf(j, 0)

CauseInv ==
  /\ \A p \in Seeds : PlaceKept(p)
  /\ (\E p \in Seeds : seed[p].at \notin Ended /\ seed[p].clean /\ seed[p].since = edits) =>
       Undisputed

LEMMA CauseBegins == OperationsInit => CauseInv
  BY SeedAssumption DEF OperationsInit, InitSeed, CauseInv, PlaceKept, NoSeed, Ended

LEMMA SeenClaims ==
  ASSUME SeedInv, NEW p \in Seeds, NEW u, NEW e
  PROVE  u \in Holders(View(p), e) <=>
           \/ u \in DOMAIN accounts /\ accounts[u].email = e
           \/ u \in DOMAIN seed[p].own /\ seed[p].own[u].email = e
  BY Seen DEF Holders

LEMMA CleanUndisputed == SeedInv /\ Clean /\ Seeds /= {} => Undisputed
  <1> SUFFICES ASSUME SeedInv, Clean, Seeds /= {}, NEW e \in Table
               PROVE  /\ \A u, v : Claims(u, e) /\ Claims(v, e) => u = v
                      /\ \A u \in DOMAIN accounts :
                           accounts[u].email = e => accounts[u].profile
                      /\ LocalPart(e) \in DOMAIN accounts => accounts[LocalPart(e)].email = e
    BY DEF Undisputed
  <1>1. ASSUME NEW u, Claims(u, e) PROVE u \in UNION {Holders(View(p), e) : p \in Seeds}
    BY <1>1, SeenClaims DEF Claims
  <1> QED BY <1>1 DEF Clean, Holders

(* Steps after which no account has an address it had not.                 *)
LEMMA StaysUndisputed ==
  ASSUME Undisputed,
         \A e \in Table : \A u : Claims(u, e)' => Claims(u, e),
         \A u \in DOMAIN accounts' :
           \/ accounts'[u].profile
           \/ /\ u \in DOMAIN accounts /\ accounts'[u].email = accounts[u].email
              /\ ~ accounts[u].profile,
         \A e \in Table : LocalPart(e) \in DOMAIN accounts' =>
           accounts'[LocalPart(e)].email = e
  PROVE  Undisputed'
  BY DEF Undisputed

LEMMA PlaceHolds ==
  ASSUME CauseInv, NEW p \in Seeds, Only(p), PlaceKept(p)'
  PROVE  \A q \in Seeds : PlaceKept(q)'
  BY DEF CauseInv, PlaceKept, Only

(* Reading, rolling back and starting.                                     *)
LEMMA QuietCause ==
  ASSUME SeedInv, CauseInv, NEW p \in Seeds, Only(p), PlaceKept(p)',
         seed'[p].own = seed[p].own \/ DOMAIN seed'[p].own = {},
         seed'[p].at \notin Ended /\ seed'[p].clean /\ seed'[p].since = edits =>
           Undisputed
  PROVE  CauseInv'
  <1>1. \A q \in Seeds : PlaceKept(q)'
    BY PlaceHolds
  <1>2. \A e \in Table : \A u : Claims(u, e)' => Claims(u, e)
    BY DEF Only, Claims
  <1>3. ASSUME NEW q \in Seeds, seed'[q].at \notin Ended, seed'[q].clean,
               seed'[q].since = edits'
        PROVE  Undisputed'
    <2>1. Undisputed
      BY <1>3 DEF Only, CauseInv
    <2>2. \A e \in Table : LocalPart(e) \in DOMAIN accounts' =>
            accounts'[LocalPart(e)].email = e
      BY <2>1 DEF Undisputed, Only
    <2>3. accounts' = accounts
      BY DEF Only
    <2> QED BY <1>2, <2>1, <2>2, <2>3, StaysUndisputed
  <1> QED BY <1>1, <1>3 DEF CauseInv

LEMMA WriteCause ==
  ASSUME SeedInv, CauseInv, NEW p \in Seeds, NEW u, NEW row, Puts(p, u, row),
         u \in DOMAIN accounts \/ Holders(View(p), EmailOf(seed[p].item, 0)) = {}
  PROVE  CauseInv'
  <1> DEFINE w == EmailOf(seed[p].item, 0)
  <1>1. /\ Only(p) /\ seed'[p].at \in {"get", "status"}
        /\ seed'[p].item = seed[p].item + 1
        /\ DOMAIN seed'[p].own = DOMAIN seed[p].own \cup {u}
        /\ \A v \in DOMAIN seed[p].own : v /= u => seed'[p].own[v] = seed[p].own[v]
        /\ seed'[p].own[u].email = w
        /\ seed'[p].since = seed[p].since /\ seed'[p].clean = seed[p].clean
    BY WriteEffect
  <1>2. seed[p].item \in Items /\ seed[p].item \in Nat /\ seed[p].at \in {"get", "save"}
    BY SeedAssumption DEF Puts, SeedInv, RunKept, RunStands, Items
  <1>3. PlaceKept(p)'
    <2>1. ASSUME NEW v \in DOMAIN seed'[p].own
          PROVE  \E j \in Items : j < seed'[p].item /\ seed'[p].own[v].email = EmailOf(j, 0)
      <3>1. CASE v = u
        BY <1>1, <1>2, <3>1
      <3>2. CASE v /= u
        <4>1. PICK j \in Items : j < seed[p].item /\ seed[p].own[v].email = EmailOf(j, 0)
          BY <1>1, <1>2, <3>2 DEF CauseInv, PlaceKept
        <4>2. j < seed[p].item + 1
          BY <1>2, <4>1, SeedAssumption DEF Items
        <4> QED BY <1>1, <3>2, <4>1, <4>2
      <3> QED BY <3>1, <3>2
    <2> QED BY <1>1, <2>1 DEF CauseInv, PlaceKept, Only
  <1>4. \A q \in Seeds : PlaceKept(q)'
    BY <1>1, <1>3, PlaceHolds
  <1>5. ASSUME NEW q \in Seeds, seed'[q].at \notin Ended, seed'[q].clean,
               seed'[q].since = edits'
        PROVE  Undisputed'
    <2>1. Undisputed
      <3>1. seed[p].at \notin Ended
        BY <1>2 DEF Ended
      <3> QED BY <1>1, <1>5, <3>1 DEF Only, CauseInv
    <2>2. \A e : \A v : v /= u => (Claims(v, e)' <=> Claims(v, e))
      BY <1>1 DEF Only, Claims
    <2>3. \A e : e /= w => (Claims(u, e)' => Claims(u, e))
      BY <1>1 DEF Only, Claims
    <2>4. ASSUME NEW v, Claims(v, w) PROVE v = u
      <3>1. CASE u \in DOMAIN accounts
        <4>1. accounts[u].email = w
          BY <3>1, Seen DEF Puts
        <4>2. w \in Table
          BY <1>2, FlagsKnown
        <4> QED BY <2>1, <2>4, <3>1, <4>1, <4>2 DEF Undisputed, Claims
      <3>2. CASE u \notin DOMAIN accounts
        <4>1. Holders(View(p), w) = {}
          BY <3>2
        <4>2. ~ (v \in DOMAIN accounts /\ accounts[v].email = w)
          BY <4>1, SeenClaims
        <4>3. PICK r \in Seeds : v \in DOMAIN seed[r].own /\ seed[r].own[v].email = w
          BY <2>4, <4>2 DEF Claims
        <4>4. v = LocalPart(w)
          BY <4>2, <4>3 DEF SeedInv, RunKept, WritesOwn
        <4>5. u \notin DOMAIN View(p)
          BY <3>2, <4>1 DEF Puts, Holders
        <4> QED BY <4>4, <4>5 DEF Puts
      <3> QED BY <3>1, <3>2
    <2>5. ASSUME NEW e \in Table, NEW v1, NEW v2, Claims(v1, e)', Claims(v2, e)'
          PROVE  v1 = v2
      <3>1. CASE e = w
        BY <2>2, <2>4, <2>5, <3>1
      <3>2. CASE e /= w
        BY <2>1, <2>2, <2>3, <2>5, <3>2 DEF Undisputed
      <3> QED BY <3>1, <3>2
    <2>6. \A e \in Table : LocalPart(e) \in DOMAIN accounts' =>
            accounts'[LocalPart(e)].email = e
      BY <1>1, <2>1 DEF Undisputed, Only
    <2>7. \A e \in Table : \A v \in DOMAIN accounts' :
            accounts'[v].email = e => accounts'[v].profile
      BY <1>1, <2>1 DEF Undisputed, Only
    <2> QED BY <2>5, <2>6, <2>7 DEF Undisputed
  <1> QED BY <1>4, <1>5 DEF CauseInv

LEMMA CommitCause ==
  ASSUME SeedInv, CauseInv, NEW p \in Seeds, Commit(p)
  PROVE  CauseInv'
  <1>1. /\ seed'[p] = NoSeed("done") /\ accounts' = View(p) /\ UNCHANGED edits
        /\ \A q \in Seeds : q /= p => seed'[q] = seed[q]
    BY DEF Commit, SeedInv
  <1>2. /\ NoSeed("done").own = <<>> /\ NoSeed("done").at = "done" /\ NoSeed("done").since = 0
    BY DEF NoSeed
  <1>3. \A q \in Seeds : PlaceKept(q)'
    BY <1>1, <1>2, SeedAssumption DEF CauseInv, PlaceKept, SeedInv
  <1>4. \A e \in Table : \A u : Claims(u, e)' => Claims(u, e)
    <2> SUFFICES ASSUME NEW e \in Table, NEW u, Claims(u, e)' PROVE Claims(u, e)
      OBVIOUS
    <2>1. CASE u \in DOMAIN accounts' /\ accounts'[u].email = e
      <3>1. u \in Holders(View(p), e)
        BY <1>1, <2>1 DEF Holders
      <3> QED BY <3>1, SeenClaims DEF Claims
    <2>2. CASE \E q \in Seeds : u \in DOMAIN seed'[q].own /\ seed'[q].own[u].email = e
      BY <1>1, <1>2, <2>2 DEF Claims
    <2> QED BY <2>1, <2>2 DEF Claims
  <1>5. ASSUME NEW q \in Seeds, seed'[q].at \notin Ended, seed'[q].clean,
               seed'[q].since = edits'
        PROVE  Undisputed'
    <2>1. Undisputed
      BY <1>1, <1>2, <1>5 DEF CauseInv, Ended
    <2>2. ASSUME NEW e \in Table, LocalPart(e) \in DOMAIN View(p)
          PROVE  View(p)[LocalPart(e)].email = e
      <3>1. CASE LocalPart(e) \in DOMAIN accounts
        BY <2>1, <3>1, Seen DEF Undisputed
      <3>2. CASE LocalPart(e) \notin DOMAIN accounts
        <4>1. LocalPart(e) \in DOMAIN seed[p].own
          BY <2>2, <3>2, Seen
        <4>2. LocalPart(e) = LocalPart(seed[p].own[LocalPart(e)].email)
          BY <3>2, <4>1 DEF SeedInv, RunKept, WritesOwn
        <4>3. seed[p].own[LocalPart(e)].email = e
          BY <4>2 DEF LocalPart
        <4> QED BY <4>1, <4>3, Seen
      <3> QED BY <3>1, <3>2
    <2>3. ASSUME NEW u \in DOMAIN View(p)
          PROVE  \/ View(p)[u].profile
                 \/ /\ u \in DOMAIN accounts /\ View(p)[u].email = accounts[u].email
                    /\ ~ accounts[u].profile
      <3>1. CASE u \in DOMAIN seed[p].own
        BY <3>1, Seen DEF SeedInv, RunKept, WritesOwn
      <3>2. CASE u \notin DOMAIN seed[p].own
        BY <3>2, Seen
      <3> QED BY <3>1, <3>2
    <2> QED BY <1>1, <1>4, <2>1, <2>2, <2>3, StaysUndisputed
  <1> QED BY <1>3, <1>5 DEF CauseInv

LEMMA EditCause ==
  ASSUME SeedInv, CauseInv, Edit
  PROVE  CauseInv'
  <1>1. edits \in Nat /\ edits' = edits + 1
    BY SeedAssumption DEF Edit, SeedInv
  <1>2. ASSUME NEW q \in Seeds
        PROVE  /\ seed'[q].since = seed[q].since /\ seed'[q].own = seed[q].own
               /\ seed'[q].at = seed[q].at /\ seed'[q].item = seed[q].item
    BY EditEffect
  <1>3. \A q \in Seeds : seed[q].since \in 0 .. edits
    BY DEF CauseInv, PlaceKept
  <1>4. \A q \in Seeds : seed'[q].since \in 0 .. edits' /\ seed'[q].since /= edits'
    BY <1>1, <1>2, <1>3
  <1>5. \A q \in Seeds : PlaceKept(q)'
    BY <1>2, <1>4 DEF CauseInv, PlaceKept
  <1> QED BY <1>4, <1>5 DEF CauseInv

LEMMA CauseKeeps == SeedInv /\ CauseInv /\ [OperationsNext]_operationVars => CauseInv'
  <1> SUFFICES ASSUME SeedInv, CauseInv, SeedNext \/ UNCHANGED seedVars PROVE CauseInv'
    BY DEF OperationsNext, operationVars
  <1>1. ASSUME NEW p \in Seeds, Start(p) PROVE CauseInv'
    <2>1. \A how : /\ NoSeed(how).at = how /\ NoSeed(how).own = <<>>
                   /\ NoSeed(how).since = 0
      BY DEF NoSeed
    <2>2. edits \in Nat
      BY SeedAssumption DEF SeedInv
    <2>3. CASE seed'[p] = NoSeed("refused")
      <3>1. PlaceKept(p)' /\ Only(p)
        BY <1>1, <2>1, <2>2, <2>3, StartEffect DEF PlaceKept, Only
      <3> QED BY <2>1, <2>3, <3>1, QuietCause DEF Ended
    <2>4. CASE seed'[p] /= NoSeed("refused")
      <3>1. /\ Only(p) /\ seed'[p].at = "get" /\ seed'[p].own = <<>>
            /\ seed'[p].since = edits /\ seed'[p].clean = Clean
        BY <1>1, <2>4, StartEffect
      <3>2. PlaceKept(p)'
        BY <2>2, <3>1 DEF PlaceKept, Only
      <3> QED BY <3>1, <3>2, CleanUndisputed, QuietCause
    <2> QED BY <2>3, <2>4
  <1>2. ASSUME NEW p \in Seeds, GetUser(p) PROVE CauseInv'
    <2>1. /\ Only(p) /\ seed[p].at = "get" /\ seed'[p].at = "save"
          /\ seed'[p].user /= Nobody /\ seed'[p].own = seed[p].own
          /\ seed'[p].item = seed[p].item /\ seed'[p].since = seed[p].since
          /\ seed'[p].clean = seed[p].clean
      BY <1>2, GetEffect
    <2>2. PlaceKept(p)'
      BY <2>1 DEF CauseInv, PlaceKept, Only
    <2> QED BY <2>1, <2>2, QuietCause DEF CauseInv, Ended
  <1>3. ASSUME NEW p \in Seeds, SeedStatus(p) PROVE CauseInv'
    <2>1. /\ Only(p) /\ seed[p].at = "status" /\ seed'[p].at = "commit"
          /\ seed'[p].own = seed[p].own /\ seed'[p].since = seed[p].since
          /\ seed'[p].clean = seed[p].clean
      BY <1>3, StatusEffect
    <2>2. PlaceKept(p)'
      BY <2>1 DEF CauseInv, PlaceKept, Only
    <2> QED BY <2>1, <2>2, QuietCause DEF CauseInv, Ended
  <1>4. ASSUME NEW p \in Seeds, GetFails(p) \/ SaveFails(p) \/ Killed(p) PROVE CauseInv'
    <2>1. PICK how \in {"failed", "killed"} : seed'[p] = NoSeed(how) /\ Only(p)
      BY <1>4, AbortEffect
    <2>2. NoSeed(how).at = how /\ NoSeed(how).own = <<>> /\ NoSeed(how).since = 0
      BY DEF NoSeed
    <2>3. PlaceKept(p)'
      BY <2>1, <2>2, SeedAssumption DEF PlaceKept, Only, SeedInv
    <2> QED BY <2>1, <2>2, <2>3, QuietCause DEF Ended
  <1>5. ASSUME NEW p \in Seeds, CreateUser(p) PROVE CauseInv'
    <2>1. PICK row : Puts(p, LocalPart(Wanted(p)), row)
      BY <1>5, CreateUserPuts
    <2>2. Holders(View(p), EmailOf(seed[p].item, 0)) = {}
      BY <1>5 DEF CreateUser, Wanted, SeedInv, RunKept, RunStands, Ended
    <2> QED BY <2>1, <2>2, WriteCause
  <1>6. ASSUME NEW p \in Seeds, SaveUser(p) PROVE CauseInv'
    <2>1. PICK row : Puts(p, seed[p].user, row)
      BY <1>6, SaveUserPuts
    <2>2. seed[p].user \in DOMAIN accounts
      BY <1>6 DEF SaveUser
    <2> QED BY <2>1, <2>2, WriteCause
  <1>7. CASE UNCHANGED seedVars
    BY <1>7 DEF seedVars, CauseInv, PlaceKept, Undisputed, Claims
  <1>8. ASSUME NEW u \in DOMAIN accounts, InsertProfile(u) PROVE CauseInv'
    <2>1. /\ UNCHANGED <<seed, edits>> /\ DOMAIN accounts' = DOMAIN accounts
          /\ \A v \in DOMAIN accounts :
               /\ accounts'[v].email = accounts[v].email
               /\ accounts[v].profile => accounts'[v].profile
      BY <1>8, ProfileKeeps
    <2>2. \A q \in Seeds : PlaceKept(q)'
      BY <2>1 DEF CauseInv, PlaceKept
    <2>3. \A e : \A v : Claims(v, e)' <=> Claims(v, e)
      BY <2>1 DEF Claims
    <2>4. Undisputed => Undisputed'
      BY <2>1, <2>3 DEF Undisputed
    <2> QED BY <2>1, <2>2, <2>4 DEF CauseInv
  <1> QED BY <1>1, <1>2, <1>3, <1>4, <1>5, <1>6, <1>7, <1>8, CommitCause, EditCause
      DEF SeedNext, SeedStep

(* Of what a run has inserted, and of the switch, only an edit can have    *)
(* changed the ground since.                                               *)
NewRows(p) ==
  \A u \in DOMAIN seed[p].own \ DOMAIN accounts :
    edits > seed[p].since \/ Holders(accounts, seed[p].own[u].email) = {}

SwitchOn(p) ==
  seed[p].at = "commit" /\ edits = seed[p].since => seed[p].lifts \/ operational

GroundInv == \A p \in Seeds : NewRows(p) /\ SwitchOn(p)

LEMMA GroundBegins == OperationsInit => GroundInv
  BY DEF OperationsInit, InitSeed, GroundInv, NewRows, SwitchOn, NoSeed

(* Steps of one run that leave the committed rows.                         *)
LEMMA GroundStays ==
  ASSUME GroundInv, NEW p \in Seeds, Only(p), NewRows(p)', SwitchOn(p)'
  PROVE  GroundInv'
  BY DEF GroundInv, NewRows, SwitchOn, Only, Holders

LEMMA WriteGround ==
  ASSUME SeedInv, GroundInv, NEW p \in Seeds, NEW u, NEW row, Puts(p, u, row),
         u \in DOMAIN accounts \/ Holders(View(p), EmailOf(seed[p].item, 0)) = {}
  PROVE  GroundInv'
  <1>1. /\ Only(p) /\ seed'[p].at \in {"get", "status"}
        /\ DOMAIN seed'[p].own = DOMAIN seed[p].own \cup {u}
        /\ \A v \in DOMAIN seed[p].own : v /= u => seed'[p].own[v] = seed[p].own[v]
        /\ seed'[p].own[u].email = EmailOf(seed[p].item, 0)
        /\ seed'[p].since = seed[p].since
    BY WriteEffect
  <1>2. accounts' = accounts /\ edits' = edits
    BY <1>1 DEF Only
  <1>3. ASSUME NEW v \in DOMAIN seed'[p].own \ DOMAIN accounts
        PROVE  edits > seed[p].since \/ Holders(accounts, seed'[p].own[v].email) = {}
    <2>1. CASE v = u
      <3>1. Holders(View(p), EmailOf(seed[p].item, 0)) = {}
        BY <1>3, <2>1
      <3>2. Holders(accounts, EmailOf(seed[p].item, 0)) = {}
        BY <3>1, Seen DEF Holders
      <3> QED BY <1>1, <2>1, <3>2
    <2>2. CASE v /= u
      BY <1>1, <1>3, <2>2 DEF GroundInv, NewRows
    <2> QED BY <2>1, <2>2
  <1>4. NewRows(p)'
    BY <1>1, <1>2, <1>3 DEF NewRows, Holders
  <1>5. SwitchOn(p)'
    BY <1>1 DEF SwitchOn
  <1> QED BY <1>1, <1>4, <1>5, GroundStays

(* A commit inserts no account for an address that another run has one for *)
(* in hand: both would be under the same username.                         *)
LEMMA CommitGround ==
  ASSUME SeedInv, GroundInv, NEW p \in Seeds, Commit(p)
  PROVE  GroundInv'
  <1>1. /\ seed'[p] = NoSeed("done") /\ accounts' = View(p) /\ UNCHANGED edits
        /\ operational' = (operational \/ seed[p].lifts)
        /\ \A q \in Seeds : q /= p => seed'[q] = seed[q]
    BY DEF Commit, SeedInv
  <1>2. NewRows(p)' /\ SwitchOn(p)'
    BY <1>1 DEF NewRows, SwitchOn, NoSeed
  <1>3. ASSUME NEW q \in Seeds, q /= p PROVE NewRows(q)' /\ SwitchOn(q)'
    <2>1. SwitchOn(q)'
      BY <1>1, <1>3 DEF GroundInv, SwitchOn, SeedInv
    <2>2. ASSUME NEW u \in DOMAIN seed[q].own \ DOMAIN View(p),
                 Holders(accounts, seed[q].own[u].email) = {},
                 NEW v \in Holders(View(p), seed[q].own[u].email)
          PROVE  FALSE
      <3>1. u \notin DOMAIN accounts /\ u = LocalPart(seed[q].own[u].email)
        BY <2>2, Seen DEF SeedInv, RunKept, WritesOwn
      <3>2. v \notin DOMAIN accounts
        BY <2>2, Seen DEF Holders
      <3>3. v \in DOMAIN seed[p].own /\ seed[p].own[v].email = seed[q].own[u].email
        BY <2>2, <3>2, Seen DEF Holders
      <3>4. v = u
        BY <3>1, <3>2, <3>3 DEF SeedInv, RunKept, WritesOwn
      <3> QED BY <1>3, <2>2, <3>3, <3>4 DEF SeedInv, OneWriter
    <2>3. DOMAIN accounts \subseteq DOMAIN View(p)
      BY Seen
    <2>4. ASSUME NEW u \in DOMAIN seed[q].own \ DOMAIN View(p)
          PROVE  edits > seed[q].since \/ Holders(View(p), seed[q].own[u].email) = {}
      BY <2>2, <2>3, <2>4 DEF GroundInv, NewRows
    <2>5. NewRows(q)'
      BY <1>1, <1>3, <2>4 DEF NewRows, Holders
    <2> QED BY <2>1, <2>5
  <1> QED BY <1>2, <1>3 DEF GroundInv

LEMMA GroundKeeps ==
  SeedInv /\ CauseInv /\ GroundInv /\ [OperationsNext]_operationVars => GroundInv'
  <1> SUFFICES ASSUME SeedInv, CauseInv, GroundInv, SeedNext \/ UNCHANGED seedVars
               PROVE  GroundInv'
    BY DEF OperationsNext, operationVars
  <1>1. ASSUME NEW p \in Seeds, Start(p) PROVE GroundInv'
    <2>1. Only(p) /\ DOMAIN seed'[p].own = {} /\ seed'[p].at /= "commit"
      BY <1>1, StartEffect DEF NoSeed
    <2> QED BY <2>1, GroundStays DEF NewRows, SwitchOn
  <1>2. ASSUME NEW p \in Seeds, GetFails(p) \/ SaveFails(p) \/ Killed(p) PROVE GroundInv'
    <2>1. Only(p) /\ DOMAIN seed'[p].own = {} /\ seed'[p].at /= "commit"
      BY <1>2, AbortEffect DEF NoSeed
    <2> QED BY <2>1, GroundStays DEF NewRows, SwitchOn
  <1>3. ASSUME NEW p \in Seeds, GetUser(p) PROVE GroundInv'
    <2>1. /\ Only(p) /\ seed'[p].own = seed[p].own /\ seed'[p].at = "save"
          /\ seed'[p].since = seed[p].since
      BY <1>3, GetEffect
    <2> QED BY <2>1, GroundStays DEF GroundInv, NewRows, SwitchOn, Only, Holders
  <1>4. ASSUME NEW p \in Seeds, SeedStatus(p) PROVE GroundInv'
    <2>1. /\ Only(p) /\ seed'[p].own = seed[p].own /\ seed'[p].lifts = ~ operational
          /\ seed'[p].since = seed[p].since
      BY <1>4, StatusEffect
    <2>2. NewRows(p)'
      BY <2>1 DEF GroundInv, NewRows, Only, Holders
    <2>3. SwitchOn(p)'
      BY <2>1 DEF SwitchOn, Only, SeedInv
    <2> QED BY <2>1, <2>2, <2>3, GroundStays
  <1>5. ASSUME NEW p \in Seeds, CreateUser(p) PROVE GroundInv'
    <2>1. PICK row : Puts(p, LocalPart(Wanted(p)), row)
      BY <1>5, CreateUserPuts
    <2>2. Holders(View(p), EmailOf(seed[p].item, 0)) = {}
      BY <1>5 DEF CreateUser, Wanted, SeedInv, RunKept, RunStands, Ended
    <2> QED BY <2>1, <2>2, WriteGround
  <1>6. ASSUME NEW p \in Seeds, SaveUser(p) PROVE GroundInv'
    <2>1. PICK row : Puts(p, seed[p].user, row)
      BY <1>6, SaveUserPuts
    <2>2. seed[p].user \in DOMAIN accounts
      BY <1>6 DEF SaveUser
    <2> QED BY <2>1, <2>2, WriteGround
  <1>7. ASSUME Edit PROVE GroundInv'
    <2>1. edits \in Nat /\ edits' = edits + 1
      BY <1>7, SeedAssumption DEF Edit, SeedInv
    <2>2. \A p \in Seeds : seed'[p].since = seed[p].since /\ seed[p].since \in 0 .. edits
      BY <1>7, EditEffect DEF CauseInv, PlaceKept
    <2>3. \A p \in Seeds : edits' > seed'[p].since
      BY <2>1, <2>2
    <2>4. \A p \in Seeds : edits' /= seed'[p].since
      BY <2>1, <2>2
    <2> QED BY <2>3, <2>4 DEF GroundInv, NewRows, SwitchOn
  <1>8. ASSUME NEW u \in DOMAIN accounts, InsertProfile(u) PROVE GroundInv'
    <2>1. /\ UNCHANGED <<operational, seed, edits>> /\ DOMAIN accounts' = DOMAIN accounts
          /\ \A v \in DOMAIN accounts : accounts'[v].email = accounts[v].email
      BY <1>8, ProfileKeeps
    <2>2. \A e : Holders(accounts', e) = Holders(accounts, e)
      BY <2>1 DEF Holders
    <2> QED BY <2>1, <2>2 DEF GroundInv, NewRows, SwitchOn, Holders
  <1>9. CASE UNCHANGED seedVars
    BY <1>9 DEF seedVars, GroundInv, NewRows, SwitchOn, Holders
  <1> QED BY <1>1, <1>2, <1>3, <1>4, <1>5, <1>6, <1>7, <1>8, <1>9, CommitGround
      DEF SeedNext, SeedStep

(* Only its own commit ends a run as done.                                 *)
LEMMA DoneByCommit ==
  ASSUME SeedInv, SeedNext, NEW q \in Seeds,
         seed'[q].at = "done", <<seed[q].at, seed[q].item>>' /= <<seed[q].at, seed[q].item>>
  PROVE  Commit(q)
  <1>1. ASSUME NEW p \in Seeds, Commit(p), p /= q PROVE FALSE
    BY <1>1 DEF Commit, SeedInv
  <1>2. ASSUME NEW p \in Seeds,
               Start(p) \/ GetUser(p) \/ CreateUser(p) \/ GetFails(p) \/ SaveUser(p)
               \/ SaveFails(p) \/ SeedStatus(p) \/ Killed(p)
        PROVE  FALSE
    <2>1. seed'[p].at /= "done" /\ \A r \in Seeds : r /= p => seed'[r] = seed[r]
      BY <1>2, StartEffect, GetEffect, CreateUserPuts, SaveUserPuts, WriteEffect,
         StatusEffect, AbortEffect, NoRunAt DEF Only
    <2> QED BY <2>1
  <1>3. ASSUME Edit PROVE FALSE
    BY <1>3, EditEffect
  <1>4. ASSUME NEW u \in DOMAIN accounts, InsertProfile(u) PROVE FALSE
    BY <1>4 DEF InsertProfile
  <1> QED BY <1>1, <1>2, <1>3, <1>4 DEF SeedNext, SeedStep

(* And without a commit others see nothing of a run.                       *)
LEMMA StepsUnseen ==
  ASSUME SeedInv, SeedNext, NEW q \in Seeds,
         seed'[q].at /= "done", <<seed[q].at, seed[q].item>>' /= <<seed[q].at, seed[q].item>>
  PROVE  UNCHANGED <<accounts, operational>>
  <1>1. ASSUME NEW p \in Seeds, Commit(p) PROVE FALSE
    <2>1. CASE p = q
      BY <1>1, <2>1, NoRunAt DEF Commit, SeedInv
    <2>2. CASE p /= q
      BY <1>1, <2>2 DEF Commit, SeedInv
    <2> QED BY <2>1, <2>2
  <1>2. ASSUME NEW p \in Seeds,
               Start(p) \/ GetUser(p) \/ CreateUser(p) \/ GetFails(p) \/ SaveUser(p)
               \/ SaveFails(p) \/ SeedStatus(p) \/ Killed(p)
        PROVE  UNCHANGED <<accounts, operational>>
    BY <1>2 DEF Start, GetUser, CreateUser, GetFails, SaveUser, SaveFails, SeedStatus,
       Killed, Abort
  <1>3. ASSUME Edit PROVE FALSE
    BY <1>3, EditEffect
  <1>4. ASSUME NEW u \in DOMAIN accounts, InsertProfile(u) PROVE FALSE
    BY <1>4 DEF InsertProfile
  <1> QED BY <1>1, <1>2, <1>3, <1>4 DEF SeedNext, SeedStep

(* seed.py:23, transaction.atomic.  A run shows others nothing until it    *)
(* commits, and then every account it names with the password and the      *)
(* flags of its persona, whatever was edited meanwhile, and the switch on  *)
(* if it has lifted it or nothing has been edited since it began.          *)
THEOREM SeedsCommitWhole == OperationsSpec => CommitsWhole
  <1> DEFINE Shown(p) ==
       <<seed[p].at, seed[p].item>>' /= <<seed[p].at, seed[p].item>> =>
         IF seed'[p].at = "done"
         THEN /\ \A i \in Items : AsSeeded(accounts', i)
              /\ seed[p].lifts \/ edits = seed[p].since => operational'
         ELSE UNCHANGED <<accounts, operational>>
  <1>1. SeedInv /\ GroundInv /\ [OperationsNext]_operationVars
          => [\A p \in Seeds : Shown(p)]_seedVars
    <2> SUFFICES ASSUME SeedInv, GroundInv, SeedNext, NEW p \in Seeds PROVE Shown(p)
      BY DEF OperationsNext, operationVars
    <2>1. ASSUME Commit(p)
          PROVE  /\ \A i \in Items : AsSeeded(accounts', i)
                 /\ seed[p].lifts \/ edits = seed[p].since => operational'
      <3>1. \A i \in Items : AsSeeded(seed[p].own, i)
        BY <2>1 DEF Commit, SeedInv, RunKept, SeededSoFar
      <3>2. \A i \in Items : AsSeeded(View(p), i)
        BY <3>1, Seen DEF AsSeeded, Holders
      <3>3. accounts' = View(p) /\ seed[p].at = "commit"
            /\ operational' = (operational \/ seed[p].lifts)
        BY <2>1 DEF Commit
      <3>4. seed[p].lifts \/ edits = seed[p].since => operational'
        BY <3>3 DEF GroundInv, SwitchOn
      <3> QED BY <3>2, <3>3, <3>4
    <2> QED BY <2>1, DoneByCommit, StepsUnseen
  <1> QED BY <1>1, SeedsBegin, SeedsKeep, CauseBegins, CauseKeeps, GroundBegins,
             GroundKeeps, PTL DEF OperationsSpec, CommitsWhole

(* docs/seed-data.md:13.  However many processes seed however many         *)
(* accounts, whatever the API and the operators do meanwhile: a run keeps  *)
(* every account, and its username and address, and has made a new one     *)
(* only for an address without any, unless somebody has edited accounts    *)
(* since it began.                                                         *)
THEOREM SeedsUpdateInPlace == OperationsSpec => UpdatesInPlace
  <1> DEFINE InPlace(p) ==
       seed[p].at = "commit" /\ seed'[p].at = "done" =>
         /\ \A u \in DOMAIN accounts :
              u \in DOMAIN accounts' /\ accounts'[u].email = accounts[u].email
         /\ \A u \in DOMAIN accounts' \ DOMAIN accounts :
              \/ Holders(accounts, accounts'[u].email) = {}
              \/ edits > seed[p].since
  <1>1. SeedInv /\ GroundInv /\ [OperationsNext]_operationVars
          => [\A p \in Seeds : InPlace(p)]_seedVars
    <2> SUFFICES ASSUME SeedInv, GroundInv, SeedNext, NEW p \in Seeds,
                        seed[p].at = "commit", seed'[p].at = "done"
                 PROVE  /\ \A u \in DOMAIN accounts :
                             u \in DOMAIN accounts' /\ accounts'[u].email = accounts[u].email
                        /\ \A u \in DOMAIN accounts' \ DOMAIN accounts :
                             \/ Holders(accounts, accounts'[u].email) = {}
                             \/ edits > seed[p].since
      BY DEF OperationsNext, operationVars
    <2>1. accounts' = View(p)
      BY DoneByCommit DEF Commit
    <2>2. \A u \in DOMAIN accounts :
            u \in DOMAIN accounts' /\ accounts'[u].email = accounts[u].email
      BY <2>1, Seen
    <2>3. \A u \in DOMAIN accounts' \ DOMAIN accounts :
            u \in DOMAIN seed[p].own /\ accounts'[u].email = seed[p].own[u].email
      BY <2>1, Seen
    <2> QED BY <2>2, <2>3 DEF GroundInv, NewRows
  <1> QED BY <1>1, SeedsBegin, SeedsKeep, CauseBegins, CauseKeeps, GroundBegins,
             GroundKeeps, PTL DEF OperationsSpec, UpdatesInPlace

LEMMA FailuresHaveCause ==
  ASSUME SeedInv, CauseInv, NEW p \in Seeds, GetFails(p) \/ SaveFails(p)
  PROVE  ~ seed[p].clean \/ edits > seed[p].since
  <1> SUFFICES ASSUME seed[p].clean, seed[p].since = edits PROVE FALSE
    <2>1. edits \in Nat /\ seed[p].since \in 0 .. edits
      BY SeedAssumption DEF CauseInv, PlaceKept, SeedInv
    <2> QED BY <2>1
  <1>1. Undisputed
    BY AbortEffect DEF CauseInv
  <1> DEFINE w == EmailOf(seed[p].item, 0)
  <1>2. Wanted(p) = w /\ seed[p].item \in Items /\ w \in Table
    BY FlagsKnown DEF GetFails, SaveFails, Wanted, SeedInv, RunKept, RunStands, Ended
  <1>3. \A u, v \in Holders(View(p), w) : u = v
    <2>1. \A u : u \in Holders(View(p), w) => Claims(u, w)
      BY SeenClaims DEF Claims
    <2> HIDE DEF w
    <2> QED BY <1>1, <1>2, <2>1 DEF Undisputed
  <1>4. CASE GetFails(p)
    <2>1. Holders(View(p), w) = {} /\ LocalPart(w) \in DOMAIN accounts
      BY <1>2, <1>3, <1>4 DEF GetFails
    <2>2. accounts[LocalPart(w)].email = w
      BY <1>1, <1>2, <2>1 DEF Undisputed
    <2> QED BY <2>1, <2>2, SeenClaims
  <1>5. CASE SaveFails(p)
    <2> DEFINE u == seed[p].user
    <2>1. seed[p].at = "save" /\ u /= Nobody
      BY <1>5 DEF SaveFails, CauseInv, PlaceKept
    <2>2. u \in Holders(View(p), w)
      BY <2>1, SeenClaims DEF SeedInv, RunKept, FoundStands
    <2>3. u \in DOMAIN accounts
      <3> SUFFICES ASSUME u \notin DOMAIN accounts PROVE FALSE
        OBVIOUS
      <3>1. u \in DOMAIN seed[p].own /\ seed[p].own[u].email = w
        BY <2>2, SeenClaims
      <3>2. PICK j \in Items : j < seed[p].item /\ seed[p].own[u].email = EmailOf(j, 0)
        BY <2>1, <3>1 DEF CauseInv, PlaceKept
      <3>3. j /= seed[p].item
        BY <1>2, <3>2, SeedAssumption DEF Items
      <3> QED BY <1>2, <3>1, <3>2, <3>3, EmailsDiffer
    <2>4. ~ AddressTaken(p, u)
      BY <1>2, <1>3, <2>2 DEF AddressTaken
    <2>5. View(p)[u].profile
      <3>1. CASE u \in DOMAIN seed[p].own
        BY <3>1, Seen DEF SeedInv, RunKept, WritesOwn
      <3>2. CASE u \notin DOMAIN seed[p].own
        BY <1>1, <1>2, <2>2, <2>3, <3>2, Seen DEF Undisputed, Holders
      <3> QED BY <3>1, <3>2
    <2> QED BY <1>5, <2>3, <2>4, <2>5 DEF SaveFails
  <1> QED BY <1>4, <1>5

(* docs/seed-data.md:13, "run it as often as you want".  Among any number  *)
(* of runs, killed ones included, none fails because of the others: before *)
(* it began there was an address with two accounts or with one that had no *)
(* profile, or a username taken; or somebody has edited accounts since.    *)
THEOREM SeedsFailForCause == OperationsSpec => FailsForCause
  <1>1. SeedInv /\ CauseInv /\ [OperationsNext]_operationVars =>
          [\A p \in Seeds : seed[p].at \notin Ended /\ seed'[p].at = "failed" =>
             ~ seed[p].clean \/ edits > seed[p].since]_seedVars
    <2> SUFFICES ASSUME SeedInv, CauseInv, SeedNext, NEW q \in Seeds,
                        seed[q].at \notin Ended, seed'[q].at = "failed"
                 PROVE  ~ seed[q].clean \/ edits > seed[q].since
      BY DEF OperationsNext, operationVars
    <2>1. ASSUME NEW p \in Seeds, Start(p) \/ SeedStep(p) \/ Killed(p)
          PROVE  GetFails(q) \/ SaveFails(q)
      <3>1. CASE GetFails(p) \/ SaveFails(p)
        BY <3>1, AbortEffect DEF Only, Ended
      <3>2. CASE Commit(p)
        BY <3>2, NoRunAt DEF Commit, SeedInv, Ended
      <3>3. CASE Killed(p)
        BY <3>3, AbortEffect, NoRunAt DEF Only, Ended
      <3>4. CASE Start(p) \/ GetUser(p) \/ CreateUser(p) \/ SaveUser(p) \/ SeedStatus(p)
        BY <3>4, StartEffect, GetEffect, CreateUserPuts, SaveUserPuts, WriteEffect,
           StatusEffect, NoRunAt DEF Only, Ended
      <3> QED BY <2>1, <3>1, <3>2, <3>3, <3>4 DEF SeedStep
    <2>2. ASSUME Edit PROVE FALSE
      BY <2>2, EditEffect DEF Ended
    <2>3. ASSUME NEW u \in DOMAIN accounts, InsertProfile(u) PROVE FALSE
      BY <2>3 DEF InsertProfile, Ended
    <2> QED BY <2>1, <2>2, <2>3, FailuresHaveCause DEF SeedNext
  <1> QED BY <1>1, SeedsBegin, SeedsKeep, CauseBegins, CauseKeeps, PTL
      DEF OperationsSpec, FailsForCause
-----------------------------------------------------------------------------
(* Why seeds end.  Runs go through the same items in the same order, so    *)
(* that a run only ever waits for one that is further on.                  *)
LastItem == Len(PERSONAS) + BULK_USERS

(* p would write a row that another transaction has written.               *)
Waits(p) ==
  \/ /\ seed[p].at = "get" /\ Holders(View(p), Wanted(p)) = {}
     /\ LocalPart(Wanted(p)) \notin DOMAIN accounts
     /\ LockedFor(p, LocalPart(Wanted(p)))
  \/ seed[p].at = "save" /\ LockedFor(p, seed[p].user)

(* The guards of its statements.                                           *)
CanStep(p) ==
  \/ /\ seed[p].at = "get"
     /\ \/ \E u \in Holders(View(p), Wanted(p)) : Holders(View(p), Wanted(p)) = {u}
        \/ ~ \A u, v \in Holders(View(p), Wanted(p)) : u = v
        \/ /\ Holders(View(p), Wanted(p)) = {}
           /\ \/ LocalPart(Wanted(p)) \in DOMAIN accounts
              \/ /\ LocalPart(Wanted(p)) \notin DOMAIN View(p)
                 /\ ~ LockedFor(p, LocalPart(Wanted(p)))
  \/ seed[p].at = "save" /\ ~ LockedFor(p, seed[p].user)
  \/ seed[p].at \in {"status", "commit"}

(* The rows that a run has written are those of items it has left behind.  *)
BehindIt(r) ==
  r.at \in Working =>
    /\ r.item \in 1 .. LastItem + 1
    /\ \A u \in DOMAIN r.own :
         \E j \in Items : j < r.item /\ r.own[u].email = EmailOf(j, 0)

QueueInv == SeedInv /\ \A p \in Seeds : BehindIt(seed[p])

LEMMA QueueStep ==
  ASSUME QueueInv, SeedInv', NEW p \in Seeds, Start(p) \/ SeedStep(p) \/ Killed(p)
  PROVE  BehindIt(seed[p])'
  <1>0. LastItem \in Nat /\ Items = 1 .. LastItem
    BY SeedAssumption DEF LastItem, Items
  <1>1. CASE seed'[p].at \in Ended
    BY <1>1 DEF BehindIt, Working, Ended
  <1>2. CASE Start(p)
    <2>1. \/ seed'[p] = NoSeed("refused")
          \/ seed'[p].item = 1 /\ seed'[p].own = <<>>
      BY <1>2, StartEffect DEF QueueInv
    <2>2. CASE seed'[p].item = 1 /\ seed'[p].own = <<>>
      BY <1>0, <2>2 DEF BehindIt
    <2> QED BY <1>1, <2>1, <2>2, NoRunAt DEF Ended
  <1>3. CASE GetUser(p)
    BY <1>3, GetEffect DEF QueueInv, BehindIt, Working
  <1>4. CASE SeedStatus(p)
    BY <1>4, StatusEffect DEF QueueInv, BehindIt, Working
  <1>5. ASSUME NEW u, NEW row, Puts(p, u, row) PROVE BehindIt(seed[p])'
    <2>1. /\ seed[p].item \in Items /\ seed[p].at \in Working
          /\ seed'[p].item = seed[p].item + 1
          /\ DOMAIN seed'[p].own = DOMAIN seed[p].own \cup {u}
          /\ \A v \in DOMAIN seed[p].own : v /= u => seed'[p].own[v] = seed[p].own[v]
          /\ seed'[p].own[u].email = EmailOf(seed[p].item, 0)
      BY <1>5, WriteEffect DEF Puts, QueueInv, SeedInv, RunKept, RunStands, Working
    <2>2. seed'[p].item \in 1 .. LastItem + 1
      BY <1>0, <2>1
    <2>3. ASSUME NEW v \in DOMAIN seed'[p].own
          PROVE  \E j \in Items : j < seed'[p].item /\ seed'[p].own[v].email = EmailOf(j, 0)
      <3>1. CASE v = u
        BY <1>0, <2>1, <3>1
      <3>2. CASE v /= u
        <4>1. PICK j \in Items : j < seed[p].item /\ seed[p].own[v].email = EmailOf(j, 0)
          BY <2>1, <2>3, <3>2 DEF QueueInv, BehindIt
        <4> QED BY <1>0, <2>1, <2>3, <3>2, <4>1
      <3> QED BY <3>1, <3>2
    <2> QED BY <2>2, <2>3 DEF BehindIt
  <1>6. CASE CreateUser(p) \/ SaveUser(p)
    BY <1>5, <1>6, CreateUserPuts, SaveUserPuts DEF QueueInv
  <1>7. CASE GetFails(p) \/ SaveFails(p) \/ Killed(p) \/ Commit(p)
    <2>1. \E how \in {"failed", "killed", "done"} : seed'[p] = NoSeed(how)
      BY <1>7 DEF GetFails, SaveFails, Killed, Commit, Abort, QueueInv, SeedInv
    <2> QED BY <1>1, <2>1, NoRunAt DEF Ended
  <1> QED BY <1>2, <1>3, <1>4, <1>6, <1>7 DEF SeedStep, QueueInv

LEMMA OthersStay ==
  ASSUME SeedInv, NEW p \in Seeds, NEW q \in Seeds,
         Edit \/ (q /= p /\ (Start(p) \/ SeedStep(p) \/ Killed(p)))
  PROVE  /\ seed'[q].at = seed[q].at /\ seed'[q].item = seed[q].item
         /\ seed'[q].own = seed[q].own
  <1>1. CASE Edit
    BY <1>1, EditEffect
  <1>2. CASE q /= p /\ (Start(p) \/ SeedStep(p) \/ Killed(p))
    <2>1. seed'[q] = seed[q]
      BY <1>2, StartEffect, GetEffect, StatusEffect, CreateUserPuts, SaveUserPuts,
         WriteEffect, AbortEffect
      DEF SeedStep, Only, Commit, SeedInv
    <2> QED BY <2>1
  <1> QED BY <1>1, <1>2

LEMMA QueueKeeps == QueueInv /\ [OperationsNext]_operationVars => QueueInv'
  <1> SUFFICES ASSUME QueueInv, [OperationsNext]_operationVars PROVE QueueInv'
    OBVIOUS
  <1>1. SeedInv'
    BY SeedsKeep DEF QueueInv
  <1>2. ASSUME NEW q \in Seeds PROVE BehindIt(seed[q])'
    <2>1. CASE UNCHANGED seed
      BY <2>1 DEF QueueInv, BehindIt
    <2>2. ASSUME NEW p \in Seeds, Start(p) \/ SeedStep(p) \/ Killed(p)
          PROVE  BehindIt(seed[q])'
      BY <1>1, <2>2, QueueStep, OthersStay DEF QueueInv, BehindIt
    <2>3. CASE Edit
      BY <2>3, OthersStay DEF QueueInv, BehindIt
    <2>4. ASSUME NEW u \in DOMAIN accounts, InsertProfile(u) PROVE UNCHANGED seed
      BY <2>4 DEF InsertProfile
    <2> QED BY <2>4, <2>1, <2>2, <2>3 DEF OperationsNext, operationVars, seedVars, SeedNext
  <1> QED BY <1>1, <1>2 DEF QueueInv

LEMMA QueueAlways == OperationsSpec => []QueueInv
  <1>1. OperationsInit => QueueInv
    BY SeedsBegin, NoRunAt
    DEF OperationsInit, InitSeed, QueueInv, BehindIt, Working
  <1> QED BY <1>1, QueueKeeps, PTL DEF OperationsSpec

-----------------------------------------------------------------------------
(* A run waits for one that has written the account of its item: for one   *)
(* that is further on.                                                     *)
LEMMA WaitsAhead ==
  ASSUME QueueInv, NEW p \in Seeds, Waits(p)
  PROVE  \E q \in Seeds : seed[q].at \in Working /\ seed[p].item < seed[q].item
  <1>1. seed[p].at \in {"get", "save"} /\ seed[p].item \in Items /\ seed[p].first = 0
    BY DEF Waits, QueueInv, SeedInv, RunKept, RunStands, Ended, Working
  <1> DEFINE e == EmailOf(seed[p].item, 0)
  <1>2. Wanted(p) = e
    BY <1>1 DEF Wanted
  <1>3. PICK u, q : /\ q \in Seeds \ {p} /\ u \in DOMAIN seed[q].own
                    /\ \/ /\ seed[p].at = "get" /\ u = LocalPart(e)
                          /\ u \notin DOMAIN accounts
                       \/ seed[p].at = "save" /\ u = seed[p].user
    BY <1>2 DEF Waits, LockedFor
  <1>4. WritesOwn(seed[q], accounts) /\ u \notin DOMAIN seed[p].own
    BY <1>3 DEF QueueInv, SeedInv, RunKept, OneWriter
  <1>5. seed[q].own[u].email = e
    <2>1. CASE seed[p].at = "get" /\ u = LocalPart(e) /\ u \notin DOMAIN accounts
      BY <1>3, <1>4, <2>1 DEF WritesOwn, LocalPart
    <2>2. CASE seed[p].at = "save" /\ u = seed[p].user
      <3>1. u /= Nobody
        BY <1>3, <1>4 DEF WritesOwn
      <3>2. u \in DOMAIN accounts /\ accounts[u].email = e
        BY <1>4, <2>2, <3>1 DEF QueueInv, SeedInv, RunKept, FoundStands
      <3> QED BY <1>3, <1>4, <3>2 DEF WritesOwn
    <2> QED BY <1>3, <2>1, <2>2
  <1> HIDE DEF e
  <1>6. seed[q].at \in Working
    <2>1. RunStands(seed[q])
      BY <1>3 DEF QueueInv, SeedInv, RunKept
    <2>2. seed[q].at \in Ended => seed[q].own = <<>>
      BY <2>1 DEF RunStands, NoSeed
    <2> QED BY <1>3, <2>1, <2>2 DEF RunStands
  <1>7. PICK j \in Items : j < seed[q].item /\ seed[q].own[u].email = EmailOf(j, 0)
    BY <1>3, <1>6 DEF QueueInv, BehindIt
  <1>8. j = seed[p].item
    BY <1>1, <1>5, <1>7, EmailsDiffer DEF e
  <1> QED BY <1>3, <1>6, <1>7, <1>8

(* A run that does not wait can go on: every case of its statement is      *)
(* provided for.                                                           *)
LEMMA GoesOnUnlessWaiting ==
  ASSUME QueueInv, NEW p \in Seeds, seed[p].at \in Working, ~ Waits(p)
  PROVE  CanStep(p)
  <1> DEFINE H == Holders(View(p), Wanted(p))
             u == LocalPart(Wanted(p))
  <1>1. CASE seed[p].at = "get"
    <2>1. CASE H /= {}
      <3>1. PICK v \in H : TRUE
        BY <2>1
      <3>2. (\A x, y \in H : x = y) => H = {v}
        BY <3>1
      <3> QED BY <1>1, <3>2 DEF CanStep
    <2>2. CASE H = {}
      <3>1. Wanted(p) = EmailOf(seed[p].item, 0)
        BY <1>1 DEF QueueInv, SeedInv, RunKept, RunStands, Ended, Wanted
      <3>2. u \in DOMAIN seed[p].own /\ u \notin DOMAIN accounts => FALSE
        <4> SUFFICES ASSUME u \in DOMAIN seed[p].own, u \notin DOMAIN accounts
                     PROVE  FALSE
          OBVIOUS
        <4>1. u = LocalPart(seed[p].own[u].email)
          BY DEF QueueInv, SeedInv, RunKept, WritesOwn
        <4>2. seed[p].own[u].email = Wanted(p)
          BY <4>1 DEF LocalPart
        <4>3. u \in H
          BY <4>2, Seen DEF QueueInv, Holders
        <4> QED BY <2>2, <4>3
      <3>3. u \notin DOMAIN accounts => u \notin DOMAIN View(p)
        BY <3>2, Seen DEF QueueInv
      <3>4. u \notin DOMAIN accounts => ~ LockedFor(p, u)
        BY <1>1, <2>2 DEF Waits
      <3> QED BY <1>1, <2>2, <3>3, <3>4 DEF CanStep
    <2> QED BY <2>1, <2>2
  <1>2. CASE seed[p].at /= "get"
    BY <1>2 DEF CanStep, Waits, Working
  <1> QED BY <1>1, <1>2

(* As long as any run is under way, some run can go on.                    *)
SomeCanStep ==
  (\E p \in Seeds : seed[p].at \notin Ended) => \E p \in Seeds : CanStep(p)

(* seed.py:23.  Transactions that hold rows while they wait for others'    *)
(* never wait in a circle: however many processes seed, whatever else is   *)
(* edited, the run that is furthest on waits for nobody.                   *)
THEOREM SeedsNeverDeadlock == OperationsSpec => []SomeCanStep
  <1>1. QueueInv => SomeCanStep
    <2> SUFFICES ASSUME QueueInv, NEW p \in Seeds, seed[p].at \notin Ended
                 PROVE  \E q \in Seeds : CanStep(q)
      BY DEF SomeCanStep
    <2> DEFINE On == {q \in Seeds : seed[q].at \in Working}
               Left == {LastItem + 1 - seed[q].item : q \in On}
    <2>1. p \in On
      BY DEF QueueInv, SeedInv, RunKept, RunStands
    <2>2. Left \subseteq Nat /\ Left /= {}
      <3>1. LastItem \in Nat
        BY SeedAssumption DEF LastItem
      <3>2. \A q \in On : seed[q].item \in 1 .. LastItem + 1
        BY DEF QueueInv, BehindIt
      <3> QED BY <2>1, <3>1, <3>2
    <2>3. PICK least \in Left : \A n \in Left : ~ (<<n, least>> \in OpToRel(<, Nat))
      BY <2>2, WFMin, NatLessThanWellFounded
    <2>4. PICK q \in On : least = LastItem + 1 - seed[q].item
      BY <2>3
    <2>5. ASSUME NEW r \in On, seed[q].item < seed[r].item PROVE FALSE
      <3>1. /\ LastItem + 1 - seed[r].item \in Left
            /\ LastItem + 1 - seed[r].item \in Nat /\ least \in Nat
        BY <2>2, <2>3
      <3>2. LastItem \in Nat /\ seed[q].item \in Nat /\ seed[r].item \in Nat
        BY <2>4, SeedAssumption DEF LastItem, QueueInv, BehindIt
      <3>3. LastItem + 1 - seed[r].item < least
        BY <2>4, <2>5, <3>2
      <3>4. <<LastItem + 1 - seed[r].item, least>> \in OpToRel(<, Nat)
        BY <3>1, <3>3 DEF OpToRel
      <3> QED BY <2>3, <3>1, <3>4
    <2>6. ~ Waits(q)
      BY <2>4, <2>5, WaitsAhead
    <2> QED BY <2>4, <2>6, GoesOnUnlessWaiting
  <1> QED BY <1>1, QueueAlways, PTL

-----------------------------------------------------------------------------
(* How far a run has come.                                                 *)
Place(r) == 2 * r.item + (IF r.at \in {"save", "commit"} THEN 1 ELSE 0)

(* A run that goes on is where it was, or further on.                      *)
NeverBack(p) ==
  seed[p].at \in Working =>
    /\ Place(seed[p]) \in 0 .. 2 * LastItem + 3
    /\ \/ seed'[p].at \in Ended
       \/ seed'[p].at = seed[p].at /\ seed'[p].item = seed[p].item
       \/ Place(seed[p]) < Place(seed'[p])

LEMMA OwnStepAdvances ==
  ASSUME QueueInv, NEW p \in Seeds, SeedStep(p)
  PROVE  /\ seed[p].at \in Working
         /\ seed'[p].at \in Ended \/ Place(seed[p]) < Place(seed'[p])
  <1>1. seed[p].at \in Working
    BY DEF SeedStep, GetUser, CreateUser, GetFails, SaveUser, SaveFails, SeedStatus,
       Commit, Working
  <1>2. seed[p].item \in Nat
    BY <1>1, SeedAssumption DEF QueueInv, BehindIt, LastItem
  <1>3. CASE GetUser(p)
    BY <1>1, <1>2, <1>3, GetEffect DEF QueueInv, Place
  <1>4. CASE SeedStatus(p)
    BY <1>1, <1>2, <1>4, StatusEffect DEF QueueInv, Place
  <1>5. CASE CreateUser(p) \/ SaveUser(p)
    <2>1. PICK u, row : Puts(p, u, row)
      BY <1>5, CreateUserPuts, SaveUserPuts DEF QueueInv
    <2>2. seed'[p].at \in {"get", "status"} /\ seed'[p].item = seed[p].item + 1
      BY <2>1, WriteEffect DEF QueueInv
    <2> QED BY <1>1, <1>2, <2>2 DEF Place
  <1>6. CASE GetFails(p) \/ SaveFails(p) \/ Commit(p)
    <2>1. \E how \in {"failed", "done"} : seed'[p] = NoSeed(how)
      BY <1>6 DEF GetFails, SaveFails, Commit, Abort, QueueInv, SeedInv
    <2> QED BY <1>1, <2>1, NoRunAt DEF Ended
  <1> QED BY <1>1, <1>3, <1>4, <1>5, <1>6 DEF SeedStep

(* seed.py:15.  Statement by statement a run goes on through its items:    *)
(* whatever others do, it never starts over, and there are at most         *)
(* 2 * LastItem + 4 places it can be at.                                   *)
THEOREM RunsNeverGoBack == OperationsSpec => [][\A p \in Seeds : NeverBack(p)]_operationVars
  <1>1. QueueInv /\ [OperationsNext]_operationVars
          => [\A p \in Seeds : NeverBack(p)]_operationVars
    <2> SUFFICES ASSUME QueueInv, OperationsNext, NEW q \in Seeds, seed[q].at \in Working
                 PROVE  /\ Place(seed[q]) \in 0 .. 2 * LastItem + 3
                        /\ \/ seed'[q].at \in Ended
                           \/ seed'[q].at = seed[q].at /\ seed'[q].item = seed[q].item
                           \/ Place(seed[q]) < Place(seed'[q])
      BY DEF NeverBack
    <2>1. Place(seed[q]) \in 0 .. 2 * LastItem + 3
      <3>1. LastItem \in Nat /\ seed[q].item \in 1 .. LastItem + 1
        BY SeedAssumption DEF LastItem, QueueInv, BehindIt
      <3> QED BY <3>1 DEF Place
    <2>2. CASE UNCHANGED seed
      BY <2>1, <2>2
    <2>3. CASE Edit
      BY <2>1, <2>3, OthersStay DEF QueueInv
    <2>4. ASSUME NEW p \in Seeds, Start(p) \/ SeedStep(p) \/ Killed(p), p /= q
          PROVE  seed'[q].at = seed[q].at /\ seed'[q].item = seed[q].item
      BY <2>4, OthersStay DEF QueueInv
    <2>5. CASE Start(q)
      BY <2>5, StartEffect DEF QueueInv, Working, Ended
    <2>6. CASE Killed(q)
      BY <2>1, <2>6, NoRunAt DEF Killed, Abort, QueueInv, SeedInv, Ended
    <2>7. CASE SeedStep(q)
      BY <2>1, <2>7, OwnStepAdvances
    <2>8. ASSUME NEW u \in DOMAIN accounts, InsertProfile(u) PROVE UNCHANGED seed
      BY <2>8 DEF InsertProfile
    <2> QED BY <2>1, <2>2, <2>3, <2>4, <2>5, <2>6, <2>7, <2>8
            DEF OperationsNext, SeedNext, seedVars
  <1> QED BY <1>1, QueueAlways, PTL DEF OperationsSpec

-----------------------------------------------------------------------------
(* What the proof takes from ENABLED: a statement whose guard holds can be *)
(* executed.                                                               *)
SeedsCanGoOn == \A p \in Seeds : CanStep(p) => ENABLED <<GoesOn(p)>>_operationVars

WaitsForOneAhead(p) ==
  Waits(p) /\ \E q \in Seeds : seed[q].at \in Working /\ seed[p].item < seed[q].item

StaysAt(p, n) == seed[p].at \in Working /\ Place(seed[p]) = n

(* seed.py:23.  A run that comes to a halt has come to wait, from some     *)
(* time on without end, for a run that is further on.                      *)
THEOREM OnlyWaitingHalts ==
  ASSUME NEW p \in Seeds, NEW n \in Nat
  PROVE  OperationsSpec /\ []SeedsCanGoOn
           => (<>[]StaysAt(p, n) => <>[]WaitsForOneAhead(p))
  <1>1. OperationsSpec => Turns(p)
    BY DEF OperationsSpec
  <1>2. QueueInv /\ StaysAt(p, n) => Waits(p) \/ CanStep(p)
    BY GoesOnUnlessWaiting DEF StaysAt
  <1>3. SeedsCanGoOn => (CanStep(p) => ENABLED <<GoesOn(p)>>_operationVars)
    BY DEF SeedsCanGoOn
  <1>4. QueueInv /\ StaysAt(p, n) /\ <<GoesOn(p)>>_operationVars => ~ StaysAt(p, n)'
    <2> SUFFICES ASSUME QueueInv, StaysAt(p, n), SeedStep(p), StaysAt(p, n)'
                 PROVE  FALSE
      BY DEF GoesOn
    <2>1. seed'[p].at \notin Ended
      BY DEF StaysAt, Working, Ended
    <2>2. n < n
      BY <2>1, OwnStepAdvances DEF StaysAt
    <2> QED BY <2>2
  <1>5. QueueInv /\ Waits(p) => WaitsForOneAhead(p)
    BY WaitsAhead DEF WaitsForOneAhead
  <1> QED BY <1>1, <1>2, <1>3, <1>4, <1>5, QueueAlways, PTL DEF Turns
=============================================================================
