----------------------------- MODULE Deployments -----------------------------
(***************************************************************************)
(* The deployment workflows of .github.base/workflows: every push to a     *)
(* branch starts a run that builds its commit, pushes the image to ECR and *)
(* has the service take it.  The EC2 workflows run one at a time, the ECS  *)
(* workflows all at once.                                                  *)
(***************************************************************************)
EXTENDS Naturals, FiniteSets

CONSTANT Pushes   \* bound: pushes to the branch

ASSUME PushesAssumption == Pushes \in Nat \ {0}

Commits == 1 .. Pushes   \* in the order they were pushed

VARIABLES
  grouped,   \* does the workflow have a concurrency group?
  pushed,    \* how many commits have been pushed
  run,       \* run[c]: where the run of commit c stands
  latest,    \* the commit that the image tag `latest` was built from; 0: none
  serving    \* the commit that the service runs; 0: none

deployVars == <<grouped, pushed, run, latest, serving>>

Finished == {"deployed", "failed", "cancelled"}
Running(c) == run[c] \in {"build", "deploy"}

InitDeploy ==
  /\ grouped \in BOOLEAN
  /\ pushed = 0 /\ run = [c \in Commits |-> "none"]
  /\ latest = 0 /\ serving = 0

(* Mutant: a newer run does not replace the one that waits.                *)
Push_KeepsPending ==
  /\ pushed < Pushes /\ pushed' = pushed + 1
  /\ run' = IF grouped /\ \E c \in Commits : Running(c) \/ run[c] = "pending"
            THEN [run EXCEPT ![pushed + 1] =
                    IF \E c \in Commits : run[c] = "pending"
                    THEN "cancelled" ELSE "pending"]
            ELSE [run EXCEPT ![pushed + 1] = "build"]
  /\ UNCHANGED <<grouped, latest, serving>>

(* In a concurrency group a run waits for the one in progress, and takes   *)
(* the place of one that waits already.                                    *)
Push ==
  /\ pushed < Pushes /\ pushed' = pushed + 1
  /\ run' = [c \in Commits |->
       CASE c = pushed + 1 ->
              IF grouped /\ \E d \in Commits : Running(d) THEN "pending" ELSE "build"
         [] c /= pushed + 1 /\ run[c] = "pending" -> "cancelled"
         [] OTHER -> run[c]]
  /\ UNCHANGED <<grouped, latest, serving>>

(* The end of run c, and the run that it kept waiting.                     *)
EndRun(c, how) ==
  run' = [d \in Commits |->
    IF d = c THEN how ELSE IF run[d] = "pending" THEN "build" ELSE run[d]]

(* docker buildx build --push under a tag that stays the same.             *)
PushImage(c) ==
  /\ run[c] = "build"
  /\ run' = [run EXCEPT ![c] = "deploy"]
  /\ latest' = c
  /\ UNCHANGED <<grouped, pushed, serving>>

(* The service takes what the tag names now, whoever has pushed it.        *)
Release(c) ==
  /\ run[c] = "deploy"
  /\ serving' = latest
  /\ EndRun(c, "deployed")
  /\ UNCHANGED <<grouped, pushed, latest>>

(* A step fails; the image before goes on or is rolled back to.            *)
RunFails(c) ==
  /\ Running(c)
  /\ EndRun(c, "failed")
  /\ UNCHANGED <<grouped, pushed, latest, serving>>

DeployNext ==
  Push \/ \E c \in Commits : PushImage(c) \/ Release(c) \/ RunFails(c)

-----------------------------------------------------------------------------
Quiet == \A c \in Commits : run[c] \notin {"pending", "build", "deploy"}
NoneFailed == \A c \in Commits : run[c] /= "failed"

(* ec2-main.yml:36, "Never run two deploys of the same environment at      *)
(* once; a newer push waits": and when all runs have ended without a       *)
(* failure the newest commit is served.  Without the group runs overtake   *)
(* each other, but they agree in the end: what is served is what the tag   *)
(* names, so that a task that is started again does not change it.         *)
LatestServed ==
  /\ grouped => Cardinality({c \in Commits : Running(c)}) <= 1
  /\ Quiet /\ NoneFailed =>
       /\ serving = latest
       /\ grouped => serving = pushed
=============================================================================
