----------------------------- MODULE Operations -----------------------------
(***************************************************************************)
(* What developers and pipelines do around the service: the seed and the   *)
(* mail preview of manage.py, and the deployments.  They share no state,   *)
(* so that a behaviour is one of one of them, chosen at the start.         *)
(***************************************************************************)
EXTENDS SeedCommand, MailPreview, Deployments

VARIABLE tool

operationVars == <<tool, seedVars, previewVars, deployVars>>

OperationsInit ==
  /\ InitSeed /\ InitPreview /\ InitDeploy
  /\ \/ tool = "seed" /\ options = NoOptions /\ ~ grouped
     \/ tool = "preview" /\ operational /\ ~ grouped
     \/ tool = "deploy" /\ operational /\ options = NoOptions

OperationsNext ==
  /\ \/ tool = "seed" /\ SeedNext /\ UNCHANGED <<previewVars, deployVars>>
     \/ tool = "preview" /\ PreviewNext /\ UNCHANGED <<seedVars, deployVars>>
     \/ tool = "deploy" /\ DeployNext /\ UNCHANGED <<seedVars, previewVars>>
  /\ UNCHANGED tool

(* A process goes on with its seed, and of those that wait for a row each  *)
(* gets its turn: databases queue them.                                    *)
GoesOn(p) == SeedStep(p) /\ UNCHANGED <<previewVars, deployVars, tool>>
Turns(p) == SF_operationVars(GoesOn(p))

OperationsSpec ==
  /\ OperationsInit /\ [][OperationsNext]_operationVars
  /\ \A p \in Seeds : Turns(p)
=============================================================================
