----------------------------- MODULE MailPreview -----------------------------
(***************************************************************************)
(* manage.py preview_emails: renders the mails of SAMPLES one after the    *)
(* other, into files or to an inbox, over a mail server that may refuse    *)
(* any of them and templates that may not render.                          *)
(***************************************************************************)
EXTENDS Naturals, Sequences, FiniteSets

CONSTANTS
  SAMPLES,       \* the keys, in order
  UnknownKeys    \* keys of --only that no sample has

ASSUME PreviewAssumption ==
  /\ SAMPLES \in Seq(STRING)
  /\ \A i, j \in 1 .. Len(SAMPLES) : SAMPLES[i] = SAMPLES[j] => i = j
  /\ \A i \in 1 .. Len(SAMPLES) : SAMPLES[i] \notin UnknownKeys

VARIABLES
  options,   \* --out and --to, whether --only limits the run, and to which keys
  stage,     \* where the command stands, or how it has ended
  next,      \* the index in SAMPLES of what comes next
  files,     \* the samples written to --out
  sent, failed,   \* the counts
  landed     \* history: the samples that the mail server took

previewVars == <<options, stage, next, files, sent, failed, landed>>

Keys == {SAMPLES[i] : i \in 1 .. Len(SAMPLES)}

(* `--only ,` names no key, and limits the run to none.                    *)
Options ==
  {o \in [out : BOOLEAN, to : BOOLEAN, limited : BOOLEAN,
          only : SUBSET (Keys \cup UnknownKeys)] : o.limited \/ o.only = {}}

NoOptions == [out |-> FALSE, to |-> FALSE, limited |-> FALSE, only |-> {}]

Asked == IF options.limited THEN options.only \cap Keys ELSE Keys

InitPreview ==
  /\ options \in Options
  /\ stage = "only" /\ next = 1
  /\ files = {} /\ sent = 0 /\ failed = 0 /\ landed = {}

Stopped == {"ok", "unknown_sample", "send_failed", "raised"}

(* --only names samples.                                                   *)
CheckOnly ==
  /\ stage = "only"
  /\ stage' = IF options.limited => options.only \subseteq Keys
            THEN "batch" ELSE "unknown_sample"
  /\ UNCHANGED <<options, next, files, sent, failed, landed>>

(* A sample that was not asked for is not in the list.                     *)
PassOver ==
  /\ stage = "batch" /\ next <= Len(SAMPLES) /\ SAMPLES[next] \notin Asked
  /\ next' = next + 1
  /\ UNCHANGED <<options, stage, files, sent, failed, landed>>

(* The file comes first; a template that does not render raises from here. *)
RenderToFile ==
  /\ stage = "batch" /\ next <= Len(SAMPLES) /\ SAMPLES[next] \in Asked
  /\ IF options.out
     THEN \/ /\ files' = files \cup {SAMPLES[next]}
             /\ stage' = "send"
          \/ /\ stage' = "raised"
             /\ UNCHANGED files
     ELSE stage' = "send" /\ UNCHANGED files
  /\ UNCHANGED <<options, next, sent, failed, landed>>

SkipSend ==
  /\ stage = "send" /\ ~ options.to
  /\ stage' = "batch" /\ next' = next + 1
  /\ UNCHANGED <<options, files, sent, failed, landed>>

(* email_template_sender renders once more and sends; what it raises is    *)
(* counted.                                                                *)
SendSample ==
  /\ stage = "send" /\ options.to
  /\ sent' = sent + 1 /\ landed' = landed \cup {SAMPLES[next]}
  /\ stage' = "batch" /\ next' = next + 1
  /\ UNCHANGED <<options, files, failed>>

(* Mutant: a refused mail ends the batch.                                  *)
SendRaises_Ends ==
  /\ stage = "send" /\ options.to
  /\ failed' = failed + 1
  /\ stage' = "batch" /\ next' = Len(SAMPLES) + 1
  /\ UNCHANGED <<options, files, sent, landed>>

SendRaises ==
  /\ stage = "send" /\ options.to
  /\ failed' = failed + 1
  /\ stage' = "batch" /\ next' = next + 1
  /\ UNCHANGED <<options, files, sent, landed>>

(* Failures make the command fail, after the whole batch.                  *)
ReportBatch ==
  /\ stage = "batch" /\ next > Len(SAMPLES)
  /\ stage' = IF options.to /\ failed > 0 THEN "send_failed" ELSE "ok"
  /\ UNCHANGED <<options, next, files, sent, failed, landed>>

PreviewNext ==
  \/ CheckOnly \/ PassOver \/ RenderToFile \/ SkipSend
  \/ SendSample \/ SendRaises \/ ReportBatch

-----------------------------------------------------------------------------
(* preview_emails.py:106, "One rejected address ... must not cost us the   *)
(* rest of the batch": unless a file could not be rendered, every sample   *)
(* asked for has been tried when the command ends, the counts add up, and  *)
(* it ends well only if every mail landed and every file was written.      *)
BatchAccounted ==
  stage \in {"ok", "send_failed"} =>
    /\ options.to => sent + failed = Cardinality(Asked)
    /\ options.out => files = Asked
    /\ sent = Cardinality(landed) /\ landed \subseteq Asked
    /\ stage = "ok" /\ options.to => landed = Asked
=============================================================================
