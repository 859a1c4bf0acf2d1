-------------------------- MODULE PasswordRecovery --------------------------
(***************************************************************************)
(* PasswordRecoveryViewSet of auth_api/views.py: the request for a token,  *)
(* its check, and the confirmation that sets the new password.  Each       *)
(* action is one statement of a handler; the guards are the handler's      *)
(* conditions and the exceptions the ORM raises.                           *)
(***************************************************************************)
EXTENDS Accounts, FiniteSets

CONSTANTS
  Expire,     \* PASSWORD_RECOVERY_TOKEN_EXPIRE_AT, in ticks
  MaxTime,    \* bound: the clock stops there
  MaxTokens,  \* bound: requests start only while so many tokens suffice
  MailFails,  \* may the mail server refuse a message?
  Deletions   \* may other requests delete accounts under these?

ASSUME WorkersAssumption == IsFiniteSet(Workers)
ASSUME BoundsAssumption ==
  Expire \in Nat /\ MaxTime \in Nat /\ MaxTokens \in Nat
ASSUME FaultsAssumption == MailFails \in BOOLEAN /\ Deletions \in BOOLEAN

VARIABLES
  now,    \* timezone.now()
  drawn,  \* how many tokens have been drawn: the key sequence of TokenRecovery
  spent   \* history: the <<token, worker>> pairs that set a password

recoveryVars == <<now, drawn, spent>>
vars == <<users, profiles, tokens, req, reply, now, drawn, spent>>

RequestSteps == {"request_exists", "request_get", "request_delete",
                 "request_create", "request_mail"}
ConfirmSteps == {"confirm_token", "confirm_save", "confirm_signal",
                 "confirm_delete"}

(* Workers that may still draw a token.                                    *)
Drawing == {w \in Workers : req[w].at \in RequestSteps \ {"request_mail"}}

-----------------------------------------------------------------------------
(* recovery_send_mail, line 68: get_user.  An unknown address raises       *)
(* DoesNotExist, which is logged; the answer is the same 200.              *)
RequestToken(w) ==
  \E u \in Users :
    /\ \/ /\ u \in DOMAIN users
          /\ drawn + Cardinality(Drawing) < MaxTokens
          /\ Begin(w, "request_exists", u, None)
       \/ /\ u \notin DOMAIN users /\ At(w, "idle")
          /\ Answer(w, "swallowed")
    /\ UNCHANGED <<tables, recoveryVars>>

(* Mutant: the existing row is fetched without a look whether there is     *)
(* one.                                                                    *)
RequestExists_Assumed(w) ==
  /\ At(w, "request_exists")
  /\ Goto(w, "request_get")
  /\ UNCHANGED <<tables, recoveryVars>>

(* Line 72: is there a token to replace?                                   *)
RequestExists(w) ==
  /\ At(w, "request_exists")
  /\ Goto(w, IF TokensOf(req[w].user) /= {} THEN "request_get"
                                            ELSE "request_create")
  /\ UNCHANGED <<tables, recoveryVars>>

(* Mutant: filter(user=user).first() in place of get.                      *)
RequestGet_First(w) ==
  /\ At(w, "request_get")
  /\ \E r \in TokensOf(req[w].user) : GotoHolding(w, "request_delete", r)
  /\ UNCHANGED <<tables, recoveryVars>>

(* Line 73: get(user=user) wants exactly one row.  DoesNotExist and        *)
(* MultipleObjectsReturned end the request: 200, and no mail.              *)
RequestGet(w) ==
  /\ At(w, "request_get")
  /\ \/ \E r \in TokensOf(req[w].user) :
          /\ TokensOf(req[w].user) = {r}
          /\ GotoHolding(w, "request_delete", r)
     \/ /\ \A r \in TokensOf(req[w].user) : TokensOf(req[w].user) /= {r}
        /\ Answer(w, "swallowed")
  /\ UNCHANGED <<tables, recoveryVars>>

(* Mutant: the old row is kept.                                            *)
RequestDelete_Kept(w) ==
  /\ At(w, "request_delete")
  /\ GotoHolding(w, "request_create", None)
  /\ UNCHANGED <<tables, recoveryVars>>

(* Line 74: DELETE by key, which does not mind a row already gone.         *)
RequestDelete(w) ==
  /\ At(w, "request_delete")
  /\ tokens' = tokens \ {req[w].token}
  /\ GotoHolding(w, "request_create", None)
  /\ UNCHANGED <<users, profiles, recoveryVars>>

(* Line 76: INSERT with created_at = now; the foreign key fails when the   *)
(* account was deleted in the meantime.                                    *)
RequestCreate(w) ==
  LET u == req[w].user
      r == [pk |-> drawn + 1, user |-> u, created_at |-> now, maker |-> w] IN
  /\ At(w, "request_create")
  /\ \/ /\ u \in DOMAIN users
        /\ tokens' = tokens \cup {r}
        /\ drawn' = drawn + 1
        /\ GotoHolding(w, "request_mail", r)
     \/ /\ u \notin DOMAIN users
        /\ Answer(w, "swallowed")
        /\ UNCHANGED <<tokens, drawn>>
  /\ UNCHANGED <<users, profiles, now, spent>>

(* Lines 78-107: the mail with the link, or the exception that is logged.  *)
RequestMail(w) ==
  /\ At(w, "request_mail")
  /\ \/ Answer(w, "mailed")
     \/ MailFails /\ Answer(w, "swallowed")
  /\ UNCHANGED <<tables, recoveryVars>>

-----------------------------------------------------------------------------
(* get_validated_token: the row of that account with that token, no older  *)
(* than Expire; a token is still good at the instant it expires.           *)
Valid(r, u) == r.user = u /\ r.created_at + Expire >= now

(* recovery_check_token: reads, and says what it found.                    *)
CheckToken(w) ==
  /\ At(w, "idle")
  /\ \E u \in Users, pk \in 1 .. drawn :
       Answer(w, IF \E r \in tokens : r.pk = pk /\ Valid(r, u)
                 THEN "valid" ELSE "rejected")
  /\ UNCHANGED <<tables, recoveryVars>>

(* Mutant: the account is only looked for, not loaded.                     *)
ConfirmUser_Unloaded(w) ==
  \E u \in Users :
    /\ \/ u \in DOMAIN users /\ Begin(w, "confirm_token", u, None)
       \/ u \notin DOMAIN users /\ At(w, "idle") /\ Answer(w, "rejected")
    /\ UNCHANGED <<tables, recoveryVars>>

(* recovery_confirm, line 145: get_user loads the whole row.               *)
ConfirmUser(w) ==
  \E u \in Users :
    /\ \/ /\ u \in DOMAIN users
          /\ Begin(w, "confirm_token", u, users[u])
       \/ /\ u \notin DOMAIN users /\ At(w, "idle")
          /\ Answer(w, "rejected")
    /\ UNCHANGED <<tables, recoveryVars>>

(* Lines 146-156: the token is looked up and its age compared with the     *)
(* clock, then the password is validated; every failure is a 400.          *)
ConfirmToken(w) ==
  /\ At(w, "confirm_token")
  /\ \/ \E r \in tokens :
          /\ Valid(r, req[w].user)
          /\ GotoHolding(w, "confirm_save", r)
     \/ Answer(w, "rejected")
  /\ UNCHANGED <<tables, recoveryVars>>

(* Mutant: a recovery reactivates the account.                             *)
ConfirmSave_Activates(w) ==
  /\ At(w, "confirm_save")
  /\ SaveUser(w, [req[w].copy EXCEPT !.password = req[w].token.pk,
                                     !.is_active = TRUE], "confirm_delete")
  /\ spent' = spent \cup {<<req[w].token.pk, w>>}
  /\ UNCHANGED <<now, drawn>>

(* Lines 158-159: set_password on the instance and user.save().            *)
ConfirmSave(w) ==
  /\ At(w, "confirm_save")
  /\ SaveUser(w, [req[w].copy EXCEPT !.password = req[w].token.pk],
              "confirm_delete")
  /\ spent' = spent \cup {<<req[w].token.pk, w>>}
  /\ UNCHANGED <<now, drawn>>

ConfirmSignal(w) ==
  /\ At(w, "confirm_signal")
  /\ CreateProfile(w)
  /\ UNCHANGED recoveryVars

(* Mutant: the token is not deleted.                                       *)
ConfirmDelete_Kept(w) ==
  /\ At(w, "confirm_delete")
  /\ Answer(w, "ok")
  /\ UNCHANGED <<tables, recoveryVars>>

(* Line 160: the token goes after the password is saved.                   *)
ConfirmDelete(w) ==
  /\ At(w, "confirm_delete")
  /\ tokens' = tokens \ {req[w].token}
  /\ Answer(w, "ok")
  /\ UNCHANGED <<users, profiles, recoveryVars>>

-----------------------------------------------------------------------------
Tick ==
  /\ now < MaxTime
  /\ now' = now + 1
  /\ UNCHANGED <<accountVars, drawn, spent>>

RecoveryCrash(w) ==
  /\ Crash(w)
  /\ UNCHANGED recoveryVars

(* What UserViewSet may do to these tables: destroy and delete_test_users  *)
(* take an account away, and its tokens with it.  (AccountService has the  *)
(* whole viewset in its place.)                                            *)
AccountDeleted(u) ==
  /\ Deletions /\ u \in DOMAIN users
  /\ DeleteUsers({u})
  /\ UNCHANGED <<req, reply, recoveryVars>>

(* What worker w does once it has taken a recovery request.                *)
RecoveryStep(w) ==
  \/ RequestExists(w) \/ RequestGet(w) \/ RequestDelete(w)
  \/ RequestCreate(w) \/ RequestMail(w)
  \/ ConfirmToken(w) \/ ConfirmSave(w) \/ ConfirmSignal(w) \/ ConfirmDelete(w)

RecoveryNext ==
  \/ \E w \in Workers : RequestToken(w) \/ CheckToken(w) \/ ConfirmUser(w)
  \/ \E w \in Workers : RecoveryStep(w) \/ RecoveryCrash(w)
  \/ \E u \in Users : AccountDeleted(u)
  \/ Tick

(* Some of the accounts exist, each with its profile; no token is out.     *)
Init ==
  /\ \E registered \in SUBSET Users :
       /\ users = [u \in registered |->
                     [password |-> 0, is_active |-> TRUE,
                      is_test_user |-> FALSE, named |-> TRUE]]
       /\ profiles = [u \in registered |-> TRUE]
  /\ tokens = {}
  /\ req = [w \in Workers |-> Idle]
  /\ reply = [w \in Workers |-> "none"]
  /\ now = 0 /\ drawn = 0 /\ spent = {}

Spec == Init /\ [][RecoveryNext]_vars

(* A worker that has taken a request runs its handler to the end.          *)
Runs(w) == WF_vars(RecoveryStep(w))

FairSpec == Spec /\ \A w \in Workers : Runs(w)
-----------------------------------------------------------------------------
(* The statements at which a recovery handler holds a TokenRecovery row.   *)
TokenHeld == {"request_delete", "request_mail", "confirm_save",
              "confirm_signal", "confirm_delete"}

RequestOK(r) ==
  /\ r \in [at : {"idle"} \cup RequestSteps \cup ConfirmSteps,
            user : Users \cup {None}, copy : UserRow \cup {None},
            token : TokenRow \cup {None}, profile : {None}]
  /\ r.at /= "idle" => r.user \in Users
  /\ r.at \in ConfirmSteps => r.copy \in UserRow
  /\ r.at \in TokenHeld => r.token \in TokenRow /\ r.token.user = r.user

(* Types of the tables and of the requests; a handler holds the instances  *)
(* its next statement uses, and its token belongs to its account.          *)
TypeOK ==
  /\ DOMAIN users \subseteq Users /\ users \in [DOMAIN users -> UserRow]
  /\ DOMAIN profiles \subseteq Users
  /\ profiles \in [DOMAIN profiles -> BOOLEAN]
  /\ tokens \subseteq TokenRow
  /\ DOMAIN req = Workers /\ \A w \in Workers : RequestOK(req[w])
  /\ reply \in [Workers -> Replies]
  /\ now \in Nat /\ drawn \in Nat
  /\ spent \subseteq Nat \X Workers

(* Two rows of one account come from two workers: however the requests     *)
(* interleave, and whoever is killed in one, a worker that inserts has no  *)
(* row of its own left there (recovery_send_mail, lines 72-76).            *)
OneTokenPerMaker ==
  \A r, s \in tokens : r.user = s.user /\ r.maker = s.maker => r = s

(* So the exists/get/delete/create race leaves at most as many live tokens *)
(* per account as there are gunicorn workers.                              *)
TokensBounded ==
  \A u \in Users : Cardinality(TokensOf(u)) <= Cardinality(Workers)

(* While no worker is killed, a token that has set a password through a    *)
(* worker is out of the table once that worker has answered, even if other *)
(* workers used the same token in the meantime (lines 146-160).            *)
SpentTokenRetired ==
  Crashes \/ \A p \in spent :
    (\E r \in tokens : r.pk = p[1]) =>
      At(p[2], "confirm_delete") /\ req[p[2]].token.pk = p[1]

(* And so no worker sets a password twice with one token: a token changes  *)
(* a password at most once per worker.                                     *)
UsedOncePerWorker ==
  Crashes \/ \A w \in Workers :
    At(w, "confirm_save") => <<req[w].token.pk, w>> \notin spent

(* Several rows of one account, all too old to confirm with, and no        *)
(* handler past the check that would have kept it from touching them.      *)
Wedged(u) ==
  /\ \E r, s \in TokensOf(u) : r /= s
  /\ \A r \in TokensOf(u) : ~ Valid(r, u)
  /\ \A w \in Workers :
       req[w].user = u => req[w].at \in {"request_exists", "request_get",
                                       "request_mail", "confirm_token"}

(* From then on get(user=user) always raises MultipleObjectsReturned: the  *)
(* account never gets out of that state by any recovery request, although  *)
(* every one of them is answered 200; only its deletion ends it.           *)
WedgeIsPermanent ==
  [][\A u \in Users : Wedged(u) => Wedged(u)' \/ u \notin DOMAIN users']_vars

(* With requests served one after the other, a password never goes back to *)
(* the one an older token had set.                                         *)
ResetsInOrder ==
  [][\A u \in DOMAIN users \cap DOMAIN users' :
       users[u].password <= users'[u].password]_vars

(* docs/auth.md:84, "Sends an email": the request of an existing account   *)
(* ends in a mail with the new token, unless its worker is killed.         *)
MailArrives ==
  \A w \in Workers :
    At(w, "request_exists") ~> reply[w] \in {"mailed", "lost"}

(* While no worker is killed, a token that set a password leaves the table.*)
SpentTokenLeaves ==
  \A pk \in 1 .. MaxTokens, w \in Workers :
    <<pk, w>> \in spent ~> (\A r \in tokens : r.pk /= pk)
=============================================================================
