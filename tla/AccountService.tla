--------------------------- MODULE AccountService ---------------------------
(***************************************************************************)
(* The views together: the same workers serve PasswordRecovery,            *)
(* PasswordChange and UserAccounts over the same tables.  What one of them *)
(* writes, another may hold an old instance of; deleting an account takes  *)
(* its tokens with it while a recovery request is using them.              *)
(***************************************************************************)
EXTENDS PasswordChange, UserAccounts

serviceVars == <<users, profiles, tokens, req, reply, now, drawn, spent, unborn>>

(* What worker w does once it has taken a request of either viewset.       *)
ServiceStep(w) ==
  \/ (RecoveryStep(w) \/ ChangeStep(w)) /\ UNCHANGED unborn
  \/ UserStep(w) /\ UNCHANGED recoveryVars

(* A killed worker, whatever it was serving, is UserCrash.                 *)
ServiceNext ==
  \/ /\ \/ \E w \in Workers : RequestToken(w) \/ CheckToken(w) \/ ConfirmUser(w)
        \/ \E w \in Workers : RecoveryStep(w)
        \/ \E w \in Workers : ChangePassword(w) \/ ChangeStep(w)
        \/ Tick
     /\ UNCHANGED unborn
  \/ UserNext /\ UNCHANGED recoveryVars

ServiceInit ==
  /\ UserInit
  /\ now = 0 /\ drawn = 0 /\ spent = {}

ServiceSpec == ServiceInit /\ [][ServiceNext]_serviceVars

(* A worker that has taken a request runs its handler until it answers or  *)
(* is killed.                                                              *)
Serves(w) == WF_serviceVars(ServiceStep(w))

FairServiceSpec == ServiceSpec /\ \A w \in Workers : Serves(w)

-----------------------------------------------------------------------------
(* A request of either viewset is well-formed, and so are the tables.      *)
ServiceTypeOK ==
  /\ DOMAIN users \subseteq Users /\ users \in [DOMAIN users -> UserRow]
  /\ DOMAIN profiles \subseteq Users
  /\ profiles \in [DOMAIN profiles -> BOOLEAN]
  /\ tokens \subseteq TokenRow
  /\ DOMAIN req = Workers
  /\ \A w \in Workers : RequestOK(req[w]) \/ UserRequestOK(req[w])
                           \/ ChangeRequestOK(req[w])
  /\ now \in Nat /\ drawn \in Nat /\ spent \subseteq Nat \X Workers
  /\ unborn \subseteq Users

(* In this step a worker executes the statement that saves a new password  *)
(* of u: that of a confirmation, or of a change.                           *)
Executes(u, at) ==
  \E w \in Workers : req[w].user = u /\ At(w, at) /\ req'[w].at /= at

Confirms(u) == Executes(u, "confirm_save")
Changes(u) == Executes(u, "change_save")

(* No worker about to save an instance of u holds an older password.       *)
PasswordSettled(u) ==
  /\ u \in DOMAIN users
  /\ \A w \in Workers :
       req[w].user = u /\ req[w].copy /= None /\ ~ At(w, "change_save") =>
         req[w].copy.password = users[u].password

(* A password that no instance still in use predates is replaced only by   *)
(* the save of a confirmation or of a change: every other write back of    *)
(* the row, an update's, a completion's, a block's or a registration's,    *)
(* leaves the password as it is, and no request comes to hold an older one *)
(* (serializers.py:26, views.py:140 and :193 save whole rows or columns).  *)
PasswordSettles ==
  [][\A u \in Users :
       PasswordSettled(u) =>
         \/ PasswordSettled(u)' /\ users'[u].password = users[u].password
         \/ Confirms(u) \/ Changes(u)
         \/ u \notin DOMAIN users']_serviceVars

(* docs/auth.md:102, "The user must use the recovery flow": the password   *)
(* of an account changes through a confirmation and nothing else.  The     *)
(* views modelled here only: the pages of allauth (auth_api/urls.py:33)    *)
(* have a change and a reset of their own.                                 *)
OnlyConfirmSetsPassword ==
  [][\A u \in DOMAIN users \cap DOMAIN users' :
       users[u].password /= users'[u].password => Confirms(u)]_serviceVars

-----------------------------------------------------------------------------
(* The accounts as AccountPromise has them.  A user whose profile is still *)
(* to be inserted has not completed the registration; the token that is    *)
(* out is the one row there is.                                            *)
AccountOf(u) ==
  [password |-> users[u].password, active |-> users[u].is_active,
   complete |-> u \in DOMAIN profiles /\ profiles[u]]

TokenOf(u) ==
  IF TokensOf(u) = {} THEN None ELSE (CHOOSE r \in TokensOf(u) : TRUE).pk

Promise == INSTANCE AccountPromise WITH
  Accounts <- Users,
  account <- [u \in DOMAIN users |-> AccountOf(u)],
  token <- [u \in Users |-> TokenOf(u)],
  issued <- drawn

(* Requests that are served one after the other, and cut short by crashes  *)
(* wherever they stand, keep the promise: all that a request writes beyond *)
(* what it is for (whole rows, read-only flags) was there before.          *)
KeepsPromise == Promise!Spec
=============================================================================
