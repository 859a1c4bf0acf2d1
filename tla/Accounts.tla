------------------------------ MODULE Accounts ------------------------------
(***************************************************************************)
(* The tables of users/models.py and the worker processes that serve       *)
(* requests over them.                                                     *)
(*                                                                         *)
(* The settings set no ATOMIC_REQUESTS and no view opens a transaction, so *)
(* every ORM statement commits by itself: a request is a sequence of       *)
(* statements, and the statements of the gunicorn workers interleave.      *)
(* A worker is a process that serves one request at a time; req[w] names   *)
(* the statement it executes next and the model instances its handler has  *)
(* loaded, which may be older than the rows they came from.                *)
(*                                                                         *)
(* The handlers themselves are in PasswordRecovery and UserAccounts.       *)
(***************************************************************************)
EXTENDS Naturals

CONSTANTS
  Users,     \* primary keys of the user table
  Workers,   \* the gunicorn worker processes
  None,      \* what a handler holds before it has loaded anything
  Crashes    \* may a worker be killed in a request?

ASSUME NoneAssumption == None \notin Users
ASSUME CrashesAssumption == Crashes \in BOOLEAN

VARIABLES
  users,     \* users[u]: the row of user u, for the keys that have one
  profiles,  \* profiles[u]: is_register_complete of u's Profile row, if it exists
  tokens,    \* the TokenRecovery rows
  req,       \* req[w]: the request worker w is serving
  reply      \* reply[w]: how w's last request ended

tables == <<users, profiles, tokens>>
accountVars == <<users, profiles, tokens, req, reply>>

(* The columns that the handlers write.  A password is named by the        *)
(* recovery token that set it, 0 being the one chosen at registration;     *)
(* "named" says that first_name and last_name are not empty.               *)
UserRow == [password : Nat, is_active : BOOLEAN,
            is_test_user : BOOLEAN, named : BOOLEAN]

(* A handler that holds nothing can be told from one that does.            *)
ASSUME InstanceAssumption ==
  None \notin UserRow /\ None \notin BOOLEAN /\ None \notin Nat

(* "pk" stands for the key and for the random token value, which is drawn  *)
(* afresh with every row; "maker" is a history field, the worker that      *)
(* inserted the row.                                                       *)
TokenRow == [pk : Nat, user : Users, created_at : Nat, maker : Workers]

TokensOf(u) == {r \in tokens : r.user = u}

(* JWT authentication loads the user of the token and wants it active.     *)
Authenticated(q) == q \in DOMAIN users /\ users[q].is_active

-----------------------------------------------------------------------------
Request(at, u, c) ==
  [at |-> at, user |-> u, copy |-> c, token |-> None, profile |-> None]

Idle == Request("idle", None, None)

(* How a request can end: what the client or the mailbox gets to see,      *)
(* "swallowed" being a 200 after a logged exception, "error" a 500 and     *)
(* "lost" a connection cut by the death of the worker.                     *)
Replies == {"none", "ok", "mailed", "swallowed", "valid", "rejected",
            "error", "lost"}

(* Worker w is about to execute the statement named at.                    *)
At(w, at) == req[w].at = at

(* An idle worker takes a request about user u off the socket and stops    *)
(* before the statement named at, holding the instance c of u.             *)
Begin(w, at, u, c) ==
  /\ At(w, "idle")
  /\ req' = [req EXCEPT ![w] = Request(at, u, c)]
  /\ reply' = [reply EXCEPT ![w] = "none"]

Goto(w, at) ==
  /\ req' = [req EXCEPT ![w] = [@ EXCEPT !.at = at]]
  /\ UNCHANGED reply

(* The same, now holding the TokenRecovery instance t.                     *)
GotoHolding(w, at, t) ==
  /\ req' = [req EXCEPT ![w] =
               [at |-> at, user |-> @.user, copy |-> @.copy, token |-> t,
                profile |-> @.profile]]
  /\ UNCHANGED reply

(* The handler returns, or an exception ends it: its instances are gone.   *)
Answer(w, r) ==
  /\ req' = [req EXCEPT ![w] = Idle]
  /\ reply' = [reply EXCEPT ![w] = r]

-----------------------------------------------------------------------------
(* After Model.save() has inserted a user row, the post_save receiver runs *)
(* as a statement of its own; then the handler goes on at AfterSignal.     *)
SignalOf == [confirm_save   |-> "confirm_signal",
             update_save    |-> "update_signal",
             complete_save  |-> "complete_signal",
             register_flag  |-> "register_resignal",
             change_save    |-> "change_signal"]

AfterSignal == [confirm_signal   |-> "confirm_delete",
                update_signal    |-> "update_profile",
                complete_signal  |-> "complete_profile",
                register_signal  |-> "register_flag",
                register_resignal |-> "idle",
                change_signal    |-> "idle"]

(* user.save() without update_fields: UPDATE every column with what the    *)
(* instance holds; an UPDATE that matches no row is followed by an INSERT  *)
(* with the same key, and then post_save says created=True.                *)
SaveUser(w, row, next) ==
  LET u == req[w].user IN
  /\ \/ /\ u \in DOMAIN users
        /\ users' = [users EXCEPT ![u] = row]
        /\ IF next = "idle" THEN Answer(w, "ok") ELSE Goto(w, next)
     \/ /\ u \notin DOMAIN users
        /\ users' = [v \in DOMAIN users \cup {u} |->
                       IF v = u THEN row ELSE users[v]]
        /\ Goto(w, SignalOf[req[w].at])
  /\ UNCHANGED <<profiles, tokens>>

(* Mutant: the receiver is not connected.                                  *)
CreateProfile_Unconnected(w) ==
  /\ req[w].at \in DOMAIN AfterSignal
  /\ Goto(w, AfterSignal[req[w].at])
  /\ UNCHANGED tables

(* create_profile: Profile.objects.create(user=instance).  The foreign key *)
(* and the one-to-one constraint turn the other cases into an error.       *)
CreateProfile(w) ==
  LET u == req[w].user
      next == AfterSignal[req[w].at] IN
  /\ req[w].at \in DOMAIN AfterSignal
  /\ \/ /\ u \in DOMAIN users /\ u \notin DOMAIN profiles
        /\ profiles' = [v \in DOMAIN profiles \cup {u} |->
                          IF v = u THEN FALSE ELSE profiles[v]]
        /\ IF next = "idle" THEN Answer(w, "ok") ELSE Goto(w, next)
     \/ /\ u \notin DOMAIN users \/ u \in DOMAIN profiles
        /\ Answer(w, "error")
        /\ UNCHANGED profiles
  /\ UNCHANGED <<users, tokens>>

(* DELETE of user rows: Django's collector removes them with everything    *)
(* that cascades from them in one transaction.                             *)
DeleteUsers(gone) ==
  /\ users' = [u \in DOMAIN users \ gone |-> users[u]]
  /\ profiles' = [u \in DOMAIN profiles \ gone |-> profiles[u]]
  /\ tokens' = {r \in tokens : r.user \notin gone}

(* gunicorn kills a worker whose request outlives its timeout and starts   *)
(* another in its place: what the handler had committed stays.             *)
Crash(w) ==
  /\ Crashes
  /\ ~ At(w, "idle")
  /\ Answer(w, "lost")
  /\ UNCHANGED tables
=============================================================================
