------------------------ MODULE AccountServiceProofs ------------------------
(***************************************************************************)
(* The views over the account tables, for every number of accounts and of  *)
(* workers that interleave.  What any statement of any handler does to the *)
(* tables and to its own request comes down to a few forms (Moves and      *)
(* Writes); the properties follow from those.  The last part is about one  *)
(* worker, whose requests hold what the tables still have (Stands).        *)
(***************************************************************************)
EXTENDS AccountService, TLAPS

SaveSteps == {"confirm_save", "change_save", "update_save", "complete_save",
              "register_flag"}
SignalSteps == {"confirm_signal", "change_signal", "update_signal",
                "complete_signal", "register_signal", "register_resignal"}

HandlerOK(r) == RequestOK(r) \/ UserRequestOK(r) \/ ChangeRequestOK(r)

(* Where the instance of the user that a request holds next comes from: it *)
(* has none, it has had it, it has loaded it (and set a password on it),   *)
(* or it has just registered it.                                           *)
CopyFrom(w, r) ==
  \/ r.copy = None
  \/ r.user = req[w].user /\ r.copy = req[w].copy
  \/ r.user \in DOMAIN users /\ r.copy = users[r.user]
  \/ /\ r.user \in DOMAIN users /\ r.at = "change_save"
     /\ \E n \in Nat : r.copy = [users[r.user] EXCEPT !.password = n]
  \/ r.user \in unborn /\ r.user \notin unborn'

ProfileFrom(w, r) ==
  \/ r.profile = None
  \/ r.user = req[w].user /\ r.profile = req[w].profile
  \/ r.user \in DOMAIN profiles /\ r.profile = profiles[r.user]

(* A statement of worker w changes the request of w and no other.          *)
Moves(w) ==
  \E r : /\ req' = [req EXCEPT ![w] = r]
         /\ HandlerOK(r) /\ CopyFrom(w, r) /\ ProfileFrom(w, r)

Put(table, key, row) ==
  [v \in DOMAIN table \cup {key} |-> IF v = key THEN row ELSE table[v]]

(* It writes a whole user row, which keeps the instance's is_active and,   *)
(* unless it confirms, its password, and goes on; ...                      *)
SavesUser(w) ==
  /\ req[w].at \in SaveSteps /\ profiles' = profiles
  /\ req'[w].at /= req[w].at
  /\ \E row \in UserRow :
       /\ row.is_active = req[w].copy.is_active
       /\ row.password = req[w].copy.password \/ At(w, "confirm_save")
       /\ users' = Put(users, req[w].user, row)
  /\ req[w].user \notin DOMAIN users =>
       req'[w].at \in SignalSteps /\ req'[w].user = req[w].user

(* ... or one column of one that exists; ...                               *)
SavesActive(w) ==
  /\ At(w, "toggle_save") /\ profiles' = profiles
  /\ \E active \in BOOLEAN :
       users' = [users EXCEPT ![req[w].user] = [@ EXCEPT !.is_active = active]]

(* ... or a profile: complete, new, or with the flag that was read; ...    *)
SavesProfile(w) ==
  /\ req[w].user \in DOMAIN users /\ users' = users
  /\ \E b \in BOOLEAN :
       /\ b \/ req[w].user \notin DOMAIN profiles \/ b = req[w].profile
       /\ profiles' = Put(profiles, req[w].user, b)

(* ... or it registers an account.                                         *)
Registers(w) ==
  \E u \in unborn, row \in UserRow :
    /\ users' = Put(users, u, row) /\ profiles' = profiles
    /\ unborn' = unborn \ {u}
    /\ req'[w].at \in SignalSteps /\ req'[w].user = u

Writes(w) ==
  \/ users' = users /\ profiles' = profiles
  \/ SavesUser(w) \/ SavesActive(w) \/ SavesProfile(w) \/ Registers(w)
  \/ \E gone : DeleteUsers(gone)

(* A worker leaves the receiver when there is a profile, or no user.       *)
SignalDone(w) ==
  req[w].at \in SignalSteps =>
    req[w].user \notin DOMAIN users' \/ req[w].user \in DOMAIN profiles'

CountersTyped ==
  /\ tokens \subseteq TokenRow /\ now \in Nat /\ drawn \in Nat
  /\ spent \subseteq Nat \X Workers

(* One statement of worker w.                                              *)
StepOf(w) ==
  /\ Moves(w) /\ Writes(w) /\ (SignalDone(w) \/ Crashes)
  /\ CountersTyped' /\ unborn' \subseteq unborn
-----------------------------------------------------------------------------
(* Handlers.  The statement that a request is at tells which viewset it is *)
(* a request of.                                                           *)
LEMMA HandlerKinds ==
  ASSUME NEW r, HandlerOK(r)
  PROVE  /\ r.at \in RequestSteps \cup ConfirmSteps => RequestOK(r)
         /\ r.at \in UserSteps => UserRequestOK(r)
         /\ r.at \in ChangeSteps => ChangeRequestOK(r)
  BY DEF HandlerOK, RequestOK, UserRequestOK, ChangeRequestOK, RequestSteps,
         ConfirmSteps, UserSteps, ChangeSteps

LEMMA SavesHold ==
  ASSUME NEW r, HandlerOK(r), r.at \in SaveSteps
  PROVE  r.copy \in UserRow /\ r.user \in Users
  BY HandlerKinds DEF RequestOK, UserRequestOK, ChangeRequestOK, RequestSteps,
         ConfirmSteps, UserSteps, ChangeSteps, SaveSteps

LEMMA UserOfRequest ==
  ASSUME NEW r, HandlerOK(r), r.at /= "idle"
  PROVE  r.user \in Users
  BY DEF HandlerOK, RequestOK, UserRequestOK, ChangeRequestOK

LEMMA AnswerMoves ==
  ASSUME NEW w \in Workers, NEW x, Answer(w, x)
  PROVE  Moves(w)
  <1>1. HandlerOK(Idle)
    BY DEF HandlerOK, UserRequestOK, Idle, Request, UserSteps
  <1>2. CopyFrom(w, Idle) /\ ProfileFrom(w, Idle)
    BY DEF CopyFrom, ProfileFrom, Idle, Request
  <1> QED BY <1>1, <1>2 DEF Answer, Moves

LEMMA GotoMoves ==
  ASSUME NEW w \in Workers, NEW at, Goto(w, at), HandlerOK([req[w] EXCEPT !.at = at]),
         HandlerOK(req[w])
  PROVE  Moves(w)
  <1> DEFINE r == [req[w] EXCEPT !.at = at]
  <1>1. /\ r.user = req[w].user /\ r.copy = req[w].copy /\ r.profile = req[w].profile
    BY DEF HandlerOK, RequestOK, UserRequestOK, ChangeRequestOK
  <1>2. CopyFrom(w, r) /\ ProfileFrom(w, r)
    BY <1>1 DEF CopyFrom, ProfileFrom
  <1>3. req' = [req EXCEPT ![w] = r]
    BY DEF Goto
  <1> HIDE DEF r
  <1>4. HandlerOK(r)
    BY DEF r
  <1> QED BY <1>2, <1>3, <1>4 DEF Moves

LEMMA HoldingMoves ==
  ASSUME NEW w \in Workers, NEW at, NEW t, GotoHolding(w, at, t),
         HandlerOK([at |-> at, user |-> req[w].user, copy |-> req[w].copy,
                    token |-> t, profile |-> req[w].profile])
  PROVE  Moves(w)
  <1> DEFINE r == [at |-> at, user |-> req[w].user, copy |-> req[w].copy,
                   token |-> t, profile |-> req[w].profile]
  <1>1. CopyFrom(w, r) /\ ProfileFrom(w, r)
    BY DEF CopyFrom, ProfileFrom
  <1>2. req' = [req EXCEPT ![w] = r]
    BY DEF GotoHolding
  <1> HIDE DEF r
  <1>3. HandlerOK(r)
    BY DEF r
  <1> QED BY <1>1, <1>2, <1>3 DEF Moves

LEMMA BeginMoves ==
  ASSUME NEW w \in Workers, NEW at, NEW u, NEW c, Begin(w, at, u, c),
         HandlerOK(Request(at, u, c)),
         \/ c = None
         \/ u \in DOMAIN users /\ c = users[u]
         \/ /\ u \in DOMAIN users /\ at = "change_save"
            /\ \E n \in Nat : c = [users[u] EXCEPT !.password = n]
         \/ u \in unborn /\ u \notin unborn'
  PROVE  Moves(w)
  <1> DEFINE r == Request(at, u, c)
  <1>1. CopyFrom(w, r) /\ ProfileFrom(w, r)
    BY DEF CopyFrom, ProfileFrom, Request
  <1>2. req' = [req EXCEPT ![w] = r]
    BY DEF Begin
  <1> HIDE DEF r
  <1>3. HandlerOK(r)
    BY DEF r
  <1> QED BY <1>1, <1>2, <1>3 DEF Moves

(* Saving a user leads to the receiver, and the receiver to what follows.  *)
LEMMA SignalSequence ==
  /\ SignalOf["confirm_save"] = "confirm_signal"
  /\ SignalOf["update_save"] = "update_signal"
  /\ SignalOf["complete_save"] = "complete_signal"
  /\ SignalOf["register_flag"] = "register_resignal"
  /\ SignalOf["change_save"] = "change_signal"
  /\ AfterSignal["confirm_signal"] = "confirm_delete"
  /\ AfterSignal["update_signal"] = "update_profile"
  /\ AfterSignal["complete_signal"] = "complete_profile"
  /\ AfterSignal["register_signal"] = "register_flag"
  /\ AfterSignal["register_resignal"] = "idle"
  /\ AfterSignal["change_signal"] = "idle"
  BY DEF SignalOf, AfterSignal

LEMMA SaveGoes ==
  ASSUME NEW w, NEW row, NEW next, SaveUser(w, row, next)
  PROVE  \/ next = "idle" /\ Answer(w, "ok")
         \/ next /= "idle" /\ Goto(w, next)
         \/ Goto(w, SignalOf[req[w].at])
  BY DEF SaveUser

LEMMA SignalGoes ==
  ASSUME NEW w, CreateProfile(w)
  PROVE  \/ \E x : Answer(w, x)
         \/ AfterSignal[req[w].at] /= "idle" /\ Goto(w, AfterSignal[req[w].at])
  BY DEF CreateProfile

-----------------------------------------------------------------------------
(* The requests of each viewset, statement by statement.                   *)
LEMMA RecoveryMoves ==
  ASSUME ServiceTypeOK, NEW w \in Workers,
         RequestToken(w) \/ CheckToken(w) \/ ConfirmUser(w) \/ RecoveryStep(w)
  PROVE  Moves(w)
  <1> USE DEF At
  <1>0. HandlerOK(req[w])
    BY DEF ServiceTypeOK, HandlerOK
  <1>r. req[w].at \in RequestSteps \cup ConfirmSteps => RequestOK(req[w])
    BY <1>0, HandlerKinds
  <1>1. CASE RequestToken(w)
    <2>1. ASSUME NEW u \in Users PROVE HandlerOK(Request("request_exists", u, None))
      BY DEF HandlerOK, RequestOK, Request, RequestSteps, ConfirmSteps, TokenHeld
    <2> QED BY <1>1, <2>1, BeginMoves, AnswerMoves DEF RequestToken
  <1>2. CASE ConfirmUser(w)
    <2>1. ASSUME NEW u \in DOMAIN users PROVE HandlerOK(Request("confirm_token", u, users[u]))
      <3>1. u \in Users /\ users[u] \in UserRow
        BY DEF ServiceTypeOK
      <3> QED
        BY <3>1 DEF HandlerOK, RequestOK, Request, RequestSteps, ConfirmSteps, TokenHeld
    <2> QED BY <1>2, <2>1, BeginMoves, AnswerMoves DEF ConfirmUser
  <1>3. CASE CheckToken(w)
    BY <1>3, AnswerMoves DEF CheckToken
  <1>4. CASE RequestExists(w)
    <2>1. PICK at \in {"request_get", "request_create"} : Goto(w, at)
      BY <1>4 DEF RequestExists
    <2>2. RequestOK([req[w] EXCEPT !.at = at])
      BY <1>4, <1>r DEF RequestOK, RequestExists, RequestSteps, ConfirmSteps, TokenHeld
    <2> QED BY <1>0, <2>1, <2>2, GotoMoves DEF HandlerOK
  <1>5. CASE RequestGet(w)
    <2>1. ASSUME NEW r \in TokensOf(req[w].user), GotoHolding(w, "request_delete", r)
          PROVE  Moves(w)
      <3>1. RequestOK([at |-> "request_delete", user |-> req[w].user,
                       copy |-> req[w].copy, token |-> r, profile |-> req[w].profile])
        BY <1>5, <1>r DEF ServiceTypeOK, RequestOK, RequestGet, RequestSteps,
                          ConfirmSteps, TokenHeld, TokensOf
      <3> QED BY <2>1, <3>1, HoldingMoves DEF HandlerOK
    <2> QED BY <1>5, <2>1, AnswerMoves DEF RequestGet
  <1>6. CASE RequestDelete(w)
    <2>1. RequestOK([at |-> "request_create", user |-> req[w].user,
                     copy |-> req[w].copy, token |-> None, profile |-> req[w].profile])
      BY <1>6, <1>r DEF RequestOK, RequestDelete, RequestSteps, ConfirmSteps, TokenHeld
    <2> QED BY <1>6, <2>1, HoldingMoves DEF HandlerOK, RequestDelete
  <1>7. CASE RequestCreate(w)
    <2> DEFINE t == [pk |-> drawn + 1, user |-> req[w].user, created_at |-> now,
                     maker |-> w]
    <2>1. RequestOK(req[w]) /\ req[w].at = "request_create"
      BY <1>7, <1>r DEF RequestCreate, RequestSteps
    <2>2. t \in TokenRow /\ t.user = req[w].user
      BY <2>1 DEF ServiceTypeOK, RequestOK, TokenRow
    <2>3. GotoHolding(w, "request_mail", t) \/ Answer(w, "swallowed")
      BY <1>7 DEF RequestCreate
    <2> HIDE DEF t
    <2>4. RequestOK([at |-> "request_mail", user |-> req[w].user,
                     copy |-> req[w].copy, token |-> t, profile |-> req[w].profile])
      BY <2>1, <2>2 DEF RequestOK, RequestSteps, ConfirmSteps, TokenHeld
    <2> QED BY <2>3, <2>4, HoldingMoves, AnswerMoves DEF HandlerOK
  <1>8. CASE RequestMail(w) \/ ConfirmDelete(w)
    BY <1>8, AnswerMoves DEF RequestMail, ConfirmDelete
  <1>9. CASE ConfirmToken(w)
    <2>1. ASSUME NEW r \in tokens, Valid(r, req[w].user), GotoHolding(w, "confirm_save", r)
          PROVE  Moves(w)
      <3>1. RequestOK([at |-> "confirm_save", user |-> req[w].user,
                       copy |-> req[w].copy, token |-> r, profile |-> req[w].profile])
        BY <1>9, <1>r, <2>1 DEF ServiceTypeOK, RequestOK, ConfirmToken, RequestSteps,
                                ConfirmSteps, TokenHeld, Valid
      <3> QED BY <2>1, <3>1, HoldingMoves DEF HandlerOK
    <2> QED BY <1>9, <2>1, AnswerMoves DEF ConfirmToken
  <1>10. CASE ConfirmSave(w) \/ ConfirmSignal(w)
    <2>1. \/ \E at \in {"confirm_delete", "confirm_signal"} : Goto(w, at)
          \/ \E x : Answer(w, x)
      <3>1. CASE ConfirmSave(w)
        BY <3>1, SaveGoes, SignalSequence DEF ConfirmSave
      <3>2. CASE ConfirmSignal(w)
        BY <3>2, SignalGoes, SignalSequence DEF ConfirmSignal
      <3> QED BY <1>10, <3>1, <3>2
    <2>2. ASSUME NEW at \in {"confirm_delete", "confirm_signal"}
          PROVE  RequestOK([req[w] EXCEPT !.at = at])
      BY <1>10, <1>r DEF RequestOK, ConfirmSave, ConfirmSignal, RequestSteps,
                         ConfirmSteps, TokenHeld
    <2> QED BY <1>0, <2>1, <2>2, GotoMoves, AnswerMoves DEF HandlerOK
  <1> QED
    BY <1>1, <1>2, <1>3, <1>4, <1>5, <1>6, <1>7, <1>8, <1>9, <1>10 DEF RecoveryStep

LEMMA ChangeMoves ==
  ASSUME ServiceTypeOK, NEW w \in Workers, ChangePassword(w) \/ ChangeStep(w)
  PROVE  Moves(w)
  <1> USE DEF At
  <1>0. HandlerOK(req[w])
    BY DEF ServiceTypeOK, HandlerOK
  <1>1. CASE ChangePassword(w)
    <2>1. CASE Answer(w, "rejected")
      BY <2>1, AnswerMoves
    <2>2. ASSUME NEW q \in DOMAIN users,
                 Begin(w, "change_save", q, [users[q] EXCEPT !.password = drawn + 1])
          PROVE  Moves(w)
      <3>1. q \in Users /\ users[q] \in UserRow /\ drawn + 1 \in Nat
        BY DEF ServiceTypeOK
      <3>2. [users[q] EXCEPT !.password = drawn + 1] \in UserRow
        BY <3>1 DEF UserRow
      <3>3. HandlerOK(Request("change_save", q, [users[q] EXCEPT !.password = drawn + 1]))
        BY <3>1, <3>2 DEF HandlerOK, ChangeRequestOK, ChangeSteps, Request
      <3> QED BY <2>2, <3>1, <3>3, BeginMoves
    <2> QED BY <1>1, <2>1, <2>2 DEF ChangePassword, Authenticated
  <1>2. CASE ChangeStep(w)
    <2>1. Goto(w, "change_signal") \/ \E x : Answer(w, x)
      <3>1. CASE ChangeSave(w)
        BY <3>1, SaveGoes, SignalSequence DEF ChangeSave
      <3>2. CASE ChangeSignal(w)
        BY <3>2, SignalGoes, SignalSequence DEF ChangeSignal
      <3> QED BY <1>2, <3>1, <3>2 DEF ChangeStep
    <2>2. ChangeRequestOK(req[w])
      BY <1>0, <1>2, HandlerKinds DEF ChangeStep, ChangeSave, ChangeSignal, ChangeSteps
    <2>3. ChangeRequestOK([req[w] EXCEPT !.at = "change_signal"])
      BY <2>2 DEF ChangeRequestOK, ChangeSteps
    <2> QED BY <1>0, <2>1, <2>3, GotoMoves, AnswerMoves DEF HandlerOK
  <1> QED BY <1>1, <1>2

(* What a request of UserViewSet has to hold when it goes on.              *)
LoadSteps == {"update_load", "toggle_load", "destroy_load"}
NestedSteps == {"update_nested", "complete_nested"}

LEMMA UserGotoMoves ==
  ASSUME ServiceTypeOK, NEW w \in Workers, NEW at \in UserSteps \ NestedSteps, Goto(w, at),
         req[w].at \in UserSteps \ LoadSteps
  PROVE  Moves(w)
  <1>1. HandlerOK(req[w])
    BY DEF ServiceTypeOK, HandlerOK
  <1>2. UserRequestOK(req[w])
    BY <1>1, HandlerKinds
  <1>3. UserRequestOK([req[w] EXCEPT !.at = at])
    BY <1>2 DEF UserRequestOK, UserSteps, LoadSteps, NestedSteps
  <1> QED BY <1>1, <1>3, GotoMoves DEF HandlerOK

LEMMA LoadMoves ==
  ASSUME ServiceTypeOK, NEW w \in Workers, NEW from, NEW to \in UserSteps \ NestedSteps,
         Load(w, from, to)
  PROVE  Moves(w)
  <1>1. CASE Answer(w, "rejected")
    BY <1>1, AnswerMoves
  <1>2. CASE req[w].user \in DOMAIN users
             /\ req' = [req EXCEPT ![w] = Request(to, req[w].user, users[req[w].user])]
    <2> DEFINE r == Request(to, req[w].user, users[req[w].user])
    <2>1. req[w].user \in Users /\ users[req[w].user] \in UserRow
      BY <1>2 DEF ServiceTypeOK
    <2>2. UserRequestOK(r)
      BY <2>1 DEF UserRequestOK, Request, NestedSteps
    <2>3. CopyFrom(w, r) /\ ProfileFrom(w, r)
      BY <1>2 DEF CopyFrom, ProfileFrom, Request
    <2>4. req' = [req EXCEPT ![w] = r]
      BY <1>2
    <2> HIDE DEF r
    <2> QED BY <2>2, <2>3, <2>4 DEF Moves, HandlerOK
  <1> QED BY <1>1, <1>2 DEF Load

LEMMA NestedReadMoves ==
  ASSUME ServiceTypeOK, NEW w \in Workers, NEW from \in UserSteps \ LoadSteps,
         NEW to \in NestedSteps, NEW done \in BOOLEAN, NestedRead(w, from, to, done),
         done => Moves(w)
  PROVE  Moves(w)
  <1>1. CASE Answer(w, "error")
    BY <1>1, AnswerMoves
  <1>2. CASE req[w].user \in DOMAIN profiles
             /\ req' = [req EXCEPT ![w] = [@ EXCEPT !.at = to,
                                                   !.profile = profiles[req[w].user]]]
    <2> DEFINE r == [req[w] EXCEPT !.at = to, !.profile = profiles[req[w].user]]
    <2>0. HandlerOK(req[w]) /\ req[w].at = from
      BY DEF ServiceTypeOK, HandlerOK, NestedRead, At
    <2>1. UserRequestOK(req[w])
      BY <2>0, HandlerKinds
    <2>2. profiles[req[w].user] \in BOOLEAN
      BY <1>2 DEF ServiceTypeOK
    <2>3. UserRequestOK(r)
      BY <2>0, <2>1, <2>2 DEF UserRequestOK, UserSteps, LoadSteps, NestedSteps
    <2>4. CopyFrom(w, r) /\ ProfileFrom(w, r)
      BY <1>2, <2>1 DEF CopyFrom, ProfileFrom, UserRequestOK
    <2>5. req' = [req EXCEPT ![w] = r]
      BY <1>2
    <2> HIDE DEF r
    <2> QED BY <2>3, <2>4, <2>5 DEF Moves, HandlerOK
  <1> QED BY <1>1, <1>2 DEF NestedRead

LEMMA UserStartMoves ==
  ASSUME ServiceTypeOK, NEW w \in Workers, UserStart(w)
  PROVE  Moves(w)
  <1>1. CASE Refuse(w) \/ DeleteTestUsers(w)
    BY <1>1, AnswerMoves DEF Refuse, DeleteTestUsers
  <1>2. CASE UpdateUser(w) \/ UserDetails(w) \/ CompleteRegister(w) \/ AdminRequest(w)
    <2>1. ASSUME NEW u \in Users, NEW at \in LoadSteps PROVE HandlerOK(Request(at, u, None))
      BY <2>1 DEF HandlerOK, UserRequestOK, Request, UserSteps, LoadSteps
    <2>2. ASSUME NEW q \in DOMAIN users, NEW at \in {"update_save", "complete_check"}
          PROVE  HandlerOK(Request(at, q, users[q]))
      <3>1. q \in Users /\ users[q] \in UserRow
        BY DEF ServiceTypeOK
      <3> QED BY <3>1 DEF HandlerOK, UserRequestOK, Request, UserSteps
    <2>3. \/ \E q \in DOMAIN users, at \in {"update_save", "complete_check"} :
               Begin(w, at, q, users[q])
          \/ \E u \in Users, at \in LoadSteps : Begin(w, at, u, None)
      BY <1>2 DEF UpdateUser, UserDetails, CompleteRegister, AdminRequest, Authenticated, LoadSteps
    <2> QED BY <2>1, <2>2, <2>3, BeginMoves
  <1>3. CASE Register(w)
    <2> DEFINE row == [password |-> 0, is_active |-> TRUE,
                       is_test_user |-> FALSE, named |-> FALSE]
    <2>1. PICK u \in unborn : Begin(w, "register_signal", u, row) /\ unborn' = unborn \ {u}
      BY <1>3 DEF Register
    <2>2. row \in UserRow /\ u \in Users
      BY DEF UserRow, ServiceTypeOK
    <2> HIDE DEF row
    <2>3. HandlerOK(Request("register_signal", u, row))
      BY <2>2 DEF HandlerOK, UserRequestOK, Request, UserSteps
    <2> QED BY <2>1, <2>3, BeginMoves
  <1> QED BY <1>1, <1>2, <1>3 DEF UserStart

LEMMA UserStepMoves ==
  ASSUME ServiceTypeOK, NEW w \in Workers, UserStep(w)
  PROVE  Moves(w)
  <1> USE DEF At
  <1>a. ASSUME NEW at \in UserSteps \ NestedSteps, Goto(w, at),
               req[w].at \in UserSteps \ LoadSteps
        PROVE  Moves(w)
    BY <1>a, UserGotoMoves
  <1>1. CASE UpdateLoad(w) \/ ToggleLoad(w) \/ DestroyLoad(w)
    BY <1>1, LoadMoves DEF UpdateLoad, ToggleLoad, DestroyLoad, UserSteps, NestedSteps
  <1>2. CASE UpdateSave(w)
    <2>1. (\E x : Answer(w, x)) \/ Goto(w, "update_profile") \/ Goto(w, "update_signal")
      BY <1>2, SaveGoes, SignalSequence DEF UpdateSave
    <2> QED BY <1>2, <1>a, <2>1, AnswerMoves
            DEF UpdateSave, UserSteps, LoadSteps, NestedSteps
  <1>3. CASE UpdateProfile(w)
    <2>1. Answer(w, "ok") => Moves(w)
      BY AnswerMoves
    <2>2. Answer(w, "ok") \in BOOLEAN
      BY DEF Answer
    <2> QED BY <1>3, <2>1, <2>2, NestedReadMoves
            DEF UpdateProfile, UserSteps, LoadSteps, NestedSteps
  <1>4. CASE UpdateNested(w) \/ CompleteWrite(w)
    BY <1>4, AnswerMoves DEF UpdateNested, CompleteWrite, ProfileSave
  <1>5. CASE CompleteCheck(w)
    BY <1>5, <1>a, AnswerMoves DEF CompleteCheck, UserSteps, LoadSteps, NestedSteps
  <1>6. CASE CompleteSave(w)
    <2>1. (\E x : Answer(w, x)) \/ Goto(w, "complete_profile") \/ Goto(w, "complete_signal")
      BY <1>6, SaveGoes, SignalSequence DEF CompleteSave
    <2> QED BY <1>6, <1>a, <2>1, AnswerMoves
            DEF CompleteSave, UserSteps, LoadSteps, NestedSteps
  <1>7. CASE CompleteProfile(w)
    <2>1. Goto(w, "complete_fetch") => Moves(w)
      BY <1>7, <1>a DEF CompleteProfile, NestedRead, UserSteps, LoadSteps, NestedSteps
    <2>2. Goto(w, "complete_fetch") \in BOOLEAN
      BY DEF Goto
    <2> QED BY <1>7, <2>1, <2>2, NestedReadMoves
            DEF CompleteProfile, UserSteps, LoadSteps, NestedSteps
  <1>8. CASE CompleteNested(w)
    BY <1>8, <1>a, AnswerMoves
    DEF CompleteNested, ProfileSave, UserSteps, LoadSteps, NestedSteps
  <1>9. CASE CompleteFetch(w)
    BY <1>9, <1>a, AnswerMoves DEF CompleteFetch, UserSteps, LoadSteps, NestedSteps
  <1>10. CASE ToggleSave(w) \/ Destroy(w)
    BY <1>10, AnswerMoves DEF ToggleSave, Destroy
  <1>11. CASE RegisterFlag(w)
    <2>1. (\E x : Answer(w, x)) \/ Goto(w, "register_resignal")
      BY <1>11, SaveGoes, SignalSequence DEF RegisterFlag
    <2> QED BY <1>11, <1>a, <2>1, AnswerMoves
            DEF RegisterFlag, UserSteps, LoadSteps, NestedSteps
  <1>12. CASE UserSignal(w)
    <2>1. \/ \E x : Answer(w, x)
          \/ \E at \in {"update_profile", "complete_profile", "register_flag"} : Goto(w, at)
      BY <1>12, SignalGoes, SignalSequence DEF UserSignal
    <2> QED BY <1>12, <1>a, <2>1, AnswerMoves
            DEF UserSignal, UserSteps, LoadSteps, NestedSteps
  <1> QED
    BY <1>1, <1>2, <1>3, <1>4, <1>5, <1>6, <1>7, <1>8, <1>9, <1>10, <1>11, <1>12
    DEF UserStep

-----------------------------------------------------------------------------
(* What the statements write.                                              *)
LEMMA SaveWrites ==
  ASSUME ServiceTypeOK, NEW w \in Workers, NEW row \in UserRow,
         NEW next \in {"idle", "confirm_delete", "update_profile", "complete_profile"},
         req[w].at \in SaveSteps, row.is_active = req[w].copy.is_active,
         row.password = req[w].copy.password \/ At(w, "confirm_save"),
         SaveUser(w, row, next)
  PROVE  SavesUser(w)
  <1> DEFINE u == req[w].user
  <1>1. users' = Put(users, u, row)
    <2>1. CASE u \in DOMAIN users /\ users' = [users EXCEPT ![u] = row]
      <3>1. DOMAIN users \cup {u} = DOMAIN users
        BY <2>1
      <3> QED BY <2>1, <3>1 DEF Put
    <2>2. CASE users' = [v \in DOMAIN users \cup {u} |-> IF v = u THEN row ELSE users[v]]
      BY <2>2 DEF Put
    <2> QED BY <2>1, <2>2 DEF SaveUser
  <1>2. ASSUME u \notin DOMAIN users
        PROVE  req'[w].at \in SignalSteps /\ req'[w].user = u
    <2>1. req' = [req EXCEPT ![w] = [req[w] EXCEPT !.at = SignalOf[req[w].at]]]
      BY <1>2 DEF SaveUser, Goto
    <2>2. SignalOf[req[w].at] \in SignalSteps
      BY SignalSequence DEF SaveSteps, SignalSteps
    <2>3. w \in DOMAIN req /\ HandlerOK(req[w])
      BY DEF ServiceTypeOK, HandlerOK
    <2>4. [req[w] EXCEPT !.at = SignalOf[req[w].at]].at = SignalOf[req[w].at]
          /\ [req[w] EXCEPT !.at = SignalOf[req[w].at]].user = u
      BY <2>3 DEF HandlerOK, RequestOK, UserRequestOK, ChangeRequestOK
    <2> QED BY <2>1, <2>2, <2>3, <2>4
  <1>3. req'[w].at /= req[w].at
    <2>1. w \in DOMAIN req /\ HandlerOK(req[w])
      BY DEF ServiceTypeOK, HandlerOK
    <2>2. ASSUME NEW at PROVE [req[w] EXCEPT !.at = at].at = at
      BY <2>1 DEF HandlerOK, RequestOK, UserRequestOK, ChangeRequestOK
    <2>3. CASE Answer(w, "ok")
      BY <2>1, <2>3 DEF Answer, Idle, Request, SaveSteps
    <2>4. CASE Goto(w, next)
      BY <2>1, <2>2, <2>4 DEF Goto, SaveSteps
    <2>5. CASE Goto(w, SignalOf[req[w].at])
      <3>1. SignalOf[req[w].at] \notin SaveSteps
        BY SignalSequence DEF SaveSteps
      <3> QED BY <2>1, <2>2, <2>5, <3>1 DEF Goto
    <2> QED BY <2>3, <2>4, <2>5, SaveGoes
  <1> QED BY <1>1, <1>2, <1>3 DEF SavesUser, SaveUser

LEMMA SignalWrites ==
  ASSUME NEW w \in Workers, CreateProfile(w)
  PROVE  Writes(w) /\ SignalDone(w)
  <1> DEFINE u == req[w].user
  <1>1. CASE u \in DOMAIN users /\ u \notin DOMAIN profiles
    <2>1. users' = users /\ profiles' = Put(profiles, u, FALSE)
      BY <1>1 DEF CreateProfile, Put
    <2>2. u \in DOMAIN profiles'
      BY <2>1 DEF Put
    <2> QED BY <1>1, <2>1, <2>2 DEF Writes, SavesProfile, SignalDone
  <1>2. CASE u \notin DOMAIN users \/ u \in DOMAIN profiles
    BY <1>2 DEF CreateProfile, Writes, SignalDone
  <1> QED BY <1>1, <1>2

LEMMA ProfileWrites ==
  ASSUME NEW w \in Workers, NEW complete \in BOOLEAN, NEW done,
         complete \/ complete = req[w].profile, ProfileSave(w, complete, done)
  PROVE  Writes(w)
  <1>1. CASE req[w].user \in DOMAIN users
             /\ profiles' = Put(profiles, req[w].user, complete)
    BY <1>1 DEF ProfileSave, Writes, SavesProfile
  <1>2. CASE profiles' = profiles
    BY <1>2 DEF ProfileSave, Writes
  <1> QED BY <1>1, <1>2 DEF ProfileSave, Put

LEMMA NestedReadWrites ==
  ASSUME NEW w \in Workers, NEW from, NEW to, NEW done, NestedRead(w, from, to, done)
  PROVE  Writes(w)
  <1>1. CASE /\ req[w].user \in DOMAIN users /\ req[w].user \notin DOMAIN profiles
             /\ profiles' = Put(profiles, req[w].user, FALSE)
    BY <1>1 DEF NestedRead, Writes, SavesProfile
  <1>2. CASE profiles' = profiles
    BY <1>2 DEF NestedRead, Writes
  <1> QED BY <1>1, <1>2 DEF NestedRead, Put

LEMMA RecoveryWrites ==
  ASSUME ServiceTypeOK, NEW w \in Workers,
         RequestToken(w) \/ CheckToken(w) \/ ConfirmUser(w) \/ RecoveryStep(w)
  PROVE  Writes(w) /\ SignalDone(w)
  <1>0. HandlerOK(req[w])
    BY DEF ServiceTypeOK, HandlerOK
  <1>1. CASE ConfirmSave(w)
    <2>1. RequestOK(req[w]) /\ req[w].at = "confirm_save"
      BY <1>0, <1>1, HandlerKinds DEF ConfirmSave, At, ConfirmSteps
    <2>2. req[w].copy \in UserRow /\ req[w].token.pk \in Nat
      BY <2>1 DEF RequestOK, ConfirmSteps, TokenHeld, TokenRow
    <2> DEFINE row == [req[w].copy EXCEPT !.password = req[w].token.pk]
    <2>3. row \in UserRow /\ row.is_active = req[w].copy.is_active
      BY <2>2 DEF UserRow
    <2>4. SaveUser(w, row, "confirm_delete")
      BY <1>1 DEF ConfirmSave
    <2> HIDE DEF row
    <2>5. SavesUser(w)
      BY <2>1, <2>3, <2>4, SaveWrites DEF SaveSteps, At
    <2> QED BY <2>1, <2>5 DEF Writes, SignalDone, SignalSteps
  <1>2. CASE ConfirmSignal(w)
    BY <1>2, SignalWrites DEF ConfirmSignal
  <1>3. CASE users' = users /\ profiles' = profiles /\ req[w].at \notin SignalSteps
    BY <1>3 DEF Writes, SignalDone
  <1> QED
    BY <1>1, <1>2, <1>3
    DEF RecoveryStep, RequestToken, CheckToken, ConfirmUser, RequestExists, RequestGet,
        RequestDelete, RequestCreate, RequestMail, ConfirmToken, ConfirmDelete, tables,
        At, SignalSteps, Begin

LEMMA ChangeWrites ==
  ASSUME ServiceTypeOK, NEW w \in Workers, ChangePassword(w) \/ ChangeStep(w)
  PROVE  Writes(w) /\ SignalDone(w)
  <1>1. CASE ChangePassword(w)
    BY <1>1 DEF ChangePassword, tables, Writes, SignalDone, At, SignalSteps, Begin
  <1>2. CASE ChangeSave(w)
    <2>1. req[w].at = "change_save" /\ SaveUser(w, req[w].copy, "idle")
      BY <1>2 DEF ChangeSave, At
    <2>2. req[w].copy \in UserRow
      BY <2>1, SavesHold DEF SaveSteps, ServiceTypeOK, HandlerOK
    <2>3. SavesUser(w)
      BY <2>1, <2>2, SaveWrites DEF SaveSteps
    <2> QED BY <2>1, <2>3 DEF Writes, SignalDone, SignalSteps
  <1>3. CASE ChangeSignal(w)
    BY <1>3, SignalWrites DEF ChangeSignal
  <1> QED BY <1>1, <1>2, <1>3 DEF ChangeStep

LEMMA UserStartWrites ==
  ASSUME ServiceTypeOK, NEW w \in Workers, UserStart(w)
  PROVE  Writes(w) /\ SignalDone(w)
  <1>0. req[w].at = "idle"
    BY DEF UserStart, Refuse, UpdateUser, UserDetails, CompleteRegister, AdminRequest,
           DeleteTestUsers, Register, Begin, At
  <1>1. SignalDone(w)
    BY <1>0 DEF SignalDone, SignalSteps
  <1>2. CASE UNCHANGED tables
    BY <1>1, <1>2 DEF tables, Writes
  <1>3. CASE DeleteTestUsers(w)
    BY <1>1, <1>3 DEF DeleteTestUsers, Writes
  <1>4. CASE Register(w)
    <2> DEFINE row == [password |-> 0, is_active |-> TRUE,
                       is_test_user |-> FALSE, named |-> FALSE]
    <2>1. PICK u \in unborn :
            /\ Begin(w, "register_signal", u, row)
            /\ users' = Put(users, u, row)
            /\ unborn' = unborn \ {u} /\ profiles' = profiles
      BY <1>4 DEF Register, Put
    <2>2. row \in UserRow
      BY DEF UserRow
    <2> HIDE DEF row
    <2>3. req'[w] = Request("register_signal", u, row)
      BY <2>1 DEF Begin, ServiceTypeOK
    <2>4. req'[w].at \in SignalSteps /\ req'[w].user = u
      BY <2>3 DEF Request, SignalSteps
    <2> QED BY <1>1, <2>1, <2>2, <2>4 DEF Writes, Registers
  <1> QED
    BY <1>1, <1>2, <1>3, <1>4 DEF UserStart, Refuse, UpdateUser, UserDetails, CompleteRegister,
                                  AdminRequest

LEMMA UserStepWrites ==
  ASSUME ServiceTypeOK, NEW w \in Workers, UserStep(w)
  PROVE  Writes(w) /\ SignalDone(w)
  <1> USE DEF At
  <1>0. HandlerOK(req[w])
    BY DEF ServiceTypeOK, HandlerOK
  <1>1. CASE UserSignal(w)
    BY <1>1, SignalWrites DEF UserSignal
  <1>2. CASE ~ UserSignal(w)
    <2>1. SignalDone(w)
      BY <1>2 DEF UserStep, UpdateLoad, UpdateSave, UpdateProfile, UpdateNested,
         CompleteCheck, CompleteSave, CompleteProfile, CompleteNested, CompleteFetch,
         CompleteWrite, ToggleLoad, ToggleSave, DestroyLoad, Destroy, RegisterFlag,
         Load, NestedRead, SignalDone, SignalSteps
    <2>2. CASE UNCHANGED tables
      BY <2>1, <2>2 DEF tables, Writes
    <2>3. CASE UpdateSave(w) \/ CompleteSave(w) \/ RegisterFlag(w)
      <3>1. req[w].at \in SaveSteps /\ req[w].copy \in UserRow
        BY <1>0, <2>3, SavesHold DEF UpdateSave, CompleteSave, RegisterFlag, SaveSteps
      <3>2. ASSUME NEW b \in BOOLEAN
            PROVE  /\ [req[w].copy EXCEPT !.named = b] \in UserRow
                   /\ [req[w].copy EXCEPT !.named = b].is_active = req[w].copy.is_active
                   /\ [req[w].copy EXCEPT !.named = b].password = req[w].copy.password
                   /\ [req[w].copy EXCEPT !.is_test_user = b] \in UserRow
                   /\ [req[w].copy EXCEPT !.is_test_user = b].is_active
                        = req[w].copy.is_active
                   /\ [req[w].copy EXCEPT !.is_test_user = b].password
                        = req[w].copy.password
        BY <3>1 DEF UserRow
      <3>3. req[w].copy.named \in BOOLEAN /\ NameInputs \subseteq BOOLEAN
        BY <3>1, InputsAssumption DEF UserRow
      <3>4. CASE UpdateSave(w)
        <4>1. UNCHANGED tables \/ \E named \in BOOLEAN :
                 SaveUser(w, [req[w].copy EXCEPT !.named = named], "update_profile")
          BY <3>3, <3>4 DEF UpdateSave
        <4> QED BY <2>1, <2>2, <3>1, <3>2, <4>1, SaveWrites DEF Writes
      <3>5. CASE CompleteSave(w)
        <4>1. UNCHANGED tables \/ \E named \in BOOLEAN :
                 SaveUser(w, [req[w].copy EXCEPT !.named = named], "complete_profile")
          BY <3>3, <3>5 DEF CompleteSave
        <4> QED BY <2>1, <2>2, <3>1, <3>2, <4>1, SaveWrites DEF Writes
      <3>6. CASE RegisterFlag(w)
        <4>1. \E test \in BOOLEAN :
                 SaveUser(w, [req[w].copy EXCEPT !.is_test_user = test], "idle")
          BY <3>6 DEF RegisterFlag
        <4> QED BY <2>1, <3>1, <3>2, <4>1, SaveWrites DEF Writes
      <3> QED BY <2>1, <2>3, <3>4, <3>5, <3>6
    <2>4. CASE UpdateProfile(w) \/ CompleteProfile(w)
      BY <2>1, <2>4, NestedReadWrites DEF UpdateProfile, CompleteProfile
    <2>5. CASE UpdateNested(w) \/ CompleteNested(w) \/ CompleteWrite(w)
      <3>1. UpdateNested(w) \/ CompleteNested(w) => req[w].profile \in BOOLEAN
        BY <1>0, HandlerKinds DEF UpdateNested, CompleteNested, UserRequestOK, UserSteps
      <3> QED BY <2>1, <2>5, <3>1, ProfileWrites DEF UpdateNested, CompleteNested, CompleteWrite
    <2>6. CASE ToggleSave(w)
      BY <2>1, <2>6 DEF ToggleSave, Writes, SavesActive
    <2>7. CASE Destroy(w)
      BY <2>1, <2>7 DEF Destroy, Writes
    <2>8. CASE UpdateLoad(w) \/ ToggleLoad(w) \/ DestroyLoad(w) \/ CompleteCheck(w)
               \/ CompleteFetch(w)
      BY <2>1, <2>2, <2>8 DEF UpdateLoad, ToggleLoad, DestroyLoad, Load, CompleteCheck,
                              CompleteFetch
    <2> QED
      BY <1>2, <2>1, <2>2, <2>3, <2>4, <2>5, <2>6, <2>7, <2>8 DEF UserStep
  <1> QED BY <1>1, <1>2

-----------------------------------------------------------------------------
(* Tokens, clock and counters.                                             *)
LEMMA RecoveryCounts ==
  ASSUME ServiceTypeOK, NEW w \in Workers,
         RequestToken(w) \/ CheckToken(w) \/ ConfirmUser(w) \/ RecoveryStep(w)
  PROVE  CountersTyped'
  <1> USE DEF CountersTyped, At
  <1>0. HandlerOK(req[w])
    BY DEF ServiceTypeOK, HandlerOK
  <1>1. CASE RequestDelete(w) \/ ConfirmDelete(w)
    BY <1>1 DEF RequestDelete, ConfirmDelete, recoveryVars, ServiceTypeOK
  <1>2. CASE RequestCreate(w)
    <2> DEFINE t == [pk |-> drawn + 1, user |-> req[w].user, created_at |-> now,
                     maker |-> w]
    <2>1. req[w].user \in Users
      BY <1>0, <1>2, UserOfRequest DEF RequestCreate
    <2>2. t \in TokenRow /\ drawn + 1 \in Nat
      BY <2>1 DEF ServiceTypeOK, TokenRow
    <2>3. \/ tokens' = tokens \cup {t} /\ drawn' = drawn + 1
          \/ tokens' = tokens /\ drawn' = drawn
      BY <1>2 DEF RequestCreate
    <2> HIDE DEF t
    <2> QED BY <1>2, <2>2, <2>3 DEF RequestCreate, ServiceTypeOK
  <1>3. CASE ConfirmSave(w)
    <2>1. RequestOK(req[w]) /\ req[w].at = "confirm_save"
      BY <1>0, <1>3, HandlerKinds DEF ConfirmSave, ConfirmSteps
    <2>2. req[w].token.pk \in Nat
      BY <2>1 DEF RequestOK, TokenHeld, TokenRow
    <2>3. spent' = spent \cup {<<req[w].token.pk, w>>} /\ UNCHANGED <<tokens, now, drawn>>
      BY <1>3 DEF ConfirmSave, SaveUser
    <2> QED BY <2>2, <2>3 DEF ServiceTypeOK
  <1>4. CASE ConfirmSignal(w)
    BY <1>4 DEF ConfirmSignal, CreateProfile, recoveryVars, ServiceTypeOK
  <1>5. CASE UNCHANGED <<tables, recoveryVars>>
    BY <1>5 DEF tables, recoveryVars, ServiceTypeOK
  <1> QED
    BY <1>1, <1>2, <1>3, <1>4, <1>5
    DEF RequestToken, CheckToken, ConfirmUser, RecoveryStep, RequestExists,
        RequestGet, RequestMail, ConfirmToken

LEMMA ChangeCounts ==
  ASSUME ServiceTypeOK, NEW w \in Workers, ChangePassword(w) \/ ChangeStep(w)
  PROVE  CountersTyped'
  <1>1. CASE ChangePassword(w)
    BY <1>1 DEF ChangePassword, tables, ServiceTypeOK, CountersTyped
  <1>2. CASE ChangeStep(w)
    BY <1>2 DEF ChangeStep, ChangeSave, ChangeSignal, SaveUser, CreateProfile,
                recoveryVars, ServiceTypeOK, CountersTyped
  <1> QED BY <1>1, <1>2

LEMMA UserCounts ==
  ASSUME ServiceTypeOK, NEW w \in Workers, UserStart(w) \/ UserStep(w) \/ UserCrash(w)
  PROVE  tokens' \subseteq tokens /\ unborn' \subseteq unborn
  <1>1. CASE UserStart(w)
    BY <1>1 DEF UserStart, Refuse, UpdateUser, UserDetails, CompleteRegister, AdminRequest,
                DeleteTestUsers, Register, DeleteUsers, tables
  <1>2. CASE UserStep(w)
    BY <1>2 DEF UserStep, UpdateLoad, UpdateSave, UpdateProfile, UpdateNested,
       CompleteCheck, CompleteSave, CompleteProfile, CompleteNested, CompleteFetch,
       CompleteWrite, ToggleLoad, ToggleSave, DestroyLoad, Destroy, RegisterFlag,
       UserSignal, Load, NestedRead, ProfileSave, SaveUser, CreateProfile,
       DeleteUsers, tables
  <1>3. CASE UserCrash(w)
    BY <1>3 DEF UserCrash, Crash, tables
  <1> QED BY <1>1, <1>2, <1>3

(* Every step of the service is the statement of one worker, or the clock. *)
Ticks ==
  /\ UNCHANGED <<users, profiles, req, unborn>> /\ CountersTyped'

LEMMA EveryStep ==
  ASSUME ServiceTypeOK, ServiceNext
  PROVE  Ticks \/ \E w \in Workers : StepOf(w)
  <1>1. CASE Tick /\ UNCHANGED unborn
    BY <1>1 DEF Tick, accountVars, ServiceTypeOK, CountersTyped, Ticks
  <1>2. ASSUME NEW w \in Workers, UNCHANGED unborn,
               \/ RequestToken(w) \/ CheckToken(w) \/ ConfirmUser(w)
               \/ RecoveryStep(w)
        PROVE  StepOf(w)
    BY <1>2, RecoveryMoves, RecoveryWrites, RecoveryCounts DEF StepOf
  <1>3. ASSUME NEW w \in Workers, UNCHANGED unborn, ChangePassword(w) \/ ChangeStep(w)
        PROVE  StepOf(w)
    BY <1>3, ChangeMoves, ChangeWrites, ChangeCounts DEF StepOf
  <1>4. ASSUME NEW w \in Workers, UserStart(w) \/ UserStep(w) \/ UserCrash(w),
               UNCHANGED recoveryVars
        PROVE  StepOf(w)
    <2>1. CountersTyped' /\ unborn' \subseteq unborn
      BY <1>4, UserCounts DEF CountersTyped, ServiceTypeOK, recoveryVars
    <2>2. CASE UserStart(w) \/ UserStep(w)
      BY <2>1, <2>2, UserStartMoves, UserStepMoves, UserStartWrites, UserStepWrites
      DEF StepOf
    <2>3. CASE UserCrash(w)
      BY <2>1, <2>3, AnswerMoves DEF UserCrash, Crash, tables, Writes, StepOf
    <2> QED BY <1>4, <2>2, <2>3
  <1> QED BY <1>1, <1>2, <1>3, <1>4 DEF ServiceNext, UserNext

-----------------------------------------------------------------------------
(* Types.                                                                  *)
TablesTyped ==
  /\ DOMAIN users \subseteq Users /\ users \in [DOMAIN users -> UserRow]
  /\ DOMAIN profiles \subseteq Users /\ profiles \in [DOMAIN profiles -> BOOLEAN]

LEMMA PutTyped ==
  ASSUME NEW S, NEW t, t \in [DOMAIN t -> S], DOMAIN t \subseteq Users,
         NEW key \in Users, NEW row \in S
  PROVE  /\ DOMAIN Put(t, key, row) \subseteq Users
         /\ Put(t, key, row) \in [DOMAIN Put(t, key, row) -> S]
  BY DEF Put

LEMMA WritesTyped ==
  ASSUME ServiceTypeOK, NEW w \in Workers, Writes(w), req[w].at = "idle" \/ req[w].user \in Users
  PROVE  TablesTyped'
  <1> USE DEF TablesTyped
  <1>0. TablesTyped /\ HandlerOK(req[w])
    BY DEF ServiceTypeOK, HandlerOK
  <1>1. CASE users' = users /\ profiles' = profiles
    BY <1>0, <1>1
  <1>2. CASE SavesUser(w)
    <2>1. PICK row \in UserRow : users' = Put(users, req[w].user, row)
      BY <1>2 DEF SavesUser
    <2>2. req[w].user \in Users
      BY <1>0, <1>2, SavesHold DEF SavesUser
    <2>3. /\ DOMAIN Put(users, req[w].user, row) \subseteq Users
          /\ Put(users, req[w].user, row)
               \in [DOMAIN Put(users, req[w].user, row) -> UserRow]
      BY <1>0, <2>2, PutTyped
    <2>4. profiles' = profiles
      BY <1>2 DEF SavesUser
    <2> QED BY <1>0, <2>1, <2>3, <2>4
  <1>3. CASE SavesActive(w)
    <2>1. PICK active \in BOOLEAN :
            users' = [users EXCEPT ![req[w].user] = [@ EXCEPT !.is_active = active]]
      BY <1>3 DEF SavesActive
    <2>2. \A u \in DOMAIN users : [users[u] EXCEPT !.is_active = active] \in UserRow
      BY <1>0 DEF UserRow
    <2> QED BY <1>0, <1>3, <2>1, <2>2 DEF SavesActive
  <1>4. CASE SavesProfile(w)
    <2>1. PICK b \in BOOLEAN : profiles' = Put(profiles, req[w].user, b)
      BY <1>4 DEF SavesProfile
    <2>2. req[w].user \in Users /\ users' = users
      BY <1>0, <1>4 DEF SavesProfile
    <2>3. /\ DOMAIN Put(profiles, req[w].user, b) \subseteq Users
          /\ Put(profiles, req[w].user, b)
               \in [DOMAIN Put(profiles, req[w].user, b) -> BOOLEAN]
      BY <1>0, <2>2, PutTyped
    <2> QED BY <1>0, <2>1, <2>2, <2>3
  <1>5. CASE Registers(w)
    <2>1. PICK u \in unborn, row \in UserRow :
            users' = Put(users, u, row) /\ profiles' = profiles
      BY <1>5 DEF Registers
    <2>2. u \in Users
      BY DEF ServiceTypeOK
    <2>3. /\ DOMAIN Put(users, u, row) \subseteq Users
          /\ Put(users, u, row) \in [DOMAIN Put(users, u, row) -> UserRow]
      BY <1>0, <2>2, PutTyped
    <2> QED BY <1>0, <2>1, <2>3
  <1>6. CASE \E gone : DeleteUsers(gone)
    BY <1>0, <1>6 DEF DeleteUsers
  <1> QED BY <1>1, <1>2, <1>3, <1>4, <1>5, <1>6 DEF Writes

LEMMA MovesTyped ==
  ASSUME ServiceTypeOK, NEW w \in Workers, Moves(w)
  PROVE  /\ DOMAIN req' = Workers /\ \A v \in Workers : HandlerOK(req'[v])
         /\ \A v \in Workers : v /= w => req'[v] = req[v]
         /\ CopyFrom(w, req'[w]) /\ ProfileFrom(w, req'[w])
  <1>1. PICK r : /\ req' = [req EXCEPT ![w] = r]
                 /\ HandlerOK(r) /\ CopyFrom(w, r) /\ ProfileFrom(w, r)
    BY DEF Moves
  <1>2. DOMAIN req = Workers /\ \A v \in Workers : HandlerOK(req[v])
    BY DEF ServiceTypeOK, HandlerOK
  <1>3. req'[w] = r /\ \A v \in Workers : v /= w => req'[v] = req[v]
    BY <1>1, <1>2
  <1> QED BY <1>1, <1>2, <1>3

LEMMA StepTyped ==
  ASSUME ServiceTypeOK, NEW w \in Workers, StepOf(w)
  PROVE  ServiceTypeOK'
  <1>1. DOMAIN req' = Workers /\ \A v \in Workers : HandlerOK(req'[v])
    BY MovesTyped DEF StepOf
  <1>2. TablesTyped'
    BY WritesTyped, UserOfRequest DEF StepOf, ServiceTypeOK, HandlerOK
  <1>3. CountersTyped' /\ unborn' \subseteq Users
    BY DEF StepOf, ServiceTypeOK
  <1>4. \A v \in Workers : RequestOK(req'[v]) \/ UserRequestOK(req'[v])
                              \/ ChangeRequestOK(req'[v])
    BY <1>1 DEF HandlerOK
  <1> QED BY <1>1, <1>2, <1>3, <1>4 DEF TablesTyped, CountersTyped, ServiceTypeOK,
       RequestOK, UserRequestOK, ChangeRequestOK

-----------------------------------------------------------------------------
(* A key that has not been given out has no row, and no request holds one. *)
UnbornFresh ==
  \A u \in unborn :
    /\ u \notin DOMAIN users
    /\ \A w \in Workers : req[w].user = u => req[w].copy = None

ServiceInv == ServiceTypeOK /\ UnbornFresh

LEMMA ServiceStarts == ServiceInit => ServiceInv /\ ProfileOrSignal
  <1> SUFFICES ASSUME ServiceInit PROVE ServiceInv /\ ProfileOrSignal
    OBVIOUS
  <1>1. PICK registered \in SUBSET Users, complete \in SUBSET Staff, named \in NameInputs :
          /\ users = [u \in registered |->
                        [password |-> 0, is_active |-> TRUE,
                         is_test_user |-> FALSE, named |-> named]]
          /\ profiles = [u \in registered |-> u \in complete]
          /\ unborn = Users \ registered
    BY DEF ServiceInit, UserInit
  <1>2. /\ DOMAIN users \subseteq Users /\ users \in [DOMAIN users -> UserRow]
        /\ DOMAIN profiles \subseteq Users /\ profiles \in [DOMAIN profiles -> BOOLEAN]
    BY <1>1, InputsAssumption DEF UserRow
  <1>3. /\ tokens = {} /\ now = 0 /\ drawn = 0 /\ spent = {}
        /\ req = [w \in Workers |-> Idle]
    BY DEF ServiceInit, UserInit
  <1>4. UserRequestOK(Idle) /\ Idle.copy = None
    BY DEF UserRequestOK, Idle, Request, UserSteps
  <1>5. ServiceTypeOK
    BY <1>1, <1>2, <1>3, <1>4 DEF ServiceTypeOK
  <1>6. UnbornFresh
    BY <1>1, <1>3, <1>4 DEF UnbornFresh
  <1>7. ProfileOrSignal
    BY <1>1 DEF ProfileOrSignal
  <1> QED BY <1>5, <1>6, <1>7 DEF ServiceInv

(* A row appears because it was saved from an instance, or registered.     *)
LEMMA RowAppears ==
  ASSUME ServiceInv, NEW w \in Workers, StepOf(w), NEW u \in DOMAIN users',
         u \notin DOMAIN users
  PROVE  /\ req'[w].at \in SignalSteps /\ req'[w].user = u
         /\ \/ req[w].user = u /\ req[w].copy /= None
            \/ u \in unborn /\ u \notin unborn'
  <1>1. CASE SavesUser(w)
    <2>1. u = req[w].user
      BY <1>1 DEF SavesUser, Put
    <2>2. req[w].copy \in UserRow
      BY <1>1, SavesHold DEF SavesUser, ServiceInv, ServiceTypeOK, HandlerOK
    <2> QED BY <1>1, <2>1, <2>2, InstanceAssumption DEF SavesUser
  <1>2. CASE Registers(w)
    BY <1>2 DEF Registers, Put
  <1>3. CASE DOMAIN users' \subseteq DOMAIN users
    BY <1>3
  <1> QED
    BY <1>1, <1>2, <1>3
    DEF StepOf, Writes, SavesActive, SavesProfile, DeleteUsers

(* Where the instances come from that requests hold after a step.          *)
LEMMA CopiesAfter ==
  ASSUME ServiceInv, NEW w \in Workers, StepOf(w), NEW v \in Workers, NEW u,
         req'[v].user = u, req'[v].copy /= None
  PROVE  \/ req[v].user = u /\ req[v].copy = req'[v].copy
         \/ u \in DOMAIN users /\ req'[v].copy = users[u]
         \/ /\ u \in DOMAIN users /\ req'[v].at = "change_save"
            /\ \E n \in Nat : req'[v].copy = [users[u] EXCEPT !.password = n]
         \/ u \in unborn /\ u \notin unborn'
  <1>1. v /= w => req'[v] = req[v]
    BY MovesTyped DEF StepOf, ServiceInv
  <1>2. CopyFrom(w, req'[w])
    BY MovesTyped DEF StepOf, ServiceInv
  <1> QED BY <1>1, <1>2 DEF CopyFrom

LEMMA FreshStep ==
  ASSUME ServiceInv, NEW w \in Workers, StepOf(w)
  PROVE  UnbornFresh'
  <1> SUFFICES ASSUME NEW u \in unborn'
               PROVE  /\ u \notin DOMAIN users'
                      /\ \A v \in Workers : req'[v].user = u => req'[v].copy = None
    BY DEF UnbornFresh
  <1>1. u \in unborn
    BY DEF StepOf
  <1>2. u \notin DOMAIN users /\ \A v \in Workers : req[v].user = u => req[v].copy = None
    BY <1>1 DEF ServiceInv, UnbornFresh
  <1>3. u \notin DOMAIN users'
    BY <1>2, RowAppears
  <1>4. ASSUME NEW v \in Workers, req'[v].user = u PROVE req'[v].copy = None
    BY <1>2, <1>4, CopiesAfter
  <1> QED BY <1>3, <1>4

LEMMA ServiceKeeps == ServiceInv /\ [ServiceNext]_serviceVars => ServiceInv'
  <1> SUFFICES ASSUME ServiceInv, [ServiceNext]_serviceVars PROVE ServiceInv'
    OBVIOUS
  <1>1. CASE UNCHANGED serviceVars
    BY <1>1 DEF serviceVars, ServiceInv, ServiceTypeOK, UnbornFresh, RequestOK,
                UserRequestOK, ChangeRequestOK
  <1>2. CASE Ticks
    BY <1>2 DEF Ticks, CountersTyped, ServiceInv, ServiceTypeOK, UnbornFresh, RequestOK,
                UserRequestOK, ChangeRequestOK
  <1>3. ASSUME NEW w \in Workers, StepOf(w) PROVE ServiceInv'
    BY <1>3, StepTyped, FreshStep DEF ServiceInv
  <1> QED BY <1>1, <1>2, <1>3, EveryStep DEF ServiceInv

LEMMA ServiceAlways == ServiceSpec => []ServiceInv
  BY ServiceStarts, ServiceKeeps, PTL DEF ServiceSpec

(* The tables and the requests of all views are well-typed.                *)
THEOREM ServiceTypes == ServiceSpec => []ServiceTypeOK
  <1>1. ServiceInv => ServiceTypeOK
    BY DEF ServiceInv
  <1> QED BY <1>1, ServiceAlways, PTL

-----------------------------------------------------------------------------
LEMMA GoneKept ==
  ASSUME ServiceInv, NEW w \in Workers, StepOf(w), NEW u \in Users, Gone(u)
  PROVE  Gone(u)'
  <1>1. u \notin unborn'
    BY DEF Gone, StepOf
  <1>2. u \notin DOMAIN users'
    BY RowAppears DEF Gone
  <1>3. ASSUME NEW v \in Workers, req'[v].user = u PROVE req'[v].copy = None
    BY <1>3, CopiesAfter DEF Gone
  <1> QED BY <1>1, <1>2, <1>3 DEF Gone

(* Once a deleted account is in the hands of no request, it never comes    *)
(* back, with any number of workers over any number of accounts.           *)
THEOREM DeletionsAreFinal == ServiceSpec => GoneStaysGone
  <1>1. ServiceInv /\ [ServiceNext]_serviceVars
          => [\A u \in Users : Gone(u) => Gone(u)']_userVars
    <2> SUFFICES ASSUME ServiceInv, [ServiceNext]_serviceVars, NEW u \in Users, Gone(u)
                 PROVE  Gone(u)'
      OBVIOUS
    <2>1. CASE UNCHANGED serviceVars \/ Ticks
      BY <2>1 DEF serviceVars, Ticks, Gone
    <2> QED BY <2>1, EveryStep, GoneKept DEF ServiceInv
  <1> QED BY <1>1, ServiceAlways, PTL DEF ServiceSpec, GoneStaysGone

-----------------------------------------------------------------------------
(* What becomes of a row that stays: it is saved from an instance, loses   *)
(* or gets back its is_active, or is left alone.                           *)
LEMMA RowAfter ==
  ASSUME ServiceInv, NEW w \in Workers, StepOf(w), NEW u \in DOMAIN users,
         u \in DOMAIN users'
  PROVE  \/ users'[u] = users[u]
         \/ /\ req[w].user = u /\ req[w].copy /= None
            /\ users'[u].is_active = req[w].copy.is_active
            /\ req[w].at \in SaveSteps /\ req'[w].at /= req[w].at
            /\ users'[u].password = req[w].copy.password \/ At(w, "confirm_save")
         \/ /\ req[w].user = u /\ At(w, "toggle_save")
            /\ users'[u].password = users[u].password
  <1>1. CASE SavesUser(w)
    <2>1. PICK row \in UserRow :
            /\ row.is_active = req[w].copy.is_active
            /\ row.password = req[w].copy.password \/ At(w, "confirm_save")
            /\ users' = Put(users, req[w].user, row)
      BY <1>1 DEF SavesUser
    <2>2. req[w].copy /= None
      BY <1>1, SavesHold, InstanceAssumption
      DEF SavesUser, ServiceInv, ServiceTypeOK, HandlerOK
    <2>3. users'[u] = IF u = req[w].user THEN row ELSE users[u]
      BY <2>1 DEF Put
    <2> QED BY <1>1, <2>1, <2>2, <2>3 DEF SavesUser
  <1>2. CASE SavesActive(w)
    <2>1. PICK active \in BOOLEAN :
            users' = [users EXCEPT ![req[w].user] = [@ EXCEPT !.is_active = active]]
      BY <1>2 DEF SavesActive
    <2>2. users[u] \in UserRow
      BY DEF ServiceInv, ServiceTypeOK
    <2>3. users'[u] = IF u = req[w].user THEN [users[u] EXCEPT !.is_active = active]
                                        ELSE users[u]
      BY <2>1
    <2>4. [users[u] EXCEPT !.is_active = active].password = users[u].password
      BY <2>2 DEF UserRow
    <2> QED BY <1>2, <2>3, <2>4 DEF SavesActive
  <1>3. CASE Registers(w)
    BY <1>3 DEF Registers, Put, ServiceInv, UnbornFresh
  <1>4. CASE \E gone : DeleteUsers(gone)
    BY <1>4 DEF DeleteUsers
  <1> QED BY <1>1, <1>2, <1>3, <1>4 DEF StepOf, Writes, SavesProfile

LEMMA BlockKept ==
  ASSUME ServiceInv, NEW w \in Workers, StepOf(w), NEW u \in Users, Blocked(u),
         ~ Toggles(u), u \in DOMAIN users'
  PROVE  Blocked(u)'
  <1>0. u \in DOMAIN users /\ ~ users[u].is_active
    BY DEF Blocked
  <1>1. ~ users'[u].is_active
    BY <1>0, RowAfter DEF Blocked, Toggles
  <1>2. ASSUME NEW v \in Workers, req'[v].user = u, req'[v].copy /= None
        PROVE  ~ req'[v].copy.is_active
    <2>1. \A n \in Nat : [users[u] EXCEPT !.password = n].is_active = users[u].is_active
      BY <1>0 DEF ServiceInv, ServiceTypeOK, UserRow
    <2>2. u \notin unborn
      BY <1>0 DEF ServiceInv, UnbornFresh
    <2> QED BY <1>0, <1>2, <2>1, <2>2, CopiesAfter DEF Blocked
  <1> QED BY <1>1, <1>2 DEF Blocked

(* A block that no older instance contradicts is undone by an admin only,  *)
(* with any number of workers over any number of accounts.                 *)
THEOREM BlocksHold == ServiceSpec => BlockSettles
  <1>1. ServiceInv /\ [ServiceNext]_serviceVars
          => [\A u \in Users :
                Blocked(u) => Blocked(u)' \/ Toggles(u) \/ u \notin DOMAIN users']_userVars
    <2> SUFFICES ASSUME ServiceInv, [ServiceNext]_serviceVars, NEW u \in Users, Blocked(u),
                        ~ Toggles(u), u \in DOMAIN users'
                 PROVE  Blocked(u)'
      OBVIOUS
    <2>1. CASE UNCHANGED serviceVars \/ Ticks
      BY <2>1 DEF serviceVars, Ticks, Blocked
    <2> QED BY <2>1, EveryStep, BlockKept DEF ServiceInv
  <1> QED BY <1>1, ServiceAlways, PTL DEF ServiceSpec, BlockSettles

LEMMA PasswordKept ==
  ASSUME ServiceInv, NEW w \in Workers, StepOf(w), NEW u \in Users, PasswordSettled(u),
         ~ Confirms(u), ~ Changes(u), u \in DOMAIN users'
  PROVE  PasswordSettled(u)' /\ users'[u].password = users[u].password
  <1>0. u \in DOMAIN users /\ \A v \in Workers :
          req[v].user = u /\ req[v].copy /= None /\ req[v].at /= "change_save"
            => req[v].copy.password = users[u].password
    BY DEF PasswordSettled, At
  <1>1. users'[u].password = users[u].password
    BY <1>0, RowAfter DEF Confirms, Changes, Executes, At
  <1>2. ASSUME NEW v \in Workers, req'[v].user = u, req'[v].copy /= None,
               req'[v].at /= "change_save"
        PROVE  req'[v].copy.password = users'[u].password
    <2>1. u \notin unborn
      BY <1>0 DEF ServiceInv, UnbornFresh
    <2>2. CASE req[v].user = u /\ req[v].copy = req'[v].copy /\ At(v, "change_save")
      <3>1. req'[v].at /= req[v].at
        BY <1>2, <2>2 DEF At
      <3>2. req[v].user = u /\ req[v].at = "change_save" /\ req'[v].at /= "change_save"
        BY <2>2, <3>1 DEF At
      <3>3. Changes(u)
        BY <3>2 DEF Changes, Executes, At
      <3> QED BY <3>3
    <2> QED BY <1>0, <1>1, <1>2, <2>1, <2>2, CopiesAfter DEF At
  <1> QED BY <1>0, <1>1, <1>2 DEF PasswordSettled, At

(* A password that no older instance contradicts stays the same until the  *)
(* save of a confirmation or of a change, with any number of workers over  *)
(* any number of accounts, crashes and deletions included.                 *)
THEOREM PasswordsHold == ServiceSpec => PasswordSettles
  <1>1. ServiceInv /\ [ServiceNext]_serviceVars
          => [\A u \in Users :
                PasswordSettled(u) =>
                  \/ PasswordSettled(u)' /\ users'[u].password = users[u].password
                  \/ Confirms(u) \/ Changes(u)
                  \/ u \notin DOMAIN users']_serviceVars
    <2> SUFFICES ASSUME ServiceInv, [ServiceNext]_serviceVars, NEW u \in Users,
                        PasswordSettled(u), ~ Confirms(u), ~ Changes(u), u \in DOMAIN users'
                 PROVE  PasswordSettled(u)' /\ users'[u].password = users[u].password
      OBVIOUS
    <2>1. CASE UNCHANGED serviceVars \/ Ticks
      BY <2>1 DEF serviceVars, Ticks, PasswordSettled, At
    <2> QED BY <2>1, EveryStep, PasswordKept DEF ServiceInv
  <1> QED BY <1>1, ServiceAlways, PTL DEF ServiceSpec, PasswordSettles

-----------------------------------------------------------------------------
(* What becomes of a profile.                                              *)
LEMMA ProfileAfter ==
  ASSUME ServiceInv, NEW w \in Workers, StepOf(w), NEW u \in DOMAIN profiles,
         profiles[u], req[w].user = u /\ req[w].profile /= None => req[w].profile
  PROVE  (u \in DOMAIN profiles' /\ profiles'[u]) \/ u \notin DOMAIN users'
  <1>1. CASE SavesProfile(w)
    <2>1. PICK b \in BOOLEAN :
            /\ b \/ req[w].user \notin DOMAIN profiles \/ b = req[w].profile
            /\ profiles' = Put(profiles, req[w].user, b)
      BY <1>1 DEF SavesProfile
    <2>2. u \in DOMAIN profiles' /\ profiles'[u] = IF u = req[w].user THEN b ELSE profiles[u]
      BY <2>1 DEF Put
    <2>3. u = req[w].user => b
      BY <2>1, InstanceAssumption
    <2> QED BY <2>2, <2>3
  <1>2. CASE profiles' = profiles
    BY <1>2
  <1>3. CASE \E gone : DeleteUsers(gone)
    BY <1>3 DEF DeleteUsers
  <1> QED
    BY <1>1, <1>2, <1>3 DEF StepOf, Writes, SavesUser, SavesActive, Registers

LEMMA CompletionKept ==
  ASSUME ServiceInv, NEW w \in Workers, StepOf(w), NEW u \in Users, Completed(u),
         u \in DOMAIN users'
  PROVE  Completed(u)'
  <1>1. u \in DOMAIN profiles' /\ profiles'[u]
    BY ProfileAfter DEF Completed
  <1>2. ASSUME NEW v \in Workers, req'[v].user = u, req'[v].profile /= None
        PROVE  req'[v].profile
    <2>1. CASE v /= w
      <3>1. req'[v] = req[v]
        BY <2>1, MovesTyped DEF StepOf, ServiceInv
      <3> QED BY <1>2, <3>1 DEF Completed
    <2>2. CASE v = w
      <3>1. ProfileFrom(w, req'[w])
        BY MovesTyped DEF StepOf, ServiceInv
      <3> QED BY <1>2, <2>2, <3>1 DEF ProfileFrom, Completed
    <2> QED BY <2>1, <2>2
  <1> QED BY <1>1, <1>2 DEF Completed

(* A completed registration that no older profile contradicts lasts as     *)
(* long as the account, with any number of workers and accounts.           *)
THEOREM CompletionsHold == ServiceSpec => CompletionSettles
  <1>1. ServiceInv /\ [ServiceNext]_serviceVars
          => [\A u \in Users : Completed(u) => Completed(u)' \/ u \notin DOMAIN users']_userVars
    <2> SUFFICES ASSUME ServiceInv, [ServiceNext]_serviceVars, NEW u \in Users, Completed(u),
                        u \in DOMAIN users'
                 PROVE  Completed(u)'
      OBVIOUS
    <2>1. CASE UNCHANGED serviceVars \/ Ticks
      BY <2>1 DEF serviceVars, Ticks, Completed
    <2> QED BY <2>1, EveryStep, CompletionKept DEF ServiceInv
  <1> QED BY <1>1, ServiceAlways, PTL DEF ServiceSpec, CompletionSettles

-----------------------------------------------------------------------------
LEMMA ReceiverSteps == DOMAIN AfterSignal = SignalSteps
  BY DEF AfterSignal, SignalSteps

(* Profiles go with their users only.                                      *)
LEMMA ProfileLost ==
  ASSUME NEW w \in Workers, StepOf(w), NEW u \in DOMAIN profiles, u \in DOMAIN users'
  PROVE  u \in DOMAIN profiles'
  BY DEF StepOf, Writes, SavesUser, SavesActive, SavesProfile, Registers, DeleteUsers, Put

LEMMA ProfilesKept ==
  ASSUME ServiceInv, ProfileOrSignal, NEW w \in Workers, StepOf(w)
  PROVE  ProfileOrSignal'
  <1> USE ReceiverSteps
  <1> SUFFICES ASSUME ~ Crashes, NEW u \in DOMAIN users', u \notin DOMAIN profiles'
               PROVE  \E v \in Workers : req'[v].user = u /\ req'[v].at \in SignalSteps
    BY DEF ProfileOrSignal
  <1>1. CASE u \notin DOMAIN users
    BY <1>1, RowAppears
  <1>2. CASE u \in DOMAIN users
    <2>1. u \notin DOMAIN profiles
      BY ProfileLost
    <2>2. PICK v \in Workers : req[v].user = u /\ req[v].at \in SignalSteps
      BY <1>2, <2>1 DEF ProfileOrSignal
    <2>3. v /= w
      BY <2>2 DEF StepOf, SignalDone
    <2>4. req'[v] = req[v]
      BY <2>3, MovesTyped DEF StepOf, ServiceInv
    <2> QED BY <2>2, <2>4
  <1> QED BY <1>1, <1>2

(* With any number of workers and accounts, and none of the workers        *)
(* killed, every user has a profile or is about to get one.                *)
THEOREM ProfilesFollow == ServiceSpec => []ProfileOrSignal
  <1>1. ServiceInv /\ ProfileOrSignal /\ [ServiceNext]_serviceVars => ProfileOrSignal'
    <2> SUFFICES ASSUME ServiceInv, ProfileOrSignal, [ServiceNext]_serviceVars
                 PROVE  ProfileOrSignal'
      OBVIOUS
    <2>1. CASE UNCHANGED serviceVars \/ Ticks
      BY <2>1 DEF serviceVars, Ticks, ProfileOrSignal
    <2> QED BY <2>1, EveryStep, ProfilesKept DEF ServiceInv
  <1> QED BY <1>1, ServiceStarts, ServiceAlways, PTL DEF ServiceSpec

-----------------------------------------------------------------------------
(* One worker: requests are served one after the other.                    *)
OneWorker == \A v, w \in Workers : v = w

(* Users have their tokens and profiles, and at most one token each.       *)
Tidy ==
  /\ DOMAIN profiles \subseteq DOMAIN users
  /\ \A r \in tokens : r.user \in DOMAIN users
  /\ \A r, s \in tokens : r.user = s.user => r = s

(* A request holds what the tables still have: its instance of the user is *)
(* the row, apart from the names and from the password it is about to set  *)
(* or has set; ...                                                         *)
Agrees(w) ==
  req[w].copy /= None =>
    /\ req[w].user \in DOMAIN users
    /\ req[w].copy.is_active = users[req[w].user].is_active
    /\ req[w].copy.is_test_user = users[req[w].user].is_test_user
    /\ \/ req[w].copy.password = users[req[w].user].password
       \/ req[w].at \in {"change_save", "confirm_delete"}

(* ... its token is in the table, its profile is the row, and no save has  *)
(* inserted a user who had been deleted.                                   *)
Stands(w) ==
  /\ Agrees(w)
  /\ req[w].at \notin SignalSteps \ {"register_signal"}
  /\ req[w].at = "request_create" => TokensOf(req[w].user) = {}
  /\ req[w].at \in {"request_delete", "confirm_save", "confirm_delete"} =>
       req[w].token \in tokens
  /\ req[w].at \in NestedSteps =>
       req[w].user \in DOMAIN profiles /\ req[w].profile = profiles[req[w].user]
  /\ req[w].at = "change_save" => ~ ByEmail

SerialInv == ServiceInv /\ Tidy /\ \A w \in Workers : Stands(w)

(* What a statement then does to the tables: nothing, ...                  *)
Quiet == UNCHANGED <<users, profiles, tokens, drawn, unborn>>

(* ... it saves a user as it was, apart from the names, the flag of a      *)
(* registration and the password that is to be set, ...                    *)
Saves(w, password) ==
  LET u == req[w].user IN
  /\ u \in DOMAIN users
  /\ \E row \in UserRow :
       /\ row.password = password /\ row.is_active = users[u].is_active
       /\ row.is_test_user = users[u].is_test_user \/ At(w, "register_flag")
       /\ users' = [users EXCEPT ![u] = row]
  /\ UNCHANGED <<profiles, tokens, drawn, unborn>>

Redeems(w) ==
  /\ At(w, "confirm_save") /\ req[w].token \in tokens /\ req[w].token.user = req[w].user
  /\ req'[w].at /= "confirm_save"
  /\ Saves(w, req[w].token.pk)

(* ... it completes a profile, or inserts one, ...                         *)
Profiles(w, complete) ==
  /\ req[w].user \in DOMAIN users
  /\ complete \/ req[w].user \notin DOMAIN profiles
  /\ profiles' = Put(profiles, req[w].user, complete)
  /\ UNCHANGED <<users, tokens, drawn, unborn>>

(* ... it withdraws the token of a user who has one, or issues one, ...    *)
Withdraws(w) ==
  /\ req[w].token \in tokens
  /\ tokens' = tokens \ {req[w].token}
  /\ UNCHANGED <<users, profiles, drawn, unborn>>

Issues(w) ==
  /\ req[w].user \in DOMAIN users /\ TokensOf(req[w].user) = {}
  /\ \E t \in TokenRow :
       /\ t.user = req[w].user /\ t.pk = drawn + 1
       /\ tokens' = tokens \cup {t}
  /\ drawn' = drawn + 1
  /\ UNCHANGED <<users, profiles, unborn>>

(* ... it blocks a user, deletes one, deletes test users, ...              *)
Blocks(w) == SavesActive(w) /\ req[w].user \in DOMAIN users /\ UNCHANGED <<tokens, drawn, unborn>>

Deletes(w) ==
  /\ \E gone \in SUBSET DOMAIN users :
       /\ DeleteUsers(gone)
       /\ \/ At(w, "destroy") /\ gone = {req[w].user}
          \/ \A u \in gone : users[u].is_test_user
  /\ UNCHANGED <<drawn, unborn>>

(* ... or registers one; a change of password alone draws a number first.  *)
Joins ==
  \E u \in unborn, row \in UserRow :
    /\ row.password = 0 /\ row.is_active /\ ~ row.is_test_user
    /\ users' = Put(users, u, row) /\ unborn' = unborn \ {u}
    /\ UNCHANGED <<profiles, tokens, drawn>>

ChangesPassword(w) ==
  /\ ~ ByEmail
  /\ \/ drawn' = drawn + 1 /\ UNCHANGED <<users, profiles, tokens, unborn>>
     \/ \E n \in Nat : Saves(w, n)

SerialStep(w) ==
  \/ Quiet \/ (\E p \in {users[req[w].user].password} : Saves(w, p))
  \/ Redeems(w) \/ (\E b \in BOOLEAN : Profiles(w, b))
  \/ Withdraws(w) \/ Issues(w) \/ Blocks(w) \/ Deletes(w) \/ Joins \/ ChangesPassword(w)

(* Every statement is one of these.                                        *)
LEMMA SerialHandler ==
  ASSUME SerialInv, NEW w \in Workers
  PROVE  ServiceTypeOK /\ HandlerOK(req[w]) /\ Stands(w) /\ Agrees(w)
  BY DEF SerialInv, ServiceInv, ServiceTypeOK, HandlerOK, Stands

LEMMA SerialCopy ==
  ASSUME SerialInv, NEW w \in Workers,
         req[w].at \in SaveSteps \cup (UserSteps \ LoadSteps)
  PROVE  /\ req[w].copy \in UserRow /\ req[w].user \in DOMAIN users
         /\ users[req[w].user] \in UserRow
         /\ req[w].copy.is_active = users[req[w].user].is_active
         /\ req[w].copy.is_test_user = users[req[w].user].is_test_user
         /\ \/ req[w].copy.password = users[req[w].user].password
            \/ req[w].at = "change_save"
  <1>1. HandlerOK(req[w]) /\ Agrees(w) /\ ServiceTypeOK
    BY SerialHandler
  <1>2. req[w].copy \in UserRow
    <2>1. CASE req[w].at \in SaveSteps
      BY <1>1, <2>1, SavesHold
    <2>2. CASE req[w].at \in UserSteps \ LoadSteps
      BY <1>1, <2>2, HandlerKinds DEF UserRequestOK, LoadSteps
    <2> QED BY <2>1, <2>2
  <1>3. req[w].copy /= None
    BY <1>2, InstanceAssumption
  <1> QED
    BY <1>1, <1>2, <1>3 DEF Agrees, ServiceTypeOK, SaveSteps, UserSteps, LoadSteps

LEMMA SerialSave ==
  ASSUME SerialInv, NEW w \in Workers, NEW row \in UserRow, NEW next,
         SaveUser(w, row, next), req[w].user \in DOMAIN users,
         row.is_active = users[req[w].user].is_active,
         row.is_test_user = users[req[w].user].is_test_user \/ At(w, "register_flag"),
         UNCHANGED <<drawn, unborn>>
  PROVE  Saves(w, row.password)
  BY DEF SaveUser, Saves

LEMMA SerialRecovery ==
  ASSUME SerialInv, NEW w \in Workers, UNCHANGED unborn,
         RequestToken(w) \/ CheckToken(w) \/ ConfirmUser(w) \/ RecoveryStep(w)
  PROVE  SerialStep(w)
  <1> USE DEF At
  <1>0. HandlerOK(req[w]) /\ Stands(w) /\ ServiceTypeOK
    BY SerialHandler
  <1>r. req[w].at \in RequestSteps \cup ConfirmSteps => RequestOK(req[w])
    BY <1>0, HandlerKinds
  <1>1. CASE UNCHANGED <<tables, recoveryVars>>
    BY <1>1 DEF tables, recoveryVars, Quiet, SerialStep
  <1>2. CASE RequestDelete(w) \/ ConfirmDelete(w)
    BY <1>0, <1>2 DEF RequestDelete, ConfirmDelete, recoveryVars, Stands, Withdraws,
                      SerialStep
  <1>3. CASE RequestCreate(w)
    <2> DEFINE t == [pk |-> drawn + 1, user |-> req[w].user, created_at |-> now,
                     maker |-> w]
    <2>1. CASE UNCHANGED <<tokens, drawn>>
      BY <1>3, <2>1 DEF RequestCreate, Quiet, SerialStep
    <2>2. CASE /\ req[w].user \in DOMAIN users
               /\ tokens' = tokens \cup {t} /\ drawn' = drawn + 1
      <3>1. req[w].user \in Users
        BY <1>0, <2>2 DEF ServiceTypeOK
      <3>2. t \in TokenRow /\ t.user = req[w].user /\ t.pk = drawn + 1
        BY <1>0, <3>1 DEF ServiceTypeOK, TokenRow
      <3>3. TokensOf(req[w].user) = {}
        BY <1>0, <1>3 DEF RequestCreate, Stands
      <3> HIDE DEF t
      <3> QED BY <1>3, <2>2, <3>2, <3>3 DEF RequestCreate, Issues, SerialStep
    <2> QED BY <1>3, <2>1, <2>2 DEF RequestCreate
  <1>4. CASE ConfirmSave(w)
    <2>1. RequestOK(req[w]) /\ req[w].at = "confirm_save"
      BY <1>4, <1>r DEF ConfirmSave, ConfirmSteps
    <2>2. /\ req[w].copy \in UserRow /\ req[w].token.pk \in Nat
          /\ req[w].token.user = req[w].user /\ req[w].token \in tokens
      BY <1>0, <2>1 DEF RequestOK, ConfirmSteps, TokenHeld, TokenRow, Stands
    <2> DEFINE row == [req[w].copy EXCEPT !.password = req[w].token.pk]
    <2>3. /\ row \in UserRow /\ row.password = req[w].token.pk
          /\ row.is_active = req[w].copy.is_active
          /\ row.is_test_user = req[w].copy.is_test_user
      BY <2>2 DEF UserRow
    <2>4. SaveUser(w, row, "confirm_delete") /\ UNCHANGED drawn
      BY <1>4 DEF ConfirmSave
    <2> HIDE DEF row
    <2>5. Saves(w, req[w].token.pk)
      BY <2>1, <2>3, <2>4, SerialSave, SerialCopy DEF SaveSteps
    <2>6. SavesUser(w)
      BY <1>0, <2>1, <2>2, <2>3, <2>4, SaveWrites DEF SaveSteps, At
    <2> QED BY <2>1, <2>2, <2>5, <2>6 DEF Redeems, SerialStep, SavesUser, At
  <1>5. CASE ConfirmSignal(w)
    BY <1>0, <1>5 DEF ConfirmSignal, Stands, SignalSteps
  <1> QED
    BY <1>1, <1>2, <1>3, <1>4, <1>5
    DEF RequestToken, CheckToken, ConfirmUser, RecoveryStep, RequestExists,
        RequestGet, RequestMail, ConfirmToken

LEMMA SerialChange ==
  ASSUME SerialInv, NEW w \in Workers, UNCHANGED unborn,
         ChangePassword(w) \/ ChangeStep(w)
  PROVE  SerialStep(w)
  <1> USE DEF At
  <1>0. HandlerOK(req[w]) /\ Stands(w) /\ ServiceTypeOK
    BY SerialHandler
  <1>1. CASE ChangePassword(w)
    BY <1>1 DEF ChangePassword, tables, Quiet, ChangesPassword, SerialStep
  <1>2. CASE ChangeSave(w)
    <2>1. /\ req[w].at = "change_save" /\ SaveUser(w, req[w].copy, "idle")
          /\ UNCHANGED drawn
      BY <1>2 DEF ChangeSave, recoveryVars
    <2>2. req[w].copy \in UserRow /\ Saves(w, req[w].copy.password)
      BY <2>1, SerialSave, SerialCopy DEF SaveSteps
    <2>3. req[w].copy.password \in Nat
      BY <2>2 DEF UserRow
    <2> QED BY <1>0, <2>1, <2>2, <2>3 DEF Stands, ChangesPassword, SerialStep
  <1>3. CASE ChangeSignal(w)
    BY <1>0, <1>3 DEF ChangeSignal, Stands, SignalSteps
  <1> QED BY <1>1, <1>2, <1>3 DEF ChangeStep

LEMMA SerialProfile ==
  ASSUME SerialInv, NEW w \in Workers, req[w].user \in DOMAIN users,
         UNCHANGED <<users, tokens, drawn, unborn>>,
         \/ profiles' = profiles
         \/ profiles' = Put(profiles, req[w].user, TRUE)
         \/ /\ req[w].user \notin DOMAIN profiles
            /\ profiles' = Put(profiles, req[w].user, FALSE)
         \/ /\ req[w].user \in DOMAIN profiles
            /\ profiles' = Put(profiles, req[w].user, profiles[req[w].user])
  PROVE  SerialStep(w)
  <1>1. CASE /\ req[w].user \in DOMAIN profiles
             /\ profiles' = Put(profiles, req[w].user, profiles[req[w].user])
    <2>1. DOMAIN profiles \cup {req[w].user} = DOMAIN profiles
      BY <1>1
    <2>2. profiles \in [DOMAIN profiles -> BOOLEAN]
      BY DEF SerialInv, ServiceInv, ServiceTypeOK
    <2>3. profiles' = profiles
      BY <1>1, <2>1, <2>2 DEF Put
    <2> QED BY <2>3 DEF Quiet, SerialStep
  <1>2. CASE profiles' = profiles
    BY <1>2 DEF Quiet, SerialStep
  <1>3. ASSUME NEW b \in BOOLEAN, b \/ req[w].user \notin DOMAIN profiles,
               profiles' = Put(profiles, req[w].user, b)
        PROVE  SerialStep(w)
    BY <1>3 DEF Profiles, SerialStep
  <1> QED BY <1>1, <1>2, <1>3

LEMMA SerialUserStart ==
  ASSUME SerialInv, NEW w \in Workers, UNCHANGED recoveryVars, UserStart(w)
  PROVE  SerialStep(w)
  <1>1. CASE UNCHANGED <<tables, unborn>>
    BY <1>1 DEF tables, recoveryVars, Quiet, SerialStep
  <1>2. CASE DeleteTestUsers(w)
    BY <1>2 DEF DeleteTestUsers, Deletes, recoveryVars, SerialStep
  <1>3. CASE Register(w)
    <2> DEFINE row == [password |-> 0, is_active |-> TRUE,
                       is_test_user |-> FALSE, named |-> FALSE]
    <2>1. PICK u \in unborn :
            /\ users' = Put(users, u, row) /\ unborn' = unborn \ {u}
            /\ UNCHANGED <<profiles, tokens>>
      BY <1>3 DEF Register, Put
    <2>2. row \in UserRow /\ row.password = 0 /\ row.is_active /\ ~ row.is_test_user
      BY DEF UserRow
    <2> HIDE DEF row
    <2> QED BY <2>1, <2>2 DEF recoveryVars, Joins, SerialStep
  <1> QED
    BY <1>1, <1>2, <1>3 DEF UserStart, Refuse, UpdateUser, UserDetails, CompleteRegister,
                            AdminRequest

LEMMA SerialUserStep ==
  ASSUME SerialInv, NEW w \in Workers, UNCHANGED recoveryVars, UserStep(w)
  PROVE  SerialStep(w)
  <1> USE DEF At
  <1>0. HandlerOK(req[w]) /\ Stands(w) /\ ServiceTypeOK
    BY SerialHandler
  <1>d. UNCHANGED drawn
    BY DEF recoveryVars
  <1>c. req[w].at \in UserSteps \ LoadSteps => req[w].user \in DOMAIN users
    BY SerialCopy
  <1>1. CASE UNCHANGED <<tables, unborn>>
    BY <1>d, <1>1 DEF tables, Quiet, SerialStep
  <1>2. CASE UpdateSave(w) \/ CompleteSave(w) \/ RegisterFlag(w)
    <2>1. PICK row \in UserRow, next \in {"update_profile", "complete_profile", "idle"} :
            \/ UNCHANGED tables
            \/ /\ SaveUser(w, row, next)
               /\ row.password = req[w].copy.password
               /\ row.is_active = req[w].copy.is_active
               /\ row.is_test_user = req[w].copy.is_test_user \/ At(w, "register_flag")
      <3>1. req[w].copy \in UserRow
        BY <1>2, SerialCopy DEF UpdateSave, CompleteSave, RegisterFlag, SaveSteps
      <3>2. ASSUME NEW b \in BOOLEAN
            PROVE  /\ [req[w].copy EXCEPT !.named = b] \in UserRow
                   /\ [req[w].copy EXCEPT !.named = b].is_active = req[w].copy.is_active
                   /\ [req[w].copy EXCEPT !.named = b].is_test_user
                        = req[w].copy.is_test_user
                   /\ [req[w].copy EXCEPT !.named = b].password = req[w].copy.password
                   /\ [req[w].copy EXCEPT !.is_test_user = b] \in UserRow
                   /\ [req[w].copy EXCEPT !.is_test_user = b].is_active
                        = req[w].copy.is_active
                   /\ [req[w].copy EXCEPT !.is_test_user = b].password
                        = req[w].copy.password
        BY <3>1 DEF UserRow
      <3>3. req[w].copy.named \in BOOLEAN /\ NameInputs \subseteq BOOLEAN
        BY <3>1, InputsAssumption DEF UserRow
      <3>4. CASE UpdateSave(w)
        <4>1. UNCHANGED tables \/ \E named \in BOOLEAN :
                 SaveUser(w, [req[w].copy EXCEPT !.named = named], "update_profile")
          BY <3>3, <3>4 DEF UpdateSave
        <4> QED BY <3>1, <3>2, <4>1
      <3>5. CASE CompleteSave(w)
        <4>1. UNCHANGED tables \/ \E named \in BOOLEAN :
                 SaveUser(w, [req[w].copy EXCEPT !.named = named], "complete_profile")
          BY <3>3, <3>5 DEF CompleteSave
        <4> QED BY <3>1, <3>2, <4>1
      <3>6. CASE RegisterFlag(w)
        <4>1. \E test \in BOOLEAN :
                 SaveUser(w, [req[w].copy EXCEPT !.is_test_user = test], "idle")
          BY <3>6 DEF RegisterFlag
        <4>2. At(w, "register_flag")
          BY <3>6 DEF RegisterFlag
        <4> QED BY <3>2, <4>1, <4>2
      <3> QED BY <1>2, <3>4, <3>5, <3>6
    <2>2. req[w].at \in SaveSteps \ {"change_save"} /\ UNCHANGED unborn
      BY <1>2 DEF UpdateSave, CompleteSave, RegisterFlag, SaveSteps
    <2>3. CASE UNCHANGED tables
      BY <1>1, <2>2, <2>3
    <2>4. CASE SaveUser(w, row, next) /\ ~ UNCHANGED tables
      <3>1. Saves(w, row.password)
        BY <1>d, <2>1, <2>2, <2>4, SerialSave, SerialCopy
      <3>2. row.password = users[req[w].user].password
        BY <2>1, <2>2, <2>4, SerialCopy
      <3> QED BY <3>1, <3>2 DEF SerialStep
    <2> QED BY <2>1, <2>3, <2>4
  <1>3. CASE UpdateProfile(w) \/ CompleteProfile(w)
    <2>1. UNCHANGED <<users, tokens, unborn>> /\ req[w].at \in UserSteps \ LoadSteps
      BY <1>3 DEF UpdateProfile, CompleteProfile, NestedRead, UserSteps, LoadSteps
    <2>2. \/ profiles' = profiles
          \/ /\ req[w].user \notin DOMAIN profiles
             /\ profiles' = Put(profiles, req[w].user, FALSE)
      BY <1>3 DEF UpdateProfile, CompleteProfile, NestedRead, Put
    <2> QED BY <1>c, <1>d, <2>1, <2>2, SerialProfile
  <1>4. CASE UpdateNested(w) \/ CompleteNested(w) \/ CompleteWrite(w)
    <2>1. UNCHANGED <<users, tokens, unborn>> /\ req[w].at \in UserSteps \ LoadSteps
      BY <1>4 DEF UpdateNested, CompleteNested, CompleteWrite, ProfileSave, UserSteps,
                  LoadSteps
    <2>2. req[w].at \in NestedSteps =>
            req[w].user \in DOMAIN profiles /\ req[w].profile = profiles[req[w].user]
      BY <1>0 DEF Stands
    <2>3. \/ profiles' = profiles
          \/ profiles' = Put(profiles, req[w].user, TRUE)
          \/ /\ req[w].user \in DOMAIN profiles
             /\ profiles' = Put(profiles, req[w].user, profiles[req[w].user])
      BY <1>4, <2>2 DEF UpdateNested, CompleteNested, CompleteWrite, ProfileSave, Put,
                        NestedSteps
    <2> QED BY <1>c, <1>d, <2>1, <2>3, SerialProfile
  <1>5. CASE UserSignal(w)
    <2>1. UNCHANGED <<users, tokens, unborn>> /\ req[w].at = "register_signal"
      BY <1>0, <1>5 DEF UserSignal, CreateProfile, Stands, SignalSteps
    <2>2. \/ profiles' = profiles
          \/ /\ req[w].user \notin DOMAIN profiles
             /\ profiles' = Put(profiles, req[w].user, FALSE)
      BY <1>5 DEF UserSignal, CreateProfile, Put
    <2> QED BY <1>c, <1>d, <2>1, <2>2, SerialProfile DEF UserSteps, LoadSteps
  <1>6. CASE ToggleSave(w)
    <2>1. CASE UNCHANGED users
      BY <1>1, <1>6, <2>1 DEF ToggleSave, tables
    <2>2. CASE ~ UNCHANGED users
      BY <1>d, <1>6, <2>2 DEF ToggleSave, SavesActive, Blocks, SerialStep
    <2> QED BY <2>1, <2>2
  <1>7. CASE Destroy(w)
    <2>1. req[w].user \in DOMAIN users
      BY <1>c, <1>7 DEF Destroy, UserSteps, LoadSteps
    <2> QED BY <1>d, <1>7, <2>1 DEF Destroy, Deletes, SerialStep
  <1> QED
    BY <1>1, <1>2, <1>3, <1>4, <1>5, <1>6, <1>7
    DEF UserStep, UpdateLoad, ToggleLoad, DestroyLoad, Load, CompleteCheck, CompleteFetch

LEMMA SerialSteps ==
  ASSUME SerialInv, ServiceNext
  PROVE  Quiet \/ \E w \in Workers : SerialStep(w)
  <1>1. CASE Tick /\ UNCHANGED unborn
    BY <1>1 DEF Tick, accountVars, Quiet
  <1>2. ASSUME NEW w \in Workers, UserCrash(w), UNCHANGED recoveryVars
        PROVE  Quiet
    BY <1>2 DEF UserCrash, Crash, tables, recoveryVars, Quiet
  <1> QED
    BY <1>1, <1>2, SerialRecovery, SerialChange, SerialUserStart, SerialUserStep
    DEF ServiceNext, UserNext

-----------------------------------------------------------------------------
(* Tables stay tidy.                                                       *)
LEMMA SerialTables ==
  ASSUME SerialInv, NEW w \in Workers, SerialStep(w)
  PROVE  Tidy'
  <1> USE DEF Tidy
  <1>0. Tidy /\ UnbornFresh /\ ServiceTypeOK
    BY DEF SerialInv, ServiceInv
  <1>1. CASE Quiet
    BY <1>0, <1>1 DEF Quiet
  <1>2. ASSUME NEW p, Saves(w, p) PROVE Tidy'
    BY <1>0, <1>2 DEF Saves
  <1>3. ASSUME NEW b \in BOOLEAN, Profiles(w, b) PROVE Tidy'
    BY <1>0, <1>3 DEF Profiles, Put
  <1>4. CASE Withdraws(w)
    BY <1>0, <1>4 DEF Withdraws
  <1>5. CASE Issues(w)
    BY <1>0, <1>5 DEF Issues, TokensOf
  <1>6. CASE Blocks(w)
    BY <1>0, <1>6 DEF Blocks, SavesActive
  <1>7. CASE Deletes(w)
    BY <1>0, <1>7 DEF Deletes, DeleteUsers
  <1>8. CASE Joins
    BY <1>0, <1>8 DEF Joins, Put
  <1>9. CASE Redeems(w) \/ ChangesPassword(w)
    <2>1. CASE UNCHANGED <<users, profiles, tokens>>
      BY <1>0, <2>1
    <2> QED BY <1>2, <1>9, <2>1 DEF Redeems, ChangesPassword
  <1> QED
    BY <1>1, <1>2, <1>3, <1>4, <1>5, <1>6, <1>7, <1>8, <1>9 DEF SerialStep

(* What a request stands on afterwards: the request of worker w is r.      *)
LEMMA AnswerStands ==
  ASSUME ServiceTypeOK, NEW w \in Workers, NEW x, Answer(w, x)
  PROVE  Stands(w)'
  <1>1. req'[w] = Idle
    BY DEF Answer, ServiceTypeOK
  <1> QED
    BY <1>1 DEF Stands, Agrees, Idle, Request, SignalSteps, NestedSteps

(* A request that goes on to a statement that stands on nothing but the    *)
(* instance it has, which still agrees with the row.                       *)
Footed == {"request_delete", "confirm_save", "confirm_delete", "request_create",
           "change_save"} \cup NestedSteps \cup (SignalSteps \ {"register_signal"})

LEMMA GotoStands ==
  ASSUME SerialInv, NEW w \in Workers, NEW at, Goto(w, at), at \notin Footed,
         req[w].at \notin {"change_save", "confirm_delete"},
         req[w].copy /= None =>
           /\ req[w].user \in DOMAIN users'
           /\ users'[req[w].user].is_active = req[w].copy.is_active
           /\ users'[req[w].user].is_test_user = req[w].copy.is_test_user
           /\ users'[req[w].user].password = req[w].copy.password
  PROVE  Stands(w)'
  <1>1. HandlerOK(req[w]) /\ w \in DOMAIN req
    BY SerialHandler DEF ServiceTypeOK
  <1>2. /\ req'[w].at = at /\ req'[w].user = req[w].user /\ req'[w].copy = req[w].copy
    BY <1>1 DEF Goto, HandlerOK, RequestOK, UserRequestOK, ChangeRequestOK
  <1> QED BY <1>2 DEF Stands, Agrees, Footed

LEMMA BeginStands ==
  ASSUME SerialInv, NEW w \in Workers, NEW at, NEW u, NEW c,
         req' = [req EXCEPT ![w] = Request(at, u, c)],
         at \notin Footed, UNCHANGED users,
         c = None \/ (u \in DOMAIN users /\ c = users[u])
  PROVE  Stands(w)'
  <1>1. req'[w] = Request(at, u, c)
    BY SerialHandler DEF ServiceTypeOK
  <1> QED BY <1>1 DEF Request, Stands, Agrees, Footed

LEMMA HoldingStands ==
  ASSUME SerialInv, NEW w \in Workers, NEW at, NEW t, GotoHolding(w, at, t),
         req[w].at \notin {"change_save", "confirm_delete"}, UNCHANGED users,
         at \notin NestedSteps \cup SignalSteps \cup {"change_save"},
         at = "request_create" => \A r \in tokens' : r.user /= req[w].user,
         at \in {"request_delete", "confirm_save", "confirm_delete"} => t \in tokens'
  PROVE  Stands(w)'
  <1> DEFINE r == [at |-> at, user |-> req[w].user, copy |-> req[w].copy,
                   token |-> t, profile |-> req[w].profile]
  <1>1. req'[w] = r
    BY SerialHandler DEF ServiceTypeOK, GotoHolding
  <1>2. Agrees(w)
    BY SerialHandler
  <1>3. Agrees(w)'
    BY <1>1, <1>2 DEF Agrees
  <1>4. at = "request_create" => {s \in tokens' : s.user = req'[w].user} = {}
    BY <1>1
  <1>5. /\ r.at = at /\ r.token = t /\ r.user = req[w].user
    OBVIOUS
  <1> HIDE DEF r
  <1> QED BY <1>1, <1>3, <1>4, <1>5 DEF Stands, TokensOf

LEMMA RecoveryStands ==
  ASSUME SerialInv, NEW w \in Workers,
         RequestToken(w) \/ CheckToken(w) \/ ConfirmUser(w) \/ RecoveryStep(w)
  PROVE  Stands(w)'
  <1> USE DEF At
  <1>0. HandlerOK(req[w]) /\ Stands(w) /\ Agrees(w) /\ ServiceTypeOK
    BY SerialHandler
  <1>r. req[w].at \in RequestSteps \cup ConfirmSteps => RequestOK(req[w])
    BY <1>0, HandlerKinds
  <1>a. ASSUME NEW x, Answer(w, x) PROVE Stands(w)'
    BY <1>0, <1>a, AnswerStands
  <1>1. CASE RequestToken(w) \/ ConfirmUser(w)
    BY <1>a, <1>1, BeginStands
    DEF RequestToken, ConfirmUser, Begin, tables, Footed, SignalSteps, NestedSteps
  <1>2. CASE RequestExists(w)
    <2>1. CASE Goto(w, "request_get")
      BY <1>0, <1>2, <2>1, GotoStands
      DEF RequestExists, tables, Agrees, Footed, SignalSteps, NestedSteps
    <2>2. CASE Goto(w, "request_create") /\ TokensOf(req[w].user) = {}
      <3>1. /\ req'[w].at = "request_create" /\ req'[w].user = req[w].user
            /\ req'[w].copy = req[w].copy
        BY <1>0, <2>2 DEF Goto, HandlerOK, RequestOK, UserRequestOK, ChangeRequestOK,
                          ServiceTypeOK
      <3>2. UNCHANGED <<users, tokens>> /\ req[w].at = "request_exists"
        BY <1>2 DEF RequestExists, tables
      <3> QED
        BY <1>0, <2>2, <3>1, <3>2 DEF Stands, Agrees, TokensOf, SignalSteps, NestedSteps
    <2> QED BY <1>2, <2>1, <2>2 DEF RequestExists
  <1>3. CASE RequestGet(w)
    BY <1>a, <1>3, HoldingStands
    DEF RequestGet, tables, TokensOf, SignalSteps, NestedSteps
  <1>4. CASE RequestDelete(w)
    <2>1. RequestOK(req[w])
      BY <1>4, <1>r DEF RequestDelete, RequestSteps
    <2>2. req[w].token \in tokens /\ req[w].token.user = req[w].user
      BY <1>0, <1>4, <2>1 DEF RequestDelete, Stands, RequestOK, TokenHeld
    <2>3. \A r \in tokens' : r.user /= req[w].user
      <3>1. tokens' = tokens \ {req[w].token}
        BY <1>4 DEF RequestDelete
      <3> QED BY <2>2, <3>1 DEF SerialInv, Tidy
    <2>4. GotoHolding(w, "request_create", None) /\ UNCHANGED users
      BY <1>4 DEF RequestDelete
    <2> QED BY <1>4, <2>3, <2>4, HoldingStands DEF RequestDelete, SignalSteps, NestedSteps
  <1>5. CASE RequestCreate(w)
    BY <1>a, <1>5, HoldingStands DEF RequestCreate, SignalSteps, NestedSteps
  <1>6. CASE RequestMail(w) \/ ConfirmDelete(w) \/ CheckToken(w)
    BY <1>a, <1>6 DEF RequestMail, ConfirmDelete, CheckToken
  <1>7. CASE ConfirmToken(w)
    BY <1>a, <1>7, HoldingStands DEF ConfirmToken, tables, SignalSteps, NestedSteps
  <1>8. CASE ConfirmSave(w)
    <2>1. RequestOK(req[w]) /\ req[w].at = "confirm_save" /\ req[w].token \in tokens
      BY <1>0, <1>8, <1>r DEF ConfirmSave, ConfirmSteps, Stands
    <2>2. /\ req[w].copy \in UserRow /\ req[w].token.pk \in Nat
          /\ req[w].user \in DOMAIN users
      BY <2>1, SerialCopy DEF RequestOK, ConfirmSteps, TokenHeld, TokenRow, SaveSteps
    <2> DEFINE row == [req[w].copy EXCEPT !.password = req[w].token.pk]
    <2>3. row.is_active = req[w].copy.is_active /\ row.is_test_user = req[w].copy.is_test_user
      BY <2>2 DEF UserRow
    <2>4. /\ Goto(w, "confirm_delete") /\ UNCHANGED tokens
          /\ users' = [users EXCEPT ![req[w].user] = row]
      BY <1>8, <2>2 DEF ConfirmSave, SaveUser
    <2> HIDE DEF row
    <2>5. /\ req'[w].at = "confirm_delete" /\ req'[w].user = req[w].user
          /\ req'[w].copy = req[w].copy /\ req'[w].token = req[w].token
      BY <1>0, <2>1, <2>4 DEF Goto, RequestOK, ServiceTypeOK
    <2> QED
      BY <2>1, <2>2, <2>3, <2>4, <2>5 DEF Stands, Agrees, SignalSteps, NestedSteps
  <1>9. CASE ConfirmSignal(w)
    BY <1>0, <1>9 DEF ConfirmSignal, Stands, SignalSteps
  <1> QED
    BY <1>1, <1>2, <1>3, <1>4, <1>5, <1>6, <1>7, <1>8, <1>9 DEF RecoveryStep

LEMMA ChangeStands ==
  ASSUME SerialInv, NEW w \in Workers, ChangePassword(w) \/ ChangeStep(w)
  PROVE  Stands(w)'
  <1> USE DEF At
  <1>0. HandlerOK(req[w]) /\ Stands(w) /\ ServiceTypeOK
    BY SerialHandler
  <1>a. ASSUME NEW x, Answer(w, x) PROVE Stands(w)'
    BY <1>0, <1>a, AnswerStands
  <1>1. ASSUME NEW q \in DOMAIN users, ~ ByEmail, UNCHANGED users,
               Begin(w, "change_save", q, [users[q] EXCEPT !.password = drawn + 1])
        PROVE  Stands(w)'
    <2> DEFINE c == [users[q] EXCEPT !.password = drawn + 1]
    <2>1. c.is_active = users[q].is_active /\ c.is_test_user = users[q].is_test_user
      BY <1>0 DEF ServiceTypeOK, UserRow
    <2> HIDE DEF c
    <2>2. req'[w] = Request("change_save", q, c)
      BY <1>0, <1>1 DEF Begin, ServiceTypeOK, c
    <2> QED
      BY <1>1, <2>1, <2>2 DEF Request, Stands, Agrees, SignalSteps, NestedSteps
  <1>2. CASE ChangePassword(w)
    BY <1>a, <1>1, <1>2 DEF ChangePassword, tables, Authenticated
  <1>3. CASE ChangeSave(w)
    <2>1. req[w].user \in DOMAIN users
      BY <1>3, SerialCopy DEF ChangeSave, SaveSteps
    <2> QED BY <1>a, <1>3, <2>1 DEF ChangeSave, SaveUser
  <1>4. CASE ChangeSignal(w)
    BY <1>0, <1>4 DEF ChangeSignal, Stands, SignalSteps
  <1> QED BY <1>2, <1>3, <1>4 DEF ChangeStep

LEMMA UserStartStands ==
  ASSUME SerialInv, NEW w \in Workers, UserStart(w)
  PROVE  Stands(w)'
  <1>0. HandlerOK(req[w]) /\ Stands(w) /\ ServiceTypeOK
    BY SerialHandler
  <1>1. CASE Refuse(w) \/ DeleteTestUsers(w)
    BY <1>0, <1>1, AnswerStands DEF Refuse, DeleteTestUsers
  <1>2. CASE UpdateUser(w) \/ UserDetails(w) \/ CompleteRegister(w) \/ AdminRequest(w)
    <2>1. \/ \E q \in DOMAIN users, at \in {"update_save", "complete_check"} :
               Begin(w, at, q, users[q])
          \/ \E u \in Users, at \in LoadSteps : Begin(w, at, u, None)
      BY <1>2 DEF UpdateUser, UserDetails, CompleteRegister, AdminRequest, Authenticated, LoadSteps
    <2>2. UNCHANGED users
      BY <1>2 DEF UpdateUser, UserDetails, CompleteRegister, AdminRequest, tables
    <2> QED
      BY <2>1, <2>2, BeginStands DEF Begin, Footed, SignalSteps, NestedSteps, LoadSteps
  <1>3. CASE Register(w)
    <2> DEFINE row == [password |-> 0, is_active |-> TRUE,
                       is_test_user |-> FALSE, named |-> FALSE]
    <2>1. PICK u \in unborn : /\ Begin(w, "register_signal", u, row)
                              /\ users' = Put(users, u, row)
      BY <1>3 DEF Register, Put
    <2> HIDE DEF row
    <2>2. req'[w] = Request("register_signal", u, row)
      BY <1>0, <2>1 DEF Begin, ServiceTypeOK
    <2>3. u \in DOMAIN users' /\ users'[u] = row
      BY <2>1 DEF Put
    <2> QED BY <2>2, <2>3 DEF Request, Stands, Agrees, SignalSteps, NestedSteps
  <1> QED BY <1>1, <1>2, <1>3 DEF UserStart

(* A request of UserViewSet that goes on with the instance it has.         *)
LEMMA UserGotoStands ==
  ASSUME SerialInv, NEW w \in Workers, NEW at \in UserSteps \ Footed, Goto(w, at),
         req[w].at \in UserSteps \ LoadSteps,
         \/ UNCHANGED users
         \/ \E row \in UserRow :
              /\ users' = [users EXCEPT ![req[w].user] = row]
              /\ row.password = req[w].copy.password
              /\ row.is_active = req[w].copy.is_active
              /\ row.is_test_user = req[w].copy.is_test_user
  PROVE  Stands(w)'
  <1>1. /\ req[w].at \notin {"change_save", "confirm_delete"}
        /\ req[w].user \in DOMAIN users
        /\ users[req[w].user].is_active = req[w].copy.is_active
        /\ users[req[w].user].is_test_user = req[w].copy.is_test_user
        /\ users[req[w].user].password = req[w].copy.password
    BY SerialCopy DEF UserSteps
  <1>2. /\ req[w].user \in DOMAIN users'
        /\ users'[req[w].user].is_active = req[w].copy.is_active
        /\ users'[req[w].user].is_test_user = req[w].copy.is_test_user
        /\ users'[req[w].user].password = req[w].copy.password
    BY <1>1
  <1> QED BY <1>1, <1>2, GotoStands

LEMMA NestedStands ==
  ASSUME SerialInv, NEW w \in Workers, NEW from \in UserSteps \ LoadSteps,
         NEW to \in NestedSteps, NEW done \in BOOLEAN, NestedRead(w, from, to, done),
         done => Stands(w)'
  PROVE  Stands(w)'
  <1>0. HandlerOK(req[w]) /\ ServiceTypeOK /\ Agrees(w) /\ req[w].at = from
    BY SerialHandler DEF NestedRead, At
  <1>1. CASE Answer(w, "error")
    BY <1>0, <1>1, AnswerStands
  <1>2. CASE /\ req[w].user \in DOMAIN profiles /\ UNCHANGED profiles
             /\ req' = [req EXCEPT ![w] = [@ EXCEPT !.at = to,
                                                   !.profile = profiles[req[w].user]]]
    <2>1. UserRequestOK(req[w])
      BY <1>0, HandlerKinds
    <2>2. /\ req'[w].at = to /\ req'[w].user = req[w].user /\ req'[w].copy = req[w].copy
          /\ req'[w].profile = profiles[req[w].user]
      BY <1>0, <1>2, <2>1 DEF ServiceTypeOK, UserRequestOK
    <2>3. UNCHANGED users /\ from \notin {"change_save", "confirm_delete"}
      BY DEF NestedRead, UserSteps
    <2> QED
      BY <1>0, <1>2, <2>2, <2>3 DEF Stands, Agrees, SignalSteps, NestedSteps
  <1>3. CASE UNCHANGED <<users, profiles>> /\ ~ done /\ ~ Answer(w, "error")
    BY <1>2, <1>3 DEF NestedRead
  <1> QED BY <1>1, <1>2, <1>3 DEF NestedRead

LEMMA UserStepStands ==
  ASSUME SerialInv, NEW w \in Workers, UserStep(w)
  PROVE  Stands(w)'
  <1> USE DEF At
  <1>0. HandlerOK(req[w]) /\ Stands(w) /\ ServiceTypeOK
    BY SerialHandler
  <1>a. ASSUME NEW x, Answer(w, x) PROVE Stands(w)'
    BY <1>0, <1>a, AnswerStands
  <1>g. ASSUME NEW at \in UserSteps \ Footed, Goto(w, at),
               req[w].at \in UserSteps \ LoadSteps, UNCHANGED users
        PROVE  Stands(w)'
    BY <1>g, UserGotoStands
  <1>1. CASE UpdateLoad(w) \/ ToggleLoad(w) \/ DestroyLoad(w)
    <2>1. PICK to \in {"update_save", "toggle_save", "destroy"},
             from \in LoadSteps : Load(w, from, to)
      BY <1>1 DEF UpdateLoad, ToggleLoad, DestroyLoad, LoadSteps
    <2>2. CASE Answer(w, "rejected")
      BY <1>a, <2>2
    <2>3. CASE /\ req[w].user \in DOMAIN users /\ UNCHANGED users
               /\ req' = [req EXCEPT ![w] = Request(to, req[w].user, users[req[w].user])]
      BY <2>3, BeginStands DEF Footed, SignalSteps, NestedSteps
    <2> QED BY <2>1, <2>2, <2>3 DEF Load, tables
  <1>2. CASE UpdateSave(w) \/ CompleteSave(w)
    <2>1. /\ req[w].at \in UserSteps \ LoadSteps /\ req[w].copy \in UserRow
          /\ req[w].user \in DOMAIN users
      BY <1>2, SerialCopy DEF UpdateSave, CompleteSave, UserSteps, LoadSteps
    <2>2. ASSUME NEW at \in {"update_profile", "complete_profile"}, NEW b \in BOOLEAN,
                 SaveUser(w, [req[w].copy EXCEPT !.named = b], at)
          PROVE  Stands(w)'
      <3> DEFINE row == [req[w].copy EXCEPT !.named = b]
      <3>1. /\ row \in UserRow /\ row.password = req[w].copy.password
            /\ row.is_active = req[w].copy.is_active
            /\ row.is_test_user = req[w].copy.is_test_user
        BY <2>1 DEF UserRow
      <3>2. Goto(w, at) /\ users' = [users EXCEPT ![req[w].user] = row]
        BY <2>1, <2>2 DEF SaveUser
      <3> HIDE DEF row
      <3> QED
        BY <2>1, <2>2, <3>1, <3>2, UserGotoStands
        DEF Footed, SignalSteps, NestedSteps, UserSteps
    <2>3. req[w].copy.named \in BOOLEAN /\ NameInputs \subseteq BOOLEAN
      BY <2>1, InputsAssumption DEF UserRow
    <2> QED BY <1>2, <1>a, <2>2, <2>3 DEF UpdateSave, CompleteSave
  <1>3. CASE UpdateProfile(w)
    <2>1. Answer(w, "ok") => Stands(w)'
      BY <1>a
    <2>2. Answer(w, "ok") \in BOOLEAN
      BY DEF Answer
    <2> QED BY <1>3, <2>1, <2>2, NestedStands
            DEF UpdateProfile, UserSteps, LoadSteps, NestedSteps
  <1>4. CASE UpdateNested(w) \/ CompleteWrite(w) \/ ToggleSave(w) \/ Destroy(w)
    BY <1>4, <1>a DEF UpdateNested, CompleteWrite, ProfileSave, ToggleSave, Destroy
  <1>5. CASE CompleteCheck(w) \/ CompleteFetch(w)
    BY <1>5, <1>a, <1>g
    DEF CompleteCheck, CompleteFetch, tables, UserSteps, LoadSteps, Footed, SignalSteps,
        NestedSteps
  <1>6. CASE CompleteProfile(w)
    <2>1. Goto(w, "complete_fetch") => Stands(w)'
      BY <1>6, <1>g DEF CompleteProfile, NestedRead, UserSteps, LoadSteps, Footed,
                        SignalSteps, NestedSteps
    <2>2. Goto(w, "complete_fetch") \in BOOLEAN
      BY DEF Goto
    <2> QED BY <1>6, <2>1, <2>2, NestedStands
            DEF CompleteProfile, UserSteps, LoadSteps, NestedSteps
  <1>7. CASE CompleteNested(w)
    BY <1>7, <1>a, <1>g
    DEF CompleteNested, ProfileSave, UserSteps, LoadSteps, Footed, SignalSteps, NestedSteps
  <1>8. CASE RegisterFlag(w)
    <2>1. req[w].user \in DOMAIN users
      BY <1>8, SerialCopy DEF RegisterFlag, SaveSteps
    <2> QED BY <1>a, <1>8, <2>1 DEF RegisterFlag, SaveUser
  <1>9. CASE UserSignal(w)
    <2>1. req[w].at = "register_signal" /\ UNCHANGED users
      BY <1>0, <1>9 DEF UserSignal, CreateProfile, Stands, SignalSteps
    <2>2. (\E x : Answer(w, x)) \/ Goto(w, "register_flag")
      BY <1>9, <2>1, SignalGoes, SignalSequence DEF UserSignal
    <2> QED
      BY <1>a, <1>g, <2>1, <2>2 DEF UserSteps, LoadSteps, Footed, SignalSteps, NestedSteps
  <1> QED
    BY <1>1, <1>2, <1>3, <1>4, <1>5, <1>6, <1>7, <1>8, <1>9 DEF UserStep

LEMMA SerialStarts == ServiceInit => SerialInv
  <1> SUFFICES ASSUME ServiceInit PROVE SerialInv
    OBVIOUS
  <1>1. ServiceInv /\ tokens = {} /\ req = [w \in Workers |-> Idle]
    BY ServiceStarts DEF ServiceInit, UserInit
  <1>2. Tidy
    BY <1>1 DEF Tidy, ServiceInit, UserInit
  <1>3. \A w \in Workers : Stands(w)
    BY <1>1 DEF Stands, Agrees, Idle, Request, SignalSteps, NestedSteps
  <1> QED BY <1>1, <1>2, <1>3 DEF SerialInv

LEMMA SerialKeeps ==
  ASSUME OneWorker
  PROVE  SerialInv /\ [ServiceNext]_serviceVars => SerialInv'
  <1> SUFFICES ASSUME SerialInv, [ServiceNext]_serviceVars PROVE SerialInv'
    OBVIOUS
  <1>1. ServiceInv'
    BY ServiceKeeps DEF SerialInv
  <1>2. Tidy'
    <2>1. CASE Quiet \/ UNCHANGED serviceVars
      BY <2>1 DEF Quiet, serviceVars, Tidy, SerialInv
    <2> QED BY <2>1, SerialSteps, SerialTables
  <1>3. ASSUME NEW w \in Workers PROVE Stands(w)'
    <2>1. CASE UNCHANGED <<users, profiles, tokens, req>>
      BY <2>1 DEF SerialInv, Stands, Agrees, TokensOf
    <2>2. CASE ServiceNext /\ ~ UNCHANGED <<users, profiles, tokens, req>>
      <3>1. ASSUME NEW v \in Workers, UserCrash(v) PROVE Stands(v)'
        BY <3>1, AnswerStands DEF UserCrash, Crash, SerialInv, ServiceInv
      <3>2. \E v \in Workers : Stands(v)'
        BY <2>2, <3>1, RecoveryStands, ChangeStands, UserStartStands, UserStepStands
        DEF ServiceNext, UserNext, Tick, accountVars
      <3> QED BY <3>2 DEF OneWorker
    <2> QED BY <2>1, <2>2 DEF serviceVars
  <1> QED BY <1>1, <1>2, <1>3 DEF SerialInv

LEMMA SerialAlways ==
  ASSUME OneWorker
  PROVE  ServiceSpec => []SerialInv
  BY SerialStarts, SerialKeeps, PTL DEF ServiceSpec

-----------------------------------------------------------------------------
(* The promise.  One token at most is what TokenOf names.                  *)
LEMMA TokenNamed ==
  ASSUME ServiceTypeOK, Tidy, NEW t \in tokens
  PROVE  TokenOf(t.user) = t.pk /\ TokenOf(t.user) /= None
  <1>1. TokensOf(t.user) = {t}
    BY DEF Tidy, TokensOf
  <1>2. (CHOOSE r \in TokensOf(t.user) : TRUE) = t
    BY <1>1
  <1>3. t.pk /= None
    BY InstanceAssumption DEF ServiceTypeOK, TokenRow
  <1> QED BY <1>1, <1>2, <1>3 DEF TokenOf

(* The tokens of the users whose rows a statement leaves alone.            *)
LEMMA TokenKept ==
  ASSUME NEW u, TokensOf(u)' = TokensOf(u)
  PROVE  TokenOf(u)' = TokenOf(u)
  BY DEF TokenOf

AccountsNow == [u \in DOMAIN users |-> AccountOf(u)]
TokensNow == [u \in Users |-> TokenOf(u)]

LEMMA QuietKeeps ==
  ASSUME Quiet
  PROVE  UNCHANGED Promise!promiseVars
  BY DEF Quiet, Promise!promiseVars, AccountOf, TokenOf, TokensOf

LEMMA SavesKeep ==
  ASSUME SerialInv, NEW w \in Workers, NEW p, Saves(w, p)
  PROVE  /\ req[w].user \in DOMAIN users /\ req[w].user \in Users
         /\ AccountsNow' = [AccountsNow EXCEPT ![req[w].user] = [@ EXCEPT !.password = p]]
         /\ UNCHANGED <<TokensNow, drawn, unborn>>
  <1> DEFINE u == req[w].user
  <1>1. PICK row \in UserRow :
          /\ row.password = p /\ row.is_active = users[u].is_active
          /\ users' = [users EXCEPT ![u] = row]
    BY DEF Saves
  <1>2. u \in DOMAIN users /\ UNCHANGED <<profiles, tokens, drawn, unborn>>
    BY DEF Saves
  <1>3. u \in Users
    BY <1>2, SerialHandler DEF ServiceTypeOK
  <1>4. \A v \in DOMAIN users :
          AccountOf(v)' = IF v = u THEN [AccountOf(v) EXCEPT !.password = p]
                                   ELSE AccountOf(v)
    BY <1>1, <1>2 DEF AccountOf
  <1>5. DOMAIN users' = DOMAIN users
    BY <1>1
  <1>6. UNCHANGED TokensNow
    BY <1>2 DEF TokensNow, TokenOf, TokensOf
  <1> QED BY <1>2, <1>3, <1>4, <1>5, <1>6 DEF AccountsNow

LEMMA SaveKeepsPromise ==
  ASSUME SerialInv, NEW w \in Workers,
         \/ Saves(w, users[req[w].user].password) \/ Redeems(w)
  PROVE  [Promise!Next]_(Promise!promiseVars)
  <1> USE DEF AccountsNow, TokensNow
  <1> DEFINE u == req[w].user
  <1>1. CASE Saves(w, users[u].password)
    <2>1. /\ u \in DOMAIN users
          /\ AccountsNow' = [AccountsNow EXCEPT ![u] = [@ EXCEPT !.password = users[u].password]]
          /\ UNCHANGED <<TokensNow, drawn, unborn>>
      BY <1>1, SavesKeep
    <2>2. [AccountOf(u) EXCEPT !.password = users[u].password] = AccountOf(u)
      BY DEF AccountOf
    <2>3. UNCHANGED AccountsNow
      BY <2>1, <2>2
    <2> QED BY <2>1, <2>3 DEF Promise!promiseVars
  <1>2. CASE Redeems(w)
    <2>1. /\ u \in DOMAIN users /\ u \in Users
          /\ AccountsNow' = [AccountsNow EXCEPT ![u] = [@ EXCEPT !.password = req[w].token.pk]]
          /\ UNCHANGED <<TokensNow, drawn, unborn>>
      BY <1>2, SavesKeep DEF Redeems
    <2>2. TokenOf(u) = req[w].token.pk /\ TokenOf(u) /= None
      BY <1>2, TokenNamed, SerialHandler DEF Redeems, SerialInv
    <2>3. Promise!Redeem(u)
      BY <2>1, <2>2 DEF Promise!Redeem, Promise!Existing
    <2> QED BY <2>1, <2>3 DEF Promise!Next
  <1> QED BY <1>1, <1>2

LEMMA CompleteSet ==
  ASSUME NEW p, NEW a, NEW c
  PROVE  [[password |-> p, active |-> a, complete |-> c] EXCEPT !.complete = TRUE]
           = [password |-> p, active |-> a, complete |-> TRUE]
  <1>1. PICK r : r = [password |-> p, active |-> a, complete |-> c]
    OBVIOUS
  <1>2. PICK b : b = TRUE
    OBVIOUS
  <1>3. [r EXCEPT !.complete = b] = [password |-> p, active |-> a, complete |-> b]
    BY <1>1
  <1> QED BY <1>1, <1>2, <1>3, Zenon

LEMMA ProfileKeepsPromise ==
  ASSUME SerialInv, NEW w \in Workers, NEW b \in BOOLEAN, Profiles(w, b)
  PROVE  [Promise!Next]_(Promise!promiseVars)
  <1> USE DEF AccountsNow, TokensNow
  <1>u. PICK u : u = req[w].user
    OBVIOUS
  <1>1. /\ u \in DOMAIN users /\ profiles' = Put(profiles, u, b)
        /\ b \/ u \notin DOMAIN profiles
        /\ UNCHANGED <<users, tokens, drawn, unborn>>
    BY <1>u DEF Profiles
  <1>2. u \in Users
    BY <1>1, SerialHandler DEF ServiceTypeOK
  <1>3. DOMAIN profiles' = DOMAIN profiles \cup {u} /\ profiles'[u] = b
        /\ \A v \in DOMAIN profiles : v /= u => profiles'[v] = profiles[v]
    BY <1>1 DEF Put
  <1>4. UNCHANGED <<TokensNow, drawn, unborn>>
    BY <1>1 DEF TokenOf, TokensOf
  <1>5. \A v \in DOMAIN users : v /= u => AccountOf(v)' = AccountOf(v)
    BY <1>1, <1>3 DEF AccountOf
  <1>6. CASE b
    <2>b. b = TRUE
      BY <1>6
    <2>c. (u \in DOMAIN profiles' /\ profiles'[u]) = TRUE
      BY <1>3, <2>b
    <2>d. AccountOf(u)' = [password |-> users[u].password,
                           active |-> users[u].is_active, complete |-> TRUE]
      BY <1>1, <2>c, Zenon DEF AccountOf
    <2>e. [AccountOf(u) EXCEPT !.complete = TRUE]
            = [password |-> users[u].password, active |-> users[u].is_active,
               complete |-> TRUE]
      BY CompleteSet, Zenon DEF AccountOf
    <2>1. AccountOf(u)' = [AccountOf(u) EXCEPT !.complete = TRUE]
      BY <2>d, <2>e
    <2>a. \A v \in DOMAIN users :
            AccountOf(v)' = IF v = u THEN [AccountOf(v) EXCEPT !.complete = TRUE]
                                     ELSE AccountOf(v)
      BY <1>5, <2>1
    <2>2. AccountsNow' = [AccountsNow EXCEPT ![u] = [@ EXCEPT !.complete = TRUE]]
      BY <1>1, <2>a
    <2>3. Promise!Complete(u)
      BY <1>1, <1>4, <2>2 DEF Promise!Complete, Promise!Existing
    <2> QED BY <1>2, <2>3 DEF Promise!Next
  <1>7. CASE ~ b
    <2>1. AccountOf(u)' = AccountOf(u)
      BY <1>1, <1>3, <1>7 DEF AccountOf
    <2>2. UNCHANGED AccountsNow
      BY <1>1, <1>5, <2>1
    <2> QED BY <1>4, <2>2 DEF Promise!promiseVars
  <1> QED BY <1>6, <1>7

LEMMA TokenKeepsPromise ==
  ASSUME SerialInv, NEW w \in Workers, Withdraws(w) \/ Issues(w)
  PROVE  [Promise!Next]_(Promise!promiseVars)
  <1> USE DEF AccountsNow, TokensNow
  <1>0. ServiceTypeOK /\ Tidy
    BY SerialHandler DEF SerialInv
  <1>1. UNCHANGED <<AccountsNow, unborn>>
    BY DEF Withdraws, Issues, AccountOf
  <1>2. CASE Withdraws(w)
    <2> DEFINE t == req[w].token
    <2>1. t \in tokens /\ tokens' = tokens \ {t} /\ UNCHANGED drawn
      BY <1>2 DEF Withdraws
    <2>2. t.user \in Users
      BY <1>0, <2>1 DEF ServiceTypeOK, TokenRow
    <2>3. TokenOf(t.user) /= None
      BY <1>0, <2>1, TokenNamed
    <2> HIDE DEF t
    <2>4. {r \in tokens' : r.user = t.user} = {}
      BY <1>0, <2>1 DEF Tidy
    <2>5. \A v \in Users : v /= t.user => TokensOf(v)' = TokensOf(v)
      BY <2>1 DEF TokensOf
    <2>6. \A v \in Users : TokenOf(v)' = IF v = t.user THEN None ELSE TokenOf(v)
      <3>1. ASSUME NEW v \in Users, v = t.user PROVE TokenOf(v)' = None
        BY <2>4, <3>1 DEF TokenOf, TokensOf
      <3> QED BY <2>5, <3>1, TokenKept
    <2>7. TokensNow' = [TokensNow EXCEPT ![t.user] = None]
      BY <2>6
    <2>8. Promise!Withdraw(t.user)
      BY <1>1, <2>1, <2>2, <2>3, <2>7 DEF Promise!Withdraw
    <2> QED BY <2>2, <2>8 DEF Promise!Next
  <1>3. CASE Issues(w)
    <2>u. PICK u : u = req[w].user
      OBVIOUS
    <2>1. PICK t \in TokenRow : t.user = u /\ t.pk = drawn + 1 /\ tokens' = tokens \cup {t}
      BY <1>3, <2>u DEF Issues
    <2>2. u \in DOMAIN users /\ TokensOf(u) = {} /\ drawn' = drawn + 1
      BY <1>3, <2>u DEF Issues
    <2>3. u \in Users
      BY <1>0, <2>2 DEF ServiceTypeOK
    <2>4. TokenOf(u) = None
      BY <2>2 DEF TokenOf
    <2>5. {r \in tokens' : r.user = u} = {t}
      BY <2>1, <2>2 DEF TokensOf
    <2>6. \A v \in Users : v /= u => TokensOf(v)' = TokensOf(v)
      BY <2>1 DEF TokensOf
    <2>7. \A v \in Users : TokenOf(v)' = IF v = u THEN drawn + 1 ELSE TokenOf(v)
      <3>1. (CHOOSE r \in {t} : TRUE) = t
        OBVIOUS
      <3>2. TokenOf(u)' = drawn + 1
        BY <2>1, <2>5, <3>1 DEF TokenOf, TokensOf
      <3> QED BY <2>6, <3>2, TokenKept
    <2>8. TokensNow' = [TokensNow EXCEPT ![u] = drawn + 1]
      BY <2>7
    <2>9. Promise!Issue(u)
      BY <1>1, <2>2, <2>3, <2>4, <2>8 DEF Promise!Issue, Promise!Existing
    <2> QED BY <2>3, <2>9 DEF Promise!Next
  <1> QED BY <1>2, <1>3

LEMMA BlockKeepsPromise ==
  ASSUME SerialInv, NEW w \in Workers, Blocks(w)
  PROVE  [Promise!Next]_(Promise!promiseVars)
  <1> USE DEF AccountsNow, TokensNow
  <1>u. PICK u : u = req[w].user
    OBVIOUS
  <1>1. /\ u \in DOMAIN users /\ profiles' = profiles
        /\ UNCHANGED <<tokens, drawn, unborn>>
    BY <1>u DEF Blocks, SavesActive
  <1>2. PICK b \in BOOLEAN : users' = [users EXCEPT ![u] = [@ EXCEPT !.is_active = b]]
    BY <1>u DEF Blocks, SavesActive
  <1>3. users[u] \in UserRow /\ u \in Users
    BY <1>1, SerialHandler DEF ServiceTypeOK
  <1>4. users'[u].is_active = b /\ users'[u].password = users[u].password
    BY <1>1, <1>2, <1>3 DEF UserRow
  <1>5. AccountOf(u)' = [password |-> users[u].password, active |-> b,
                         complete |-> u \in DOMAIN profiles /\ profiles[u]]
    BY <1>1, <1>4, Zenon DEF AccountOf
  <1>6. AccountOf(u)' = [AccountOf(u) EXCEPT !.active = b]
    <2>1. [AccountOf(u) EXCEPT !.active = b]
            = [password |-> users[u].password, active |-> b,
               complete |-> u \in DOMAIN profiles /\ profiles[u]]
      <3>1. PICK r : r = AccountOf(u)
        OBVIOUS
      <3>2. PICK c : c = (u \in DOMAIN profiles /\ profiles[u])
        OBVIOUS
      <3>3. PICK d : d = b
        OBVIOUS
      <3>4. r = [password |-> users[u].password, active |-> users[u].is_active,
                 complete |-> c]
        BY <3>1, <3>2, Zenon DEF AccountOf
      <3>5. [r EXCEPT !.active = d]
              = [password |-> users[u].password, active |-> d, complete |-> c]
        BY <3>4
      <3> QED BY <3>1, <3>2, <3>3, <3>5, Zenon
    <2> QED BY <1>5, <2>1, Zenon
  <1>7. \A v \in DOMAIN users : v /= u => AccountOf(v)' = AccountOf(v)
    BY <1>1, <1>2 DEF AccountOf
  <1>8. DOMAIN users' = DOMAIN users
    BY <1>2
  <1>9. \A v \in DOMAIN users :
          AccountOf(v)' = IF v = u THEN [AccountOf(v) EXCEPT !.active = b] ELSE AccountOf(v)
    BY <1>6, <1>7
  <1>10. AccountsNow' = [AccountsNow EXCEPT ![u] = [@ EXCEPT !.active = b]]
    BY <1>8, <1>9
  <1>11. UNCHANGED <<TokensNow, drawn, unborn>>
    BY <1>1 DEF TokenOf, TokensOf
  <1>12. Promise!SetActive(u)
    BY <1>1, <1>10, <1>11 DEF Promise!SetActive, Promise!Existing
  <1> QED BY <1>3, <1>12 DEF Promise!Next

LEMMA DeleteKeepsPromise ==
  ASSUME SerialInv, NEW w \in Workers, Deletes(w)
  PROVE  [Promise!Next]_(Promise!promiseVars)
  <1> USE DEF AccountsNow, TokensNow
  <1>1. PICK gone \in SUBSET DOMAIN users : DeleteUsers(gone)
    BY DEF Deletes
  <1>2. UNCHANGED <<drawn, unborn>>
    BY DEF Deletes
  <1>3. DOMAIN users' = DOMAIN users \ gone
        /\ \A v \in DOMAIN users \ gone : users'[v] = users[v]
    BY <1>1 DEF DeleteUsers
  <1>4. ASSUME NEW v \in DOMAIN users \ gone PROVE AccountOf(v)' = AccountOf(v)
    <2>1. v \in DOMAIN profiles' <=> v \in DOMAIN profiles
      BY <1>1 DEF DeleteUsers
    <2>2. v \in DOMAIN profiles => profiles'[v] = profiles[v]
      BY <1>1 DEF DeleteUsers
    <2>3. (v \in DOMAIN profiles' /\ profiles'[v]) = (v \in DOMAIN profiles /\ profiles[v])
      BY <2>1, <2>2
    <2> QED BY <1>3, <2>3 DEF AccountOf
  <1>5. AccountsNow' = [v \in DOMAIN users \ gone |-> AccountsNow[v]]
    BY <1>3, <1>4
  <1>6. ASSUME NEW v \in Users
        PROVE  TokenOf(v)' = IF v \in gone THEN None ELSE TokenOf(v)
    <2>1. v \in gone => TokensOf(v)' = {}
      BY <1>1 DEF DeleteUsers, TokensOf
    <2>2. v \notin gone => TokensOf(v)' = TokensOf(v)
      BY <1>1 DEF DeleteUsers, TokensOf
    <2>3. TokensOf(v)' = {} => TokenOf(v)' = None
      BY DEF TokenOf
    <2> QED BY <2>1, <2>2, <2>3, TokenKept
  <1>7. TokensNow' = [v \in Users |-> IF v \in gone THEN None ELSE TokensNow[v]]
    BY <1>6
  <1>8. Promise!Remove(gone)
    BY <1>2, <1>5, <1>7 DEF Promise!Remove, Promise!Existing
  <1> QED BY <1>8 DEF Promise!Next, Promise!Existing

LEMMA JoinKeepsPromise ==
  ASSUME SerialInv, Joins
  PROVE  [Promise!Next]_(Promise!promiseVars)
  <1> USE DEF AccountsNow, TokensNow
  <1>1. PICK u \in unborn, row \in UserRow :
          /\ row.password = 0 /\ row.is_active
          /\ users' = Put(users, u, row) /\ unborn' = unborn \ {u}
          /\ UNCHANGED <<profiles, tokens, drawn>>
    BY DEF Joins
  <1>2. u \in Users /\ u \notin DOMAIN users /\ u \notin DOMAIN profiles
    BY DEF SerialInv, ServiceInv, ServiceTypeOK, UnbornFresh, Tidy
  <1>3. /\ DOMAIN users' = DOMAIN users \cup {u} /\ users'[u] = row
        /\ \A v \in DOMAIN users : users'[v] = users[v]
    BY <1>1, <1>2 DEF Put
  <1>4. row.is_active = TRUE
    BY <1>1 DEF UserRow
  <1>5. (u \in DOMAIN profiles' /\ profiles'[u]) = FALSE
    BY <1>1, <1>2
  <1>6. AccountOf(u)' = Promise!Fresh
    BY <1>1, <1>3, <1>4, <1>5, Zenon DEF AccountOf, Promise!Fresh
  <1>7. \A v \in DOMAIN users : AccountOf(v)' = AccountOf(v)
    BY <1>1, <1>3 DEF AccountOf
  <1>8. \A v \in DOMAIN users \cup {u} :
          AccountOf(v)' = IF v = u THEN Promise!Fresh ELSE AccountOf(v)
    BY <1>2, <1>6, <1>7
  <1>9. AccountsNow' = [v \in DOMAIN users \cup {u} |->
                          IF v = u THEN Promise!Fresh ELSE AccountsNow[v]]
    BY <1>3, <1>8
  <1>10. UNCHANGED <<TokensNow, drawn>>
    BY <1>1 DEF TokenOf, TokensOf
  <1>11. Promise!Join(u)
    BY <1>1, <1>9, <1>10 DEF Promise!Join, Promise!Existing
  <1> QED BY <1>2, <1>11 DEF Promise!Next

LEMMA PromiseStep ==
  ASSUME ByEmail, SerialInv, ServiceNext
  PROVE  [Promise!Next]_(Promise!promiseVars)
  <1>1. ASSUME NEW w \in Workers, SerialStep(w)
        PROVE  [Promise!Next]_(Promise!promiseVars)
    BY <1>1, QuietKeeps, SaveKeepsPromise, ProfileKeepsPromise, TokenKeepsPromise,
       BlockKeepsPromise, DeleteKeepsPromise, JoinKeepsPromise
    DEF SerialStep, ChangesPassword
  <1> QED BY <1>1, QuietKeeps, SerialSteps

LEMMA PromiseStarts == ServiceInit => Promise!Init
  <1> SUFFICES ASSUME ServiceInit PROVE Promise!Init
    OBVIOUS
  <1>1. PICK registered \in SUBSET Users, complete \in SUBSET Staff, named \in NameInputs :
          /\ users = [u \in registered |->
                        [password |-> 0, is_active |-> TRUE,
                         is_test_user |-> FALSE, named |-> named]]
          /\ profiles = [u \in registered |-> u \in complete]
          /\ unborn = Users \ registered
    BY DEF ServiceInit, UserInit
  <1>2. complete \in SUBSET Users
    BY StaffAssumption
  <1>3. ASSUME NEW u \in registered
        PROVE  AccountOf(u) = [password |-> 0, active |-> TRUE, complete |-> u \in complete]
    <2>1. u \in DOMAIN profiles /\ profiles[u] = (u \in complete)
      BY <1>1
    <2>2. (u \in DOMAIN profiles /\ profiles[u]) = (u \in complete)
      <3>1. CASE u \in complete
        BY <2>1, <3>1
      <3>2. CASE u \notin complete
        <4>1. (u \in complete) = FALSE
          BY <3>2
        <4>2. profiles[u] = FALSE
          BY <2>1, <4>1
        <4>3. ~ profiles[u]
          BY <4>2
        <4> QED BY <3>2, <4>3
      <3> QED BY <3>1, <3>2
    <2>3. users[u].password = 0 /\ users[u].is_active = TRUE
      BY <1>1
    <2> QED BY <2>2, <2>3, Zenon DEF AccountOf
  <1>4. ASSUME NEW u \in registered
        PROVE  [Promise!Fresh EXCEPT !.complete = u \in complete]
                 = [password |-> 0, active |-> TRUE, complete |-> u \in complete]
    <2>1. PICK r : r = Promise!Fresh
      OBVIOUS
    <2>2. PICK c : c = (u \in complete)
      OBVIOUS
    <2>3. PICK yes, no : yes = TRUE /\ no = FALSE
      OBVIOUS
    <2>4. r = [password |-> 0, active |-> yes, complete |-> no]
      BY <2>1, <2>3, Zenon DEF Promise!Fresh
    <2>5. [r EXCEPT !.complete = c] = [password |-> 0, active |-> yes, complete |-> c]
      BY <2>4
    <2> QED BY <2>1, <2>2, <2>3, <2>5, Zenon
  <1>5. [u \in DOMAIN users |-> AccountOf(u)]
          = [u \in registered |-> [Promise!Fresh EXCEPT !.complete = u \in complete]]
    BY <1>1, <1>3, <1>4
  <1>6. [u \in Users |-> TokenOf(u)] = [u \in Users |-> None]
    BY DEF ServiceInit, UserInit, TokenOf, TokensOf
  <1> QED BY <1>1, <1>2, <1>5, <1>6 DEF ServiceInit, Promise!Init

(* With one worker, and passwords that change by mail only, requests that  *)
(* are cut short wherever they stand keep the promise of AccountPromise,   *)
(* for any number of accounts.                                             *)
THEOREM PromiseKept ==
  ASSUME OneWorker, ByEmail
  PROVE  ServiceSpec => KeepsPromise
  <1>1. SerialInv /\ [ServiceNext]_serviceVars => [Promise!Next]_(Promise!promiseVars)
    <2>1. UNCHANGED serviceVars => Quiet
      BY DEF serviceVars, Quiet
    <2> QED BY <2>1, PromiseStep, QuietKeeps
  <1> QED BY <1>1, PromiseStarts, SerialAlways, PTL
          DEF ServiceSpec, KeepsPromise, Promise!Spec

-----------------------------------------------------------------------------
(* Passwords in order: a user's password is no newer than its token, and   *)
(* neither is newer than the last token drawn.                             *)
InOrder ==
  /\ \A u \in DOMAIN users : users[u].password <= drawn
  /\ \A r \in tokens : r.pk <= drawn /\ users[r.user].password <= r.pk

NoneGoesBack ==
  \A u \in DOMAIN users \cap DOMAIN users' : users[u].password <= users'[u].password

LEMMA OrderStep ==
  ASSUME ByEmail, SerialInv, InOrder, NEW w \in Workers, SerialStep(w)
  PROVE  InOrder' /\ NoneGoesBack
  <1> USE DEF InOrder, NoneGoesBack
  <1>0. ServiceTypeOK /\ Tidy /\ UnbornFresh
    BY DEF SerialInv, ServiceInv
  <1>1. /\ drawn \in Nat /\ \A u \in DOMAIN users : users[u].password \in Nat
        /\ \A r \in tokens : r.pk \in Nat /\ r.user \in DOMAIN users
    BY <1>0 DEF ServiceTypeOK, UserRow, TokenRow, Tidy
  <1>2. CASE UNCHANGED <<users, tokens, drawn>>
    BY <1>1, <1>2
  <1>3. ASSUME NEW p \in Nat, Saves(w, p), p <= drawn, users[req[w].user].password <= p,
               \A r \in tokens : r.user = req[w].user => p <= r.pk
        PROVE  InOrder' /\ NoneGoesBack
    <2>1. PICK row \in UserRow :
            row.password = p /\ users' = [users EXCEPT ![req[w].user] = row]
      BY <1>3 DEF Saves
    <2>2. UNCHANGED <<tokens, drawn>> /\ req[w].user \in DOMAIN users
      BY <1>3 DEF Saves
    <2>3. /\ DOMAIN users' = DOMAIN users /\ users'[req[w].user].password = p
          /\ \A u \in DOMAIN users : u /= req[w].user => users'[u] = users[u]
      BY <2>1, <2>2
    <2> QED BY <1>1, <1>3, <2>2, <2>3
  <1>4. CASE Saves(w, users[req[w].user].password)
    <2>1. req[w].user \in DOMAIN users
      BY <1>4 DEF Saves
    <2> QED BY <1>1, <1>3, <1>4, <2>1
  <1>5. CASE Redeems(w)
    <2>1. req[w].token \in tokens /\ req[w].token.user = req[w].user
      BY <1>5 DEF Redeems
    <2>2. \A r \in tokens : r.user = req[w].user => r = req[w].token
      BY <1>0, <2>1 DEF Tidy
    <2>3. \A r \in tokens : r.user = req[w].user => req[w].token.pk <= r.pk
      BY <1>1, <2>1, <2>2
    <2> QED BY <1>1, <1>3, <1>5, <2>1, <2>3 DEF Redeems
  <1>6. CASE Withdraws(w)
    BY <1>1, <1>6 DEF Withdraws
  <1>7. CASE Issues(w)
    BY <1>1, <1>7 DEF Issues
  <1>8. CASE Blocks(w)
    <2>1. PICK b \in BOOLEAN :
            users' = [users EXCEPT ![req[w].user] = [@ EXCEPT !.is_active = b]]
      BY <1>8 DEF Blocks, SavesActive
    <2>2. \A u \in DOMAIN users : users[u] \in UserRow
      BY <1>0 DEF ServiceTypeOK
    <2>3. \A u \in DOMAIN users : users'[u].password = users[u].password
      BY <2>1, <2>2 DEF UserRow
    <2>4. UNCHANGED <<tokens, drawn>> /\ DOMAIN users' = DOMAIN users
      BY <1>8, <2>1 DEF Blocks
    <2> QED BY <1>1, <2>3, <2>4
  <1>9. CASE Deletes(w)
    BY <1>1, <1>9 DEF Deletes, DeleteUsers
  <1>10. CASE Joins
    <2>1. PICK u \in unborn, row \in UserRow :
            row.password = 0 /\ users' = Put(users, u, row) /\ UNCHANGED <<tokens, drawn>>
      BY <1>10 DEF Joins
    <2>2. /\ u \notin DOMAIN users
          /\ DOMAIN users' = DOMAIN users \cup {u} /\ users'[u].password = 0
          /\ \A v \in DOMAIN users : users'[v] = users[v]
      BY <1>0, <2>1 DEF UnbornFresh, Put
    <2> QED BY <1>1, <2>1, <2>2
  <1>11. CASE Quiet \/ \E b \in BOOLEAN : Profiles(w, b)
    BY <1>2, <1>11 DEF Quiet, Profiles
  <1> QED
    BY <1>4, <1>5, <1>6, <1>7, <1>8, <1>9, <1>10, <1>11 DEF SerialStep, ChangesPassword

(* With one worker, and passwords that change by mail only, no password    *)
(* ever goes back to the one an older token had set.                       *)
THEOREM PasswordsMoveOn ==
  ASSUME OneWorker, ByEmail
  PROVE  ServiceSpec => ResetsInOrder
  <1>1. ServiceInit => InOrder
    BY DEF ServiceInit, UserInit, InOrder
  <1>2. SerialInv /\ InOrder /\ [ServiceNext]_serviceVars
          => InOrder' /\ [NoneGoesBack]_vars
    <2> SUFFICES ASSUME SerialInv, InOrder, [ServiceNext]_serviceVars
                 PROVE  InOrder' /\ [NoneGoesBack]_vars
      OBVIOUS
    <2>1. CASE UNCHANGED <<users, tokens, drawn>>
      <3>1. \A u \in DOMAIN users : users[u].password \in Nat
        BY DEF SerialInv, ServiceInv, ServiceTypeOK, UserRow
      <3> QED BY <2>1, <3>1 DEF InOrder, NoneGoesBack
    <2>2. ASSUME NEW w \in Workers, SerialStep(w) PROVE InOrder' /\ [NoneGoesBack]_vars
      BY <2>2, OrderStep
    <2> QED BY <2>1, <2>2, SerialSteps DEF Quiet, serviceVars
  <1> QED BY <1>1, <1>2, SerialAlways, PTL DEF ServiceSpec, ResetsInOrder, NoneGoesBack

(* With one worker, and passwords that change by mail only, the password   *)
(* of an account changes through a confirmation and nothing else: no other *)
(* save of the row writes a password that it has not just read.  Two       *)
(* workers are enough for a run that finds the opposite.  It speaks of the *)
(* routes of AccountService, not of the pages of allauth.                  *)
THEOREM OneWorkerConfirmsOnly ==
  ASSUME OneWorker, ByEmail
  PROVE  ServiceSpec => OnlyConfirmSetsPassword
  <1> DEFINE Kept == \A u \in DOMAIN users \cap DOMAIN users' :
                       users[u].password /= users'[u].password => Confirms(u)
  <1>1. SerialInv /\ [ServiceNext]_serviceVars => [Kept]_serviceVars
    <2> SUFFICES ASSUME SerialInv, ServiceNext,
                        NEW u \in DOMAIN users \cap DOMAIN users',
                        users[u].password /= users'[u].password
                 PROVE  Confirms(u)
      OBVIOUS
    <2>0. ServiceTypeOK /\ UnbornFresh
      BY DEF SerialInv, ServiceInv
    <2>1. PICK w \in Workers : SerialStep(w)
      BY SerialSteps DEF Quiet
    <2>2. ASSUME NEW p, Saves(w, p)
          PROVE  u = req[w].user /\ users'[u].password = p
      BY <2>2 DEF Saves
    <2>3. CASE Saves(w, users[req[w].user].password)
      BY <2>2, <2>3
    <2>4. CASE Redeems(w)
      BY <2>2, <2>4 DEF Redeems, Confirms, Executes
    <2>5. CASE Blocks(w)
      <3>1. PICK b \in BOOLEAN :
              users' = [users EXCEPT ![req[w].user] = [@ EXCEPT !.is_active = b]]
        BY <2>5 DEF Blocks, SavesActive
      <3>2. users[u] \in UserRow
        BY <2>0 DEF ServiceTypeOK
      <3>3. users'[u].password = users[u].password
        BY <3>1, <3>2 DEF UserRow
      <3> QED BY <3>3
    <2>6. CASE Deletes(w)
      BY <2>6 DEF Deletes, DeleteUsers
    <2>7. CASE Joins
      BY <2>0, <2>7 DEF Joins, UnbornFresh, Put
    <2>8. CASE Quiet \/ (\E b \in BOOLEAN : Profiles(w, b)) \/ Withdraws(w) \/ Issues(w)
      BY <2>8 DEF Quiet, Profiles, Withdraws, Issues
    <2> QED
      BY <2>1, <2>3, <2>4, <2>5, <2>6, <2>7, <2>8 DEF SerialStep, ChangesPassword
  <1> QED BY <1>1, SerialAlways, PTL DEF ServiceSpec, OnlyConfirmSetsPassword

-----------------------------------------------------------------------------
(* Admins.  No admin is a test user or still to be registered, and while a *)
(* request aims at a user, an admin other than that user is active.        *)
AdminSteps == {"toggle_load", "toggle_save", "destroy_load", "destroy"}
RegisterSteps == {"register_signal", "register_flag"}

OtherAdmin(u) == \E a \in Staff \cap DOMAIN users : a /= u /\ users[a].is_active

AdminInv ==
  /\ Staff \cap unborn = {}
  /\ \A a \in Staff \cap DOMAIN users : ~ users[a].is_test_user
  /\ SomeAdminActive
  /\ \A w \in Workers :
       /\ req[w].at \in AdminSteps => OtherAdmin(req[w].user)
       /\ req[w].at \in RegisterSteps => req[w].user \notin Staff

(* How a request gets to such a statement.                                 *)
Aims(w) ==
  req'[w].at \in AdminSteps =>
    /\ UNCHANGED users
    /\ \/ req[w].at \in AdminSteps /\ req'[w].user = req[w].user
       \/ \E q \in Staff : Authenticated(q) /\ q /= req'[w].user

SignsUp(w) ==
  req'[w].at \in RegisterSteps =>
    \/ req[w].at \in RegisterSteps /\ req'[w].user = req[w].user
    \/ req'[w].user \in unborn

Elsewhere(w) == req'[w].at \notin AdminSteps \cup RegisterSteps

LEMMA AnswerElsewhere ==
  ASSUME ServiceTypeOK, NEW w \in Workers, NEW x, Answer(w, x)
  PROVE  Elsewhere(w)
  BY DEF ServiceTypeOK, Answer, Idle, Request, Elsewhere, AdminSteps, RegisterSteps

LEMMA GotoElsewhere ==
  ASSUME ServiceTypeOK, NEW w \in Workers, NEW at, Goto(w, at)
  PROVE  req'[w].at = at /\ req'[w].user = req[w].user
  <1>1. HandlerOK(req[w]) /\ w \in DOMAIN req
    BY DEF ServiceTypeOK, HandlerOK
  <1> QED
    BY <1>1 DEF Goto, HandlerOK, RequestOK, UserRequestOK, ChangeRequestOK

LEMMA RecoveryElsewhere ==
  ASSUME SerialInv, NEW w \in Workers,
         RequestToken(w) \/ CheckToken(w) \/ ConfirmUser(w) \/ RecoveryStep(w)
  PROVE  Elsewhere(w)
  <1> USE DEF AdminSteps, RegisterSteps
  <1>0. ServiceTypeOK /\ w \in DOMAIN req
    BY SerialHandler DEF ServiceTypeOK
  <1>a. ASSUME NEW x, Answer(w, x) PROVE Elsewhere(w)
    BY <1>0, <1>a, AnswerElsewhere
  <1>g. ASSUME NEW at, at \notin AdminSteps \cup RegisterSteps, Goto(w, at) PROVE Elsewhere(w)
    BY <1>0, <1>g, GotoElsewhere DEF Elsewhere
  <1>h. ASSUME NEW at, at \notin AdminSteps \cup RegisterSteps, NEW t, GotoHolding(w, at, t)
        PROVE  Elsewhere(w)
    BY <1>0, <1>h DEF GotoHolding, Elsewhere
  <1>b. ASSUME NEW at, at \notin AdminSteps \cup RegisterSteps, NEW u, NEW c, Begin(w, at, u, c)
        PROVE  Elsewhere(w)
    BY <1>0, <1>b DEF Begin, Request, Elsewhere
  <1>1. CASE RequestToken(w) \/ ConfirmUser(w)
    BY <1>1, <1>a, <1>b DEF RequestToken, ConfirmUser
  <1>2. CASE CheckToken(w) \/ RequestMail(w) \/ ConfirmDelete(w)
    BY <1>2, <1>a DEF CheckToken, RequestMail, ConfirmDelete
  <1>3. CASE RequestExists(w)
    BY <1>3, <1>g DEF RequestExists
  <1>4. CASE RequestGet(w) \/ RequestDelete(w) \/ RequestCreate(w) \/ ConfirmToken(w)
    BY <1>4, <1>a, <1>h DEF RequestGet, RequestDelete, RequestCreate, ConfirmToken
  <1>5. CASE ConfirmSave(w)
    <2>1. At(w, "confirm_save")
      BY <1>5 DEF ConfirmSave
    <2> QED BY <1>5, <1>a, <1>g, <2>1, SaveGoes, SignalSequence DEF ConfirmSave, At
  <1>6. CASE ConfirmSignal(w)
    <2>1. At(w, "confirm_signal")
      BY <1>6 DEF ConfirmSignal
    <2> QED BY <1>6, <1>a, <1>g, <2>1, SignalGoes, SignalSequence DEF ConfirmSignal, At
  <1> QED BY <1>1, <1>2, <1>3, <1>4, <1>5, <1>6 DEF RecoveryStep

LEMMA ChangeElsewhere ==
  ASSUME SerialInv, NEW w \in Workers, ChangePassword(w) \/ ChangeStep(w)
  PROVE  Elsewhere(w)
  <1> USE DEF AdminSteps, RegisterSteps
  <1>0. ServiceTypeOK /\ w \in DOMAIN req /\ Stands(w)
    BY SerialHandler DEF ServiceTypeOK
  <1>a. ASSUME NEW x, Answer(w, x) PROVE Elsewhere(w)
    BY <1>0, <1>a, AnswerElsewhere
  <1>1. ASSUME NEW u, NEW c, Begin(w, "change_save", u, c) PROVE Elsewhere(w)
    BY <1>0, <1>1 DEF Begin, Request, Elsewhere
  <1>2. CASE ChangePassword(w)
    BY <1>1, <1>2, <1>a DEF ChangePassword
  <1>3. CASE ChangeSave(w)
    <2>1. req[w].user \in DOMAIN users
      BY <1>3, SerialCopy DEF ChangeSave, At, SaveSteps
    <2> QED BY <1>3, <1>a, <2>1 DEF ChangeSave, SaveUser
  <1>4. CASE ChangeSignal(w)
    BY <1>0, <1>4 DEF ChangeSignal, Stands, SignalSteps, At
  <1> QED BY <1>2, <1>3, <1>4 DEF ChangeStep

LEMMA UserAims ==
  ASSUME SerialInv, NEW w \in Workers, UserStart(w) \/ UserStep(w) \/ UserCrash(w)
  PROVE  Aims(w) /\ SignsUp(w)
  <1> USE DEF At, AdminSteps, RegisterSteps
  <1>0. ServiceTypeOK /\ w \in DOMAIN req /\ HandlerOK(req[w]) /\ Stands(w)
    BY SerialHandler DEF ServiceTypeOK
  <1>e. Elsewhere(w) => Aims(w) /\ SignsUp(w)
    BY DEF Elsewhere, Aims, SignsUp
  <1>a. ASSUME NEW x, Answer(w, x) PROVE Elsewhere(w)
    BY <1>0, <1>a, AnswerElsewhere
  <1>g. ASSUME NEW at, at \notin AdminSteps \cup RegisterSteps, Goto(w, at) PROVE Elsewhere(w)
    BY <1>0, <1>g, GotoElsewhere DEF Elsewhere
  <1>b. ASSUME NEW at, at \notin AdminSteps \cup RegisterSteps, NEW u, NEW c,
               req' = [req EXCEPT ![w] = Request(at, u, c)]
        PROVE  Elsewhere(w)
    BY <1>0, <1>b DEF Request, Elsewhere
  <1>1. CASE Refuse(w) \/ DeleteTestUsers(w) \/ UserCrash(w)
    BY <1>1, <1>a, <1>e DEF Refuse, DeleteTestUsers, UserCrash, Crash
  <1>2. CASE UpdateUser(w) \/ UserDetails(w) \/ CompleteRegister(w)
    BY <1>2, <1>b, <1>e DEF UpdateUser, UserDetails, CompleteRegister, Begin
  <1>3. CASE AdminRequest(w)
    <2>1. PICK q \in Staff, u \in Users, at \in {"toggle_load", "destroy_load"} :
            Authenticated(q) /\ u /= q /\ Begin(w, at, u, None)
      BY <1>3 DEF AdminRequest
    <2>2. req'[w].user = u /\ req'[w].at = at
      BY <1>0, <2>1 DEF Begin, Request
    <2> QED BY <1>3, <2>1, <2>2 DEF AdminRequest, tables, Aims, SignsUp
  <1>4. CASE Register(w)
    <2>1. PICK u \in unborn : \E row : Begin(w, "register_signal", u, row)
      BY <1>4 DEF Register
    <2> QED BY <1>0, <2>1 DEF Begin, Request, Aims, SignsUp
  <1>5. CASE UpdateLoad(w)
    BY <1>5, <1>a, <1>b, <1>e DEF UpdateLoad, Load
  <1>6. CASE ToggleLoad(w) \/ DestroyLoad(w)
    <2>1. PICK to \in {"toggle_save", "destroy"}, from \in {"toggle_load", "destroy_load"} :
            Load(w, from, to)
      BY <1>6 DEF ToggleLoad, DestroyLoad
    <2>2. CASE Answer(w, "rejected")
      BY <1>a, <1>e, <2>2
    <2>3. CASE req' = [req EXCEPT ![w] = Request(to, req[w].user, users[req[w].user])]
      BY <1>0, <2>1, <2>3 DEF Load, tables, Request, Aims, SignsUp
    <2> QED BY <2>1, <2>2, <2>3 DEF Load
  <1>7. CASE UpdateSave(w) \/ CompleteSave(w) \/ RegisterFlag(w)
    <2>1. \/ \E x : Answer(w, x)
          \/ \E at \in {"update_profile", "update_signal", "complete_profile",
                        "complete_signal", "register_resignal"} : Goto(w, at)
      BY <1>7, SaveGoes, SignalSequence DEF UpdateSave, CompleteSave, RegisterFlag
    <2> QED BY <1>a, <1>e, <1>g, <2>1
  <1>8. CASE UpdateProfile(w) \/ CompleteProfile(w)
    <2>1. ASSUME NEW to \in NestedSteps,
                 req' = [req EXCEPT ![w] = [@ EXCEPT !.at = to,
                                                     !.profile = profiles[req[w].user]]]
          PROVE  Elsewhere(w)
      <3>1. UserRequestOK(req[w])
        BY <1>0, <1>8, HandlerKinds
        DEF UpdateProfile, CompleteProfile, NestedRead, UserSteps
      <3> QED BY <1>0, <2>1, <3>1 DEF UserRequestOK, Elsewhere, NestedSteps
    <2>2. \/ (\E x : Answer(w, x)) \/ Goto(w, "complete_fetch")
          \/ \E to \in NestedSteps :
               req' = [req EXCEPT ![w] = [@ EXCEPT !.at = to,
                                                   !.profile = profiles[req[w].user]]]
      BY <1>8 DEF UpdateProfile, CompleteProfile, NestedRead, NestedSteps
    <2> QED BY <1>a, <1>e, <1>g, <2>1, <2>2
  <1>9. CASE \/ UpdateNested(w) \/ CompleteNested(w) \/ CompleteCheck(w)
             \/ CompleteFetch(w) \/ CompleteWrite(w) \/ ToggleSave(w) \/ Destroy(w)
    BY <1>9, <1>a, <1>e, <1>g
    DEF UpdateNested, CompleteNested, CompleteCheck, CompleteFetch, CompleteWrite,
        ToggleSave, Destroy, ProfileSave
  <1>10. CASE UserSignal(w)
    <2>1. req[w].at = "register_signal"
      BY <1>0, <1>10 DEF UserSignal, Stands, SignalSteps
    <2>2. (\E x : Answer(w, x)) \/ Goto(w, "register_flag")
      BY <1>10, <2>1, SignalGoes, SignalSequence DEF UserSignal
    <2>3. CASE Goto(w, "register_flag")
      BY <1>0, <2>1, <2>3, GotoElsewhere DEF Aims, SignsUp
    <2> QED BY <1>a, <1>e, <2>2, <2>3
  <1> QED
    BY <1>1, <1>2, <1>3, <1>4, <1>5, <1>6, <1>7, <1>8, <1>9, <1>10
    DEF UserStart, UserStep

(* An active admin that no request aims at stays one.                      *)
LEMMA AdminKept ==
  ASSUME SerialInv, AdminInv, NEW w \in Workers, SerialStep(w),
         NEW a \in Staff \cap DOMAIN users, users[a].is_active,
         req[w].at \in AdminSteps => a /= req[w].user
  PROVE  a \in DOMAIN users' /\ users'[a].is_active
  <1>0. ServiceTypeOK /\ UnbornFresh
    BY DEF SerialInv, ServiceInv
  <1>1. CASE UNCHANGED users
    BY <1>1
  <1>2. ASSUME NEW p, Saves(w, p) PROVE a \in DOMAIN users' /\ users'[a].is_active
    BY <1>2 DEF Saves
  <1>3. CASE Blocks(w)
    <2>1. a /= req[w].user
      BY <1>3 DEF Blocks, SavesActive, At, AdminSteps
    <2> QED BY <1>3, <2>1 DEF Blocks, SavesActive
  <1>4. CASE Deletes(w)
    <2>1. PICK gone \in SUBSET DOMAIN users :
            /\ DeleteUsers(gone)
            /\ \/ At(w, "destroy") /\ gone = {req[w].user}
               \/ \A u \in gone : users[u].is_test_user
      BY <1>4 DEF Deletes
    <2>2. a \notin gone
      BY <2>1 DEF AdminInv, At, AdminSteps
    <2> QED BY <2>1, <2>2 DEF DeleteUsers
  <1>5. CASE Joins
    BY <1>0, <1>5 DEF Joins, Put, UnbornFresh
  <1> QED
    BY <1>1, <1>2, <1>3, <1>4, <1>5
    DEF SerialStep, Quiet, Redeems, Profiles, Withdraws, Issues, ChangesPassword

LEMMA NoTestAdmins ==
  ASSUME SerialInv, AdminInv, NEW w \in Workers, SerialStep(w)
  PROVE  /\ Staff \cap unborn' = {}
         /\ \A a \in Staff \cap DOMAIN users' : ~ users'[a].is_test_user
  <1>0. ServiceTypeOK
    BY DEF SerialInv, ServiceInv
  <1>1. CASE UNCHANGED <<users, unborn>>
    BY <1>1 DEF AdminInv
  <1>2. ASSUME NEW p, Saves(w, p)
        PROVE  /\ Staff \cap unborn' = {}
               /\ \A a \in Staff \cap DOMAIN users' : ~ users'[a].is_test_user
    <2>1. At(w, "register_flag") => req[w].user \notin Staff
      BY DEF AdminInv, At, RegisterSteps
    <2> QED BY <1>2, <2>1 DEF Saves, AdminInv
  <1>3. CASE Blocks(w)
    <2>1. PICK b \in BOOLEAN :
            users' = [users EXCEPT ![req[w].user] = [@ EXCEPT !.is_active = b]]
      BY <1>3 DEF Blocks, SavesActive
    <2>2. \A u \in DOMAIN users : users[u] \in UserRow
      BY <1>0 DEF ServiceTypeOK
    <2>3. \A u \in DOMAIN users : users'[u].is_test_user = users[u].is_test_user
      BY <2>1, <2>2 DEF UserRow
    <2>4. DOMAIN users' = DOMAIN users /\ UNCHANGED unborn
      BY <1>3, <2>1 DEF Blocks
    <2> QED BY <2>3, <2>4 DEF AdminInv
  <1>4. CASE Deletes(w)
    BY <1>4 DEF Deletes, DeleteUsers, AdminInv
  <1>5. CASE Joins
    BY <1>5 DEF Joins, Put, AdminInv
  <1> QED
    BY <1>1, <1>2, <1>3, <1>4, <1>5
    DEF SerialStep, Quiet, Redeems, Profiles, Withdraws, Issues, ChangesPassword

LEMMA AdminStep ==
  ASSUME OneWorker, SerialInv, AdminInv, NEW w \in Workers, Aims(w), SignsUp(w),
         SerialStep(w) \/ Quiet
  PROVE  AdminInv'
  <1>1. /\ Staff \cap unborn' = {}
        /\ \A a \in Staff \cap DOMAIN users' : ~ users'[a].is_test_user
    BY NoTestAdmins DEF Quiet, AdminInv
  <1>2. SomeAdminActive'
    <2>1. PICK a \in Staff \cap DOMAIN users :
            users[a].is_active /\ (req[w].at \in AdminSteps => a /= req[w].user)
      BY DEF AdminInv, SomeAdminActive, OtherAdmin
    <2>2. a \in DOMAIN users' /\ users'[a].is_active
      BY <2>1, AdminKept DEF Quiet
    <2> QED BY <2>1, <2>2 DEF SomeAdminActive
  <1>3. ASSUME req'[w].at \in AdminSteps
        PROVE  \E a \in Staff \cap DOMAIN users' : a /= req'[w].user /\ users'[a].is_active
    BY <1>3 DEF Aims, AdminInv, OtherAdmin, Authenticated
  <1>4. ASSUME req'[w].at \in RegisterSteps
        PROVE  req'[w].user \notin Staff
    BY <1>4 DEF SignsUp, AdminInv
  <1>5. \A v \in Workers : v = w
    BY DEF OneWorker
  <1> QED BY <1>1, <1>2, <1>3, <1>4, <1>5 DEF AdminInv, OtherAdmin

LEMMA AdminKeeps ==
  ASSUME OneWorker, SerialInv, AdminInv, ServiceNext
  PROVE  AdminInv'
  <1>1. CASE Tick /\ UNCHANGED unborn
    BY <1>1 DEF Tick, accountVars, AdminInv, SomeAdminActive, OtherAdmin
  <1>2. ASSUME NEW w \in Workers, UNCHANGED unborn,
               \/ RequestToken(w) \/ CheckToken(w) \/ ConfirmUser(w) \/ RecoveryStep(w)
               \/ ChangePassword(w) \/ ChangeStep(w)
        PROVE  AdminInv'
    <2>1. Elsewhere(w) /\ SerialStep(w)
      BY <1>2, RecoveryElsewhere, ChangeElsewhere, SerialRecovery, SerialChange
    <2> QED BY <2>1, AdminStep DEF Elsewhere, Aims, SignsUp
  <1>3. ASSUME NEW w \in Workers, UserStart(w) \/ UserStep(w), UNCHANGED recoveryVars
        PROVE  AdminInv'
    BY <1>3, UserAims, SerialUserStart, SerialUserStep, AdminStep
  <1>4. ASSUME NEW w \in Workers, UserCrash(w), UNCHANGED recoveryVars
        PROVE  AdminInv'
    <2>1. Quiet
      BY <1>4 DEF UserCrash, Crash, tables, recoveryVars, Quiet
    <2> QED BY <1>4, <2>1, UserAims, AdminStep
  <1> QED BY <1>1, <1>2, <1>3, <1>4 DEF ServiceNext, UserNext

(* With one worker, admins cannot lock themselves out: as long as there    *)
(* are any to begin with, some admin stays active, however many accounts   *)
(* there are and whatever is toggled, destroyed or cut short.              *)
THEOREM AdminsRemain ==
  ASSUME OneWorker, Staff /= {}
  PROVE  ServiceSpec => []SomeAdminActive
  <1>1. ServiceInit => AdminInv
    BY StaffAssumption
    DEF ServiceInit, UserInit, AdminInv, SomeAdminActive, Idle, Request, AdminSteps,
        RegisterSteps
  <1>2. SerialInv /\ AdminInv /\ [ServiceNext]_serviceVars => AdminInv'
    <2>1. UNCHANGED serviceVars /\ AdminInv => AdminInv'
      BY DEF serviceVars, AdminInv, SomeAdminActive, OtherAdmin
    <2> QED BY <2>1, AdminKeeps
  <1>3. AdminInv => SomeAdminActive
    BY DEF AdminInv
  <1> QED BY <1>1, <1>2, <1>3, SerialAlways, PTL DEF ServiceSpec
-----------------------------------------------------------------------------
(* A worker that goes on, alone.                                           *)
LEMMA OwnStep ==
  ASSUME OneWorker, NEW w \in Workers, ~ At(w, "idle"), [ServiceNext]_serviceVars
  PROVE  \/ UNCHANGED <<users, profiles, tokens, req, reply>>
         \/ UserCrash(w)
         \/ ServiceStep(w)
  <1>0. \A v \in Workers : v = w
    BY DEF OneWorker
  <1>1. CASE UNCHANGED serviceVars \/ Tick
    BY <1>1 DEF serviceVars, Tick, accountVars
  <1>2. ~ (RequestToken(w) \/ CheckToken(w) \/ ConfirmUser(w))
    BY DEF RequestToken, CheckToken, ConfirmUser, Begin
  <1>3. ~ ChangePassword(w)
    BY DEF ChangePassword, Begin
  <1>4. ~ UserStart(w)
    BY DEF UserStart, Refuse, UpdateUser, UserDetails, CompleteRegister, AdminRequest,
           DeleteTestUsers, Register, Begin
  <1> QED BY <1>0, <1>1, <1>2, <1>3, <1>4 DEF ServiceNext, UserNext, ServiceStep

(* A recovery request is for a user who is there, and fetches a row only   *)
(* when there is one.                                                      *)
MailKnown(w) ==
  /\ req[w].at \in RequestSteps => req[w].user \in DOMAIN users
  /\ At(w, "request_get") => TokensOf(req[w].user) /= {}

LEMMA UserKeepsAway ==
  ASSUME SerialInv, NEW w \in Workers, UserStart(w) \/ UserStep(w) \/ UserCrash(w)
  PROVE  req'[w].at \notin RequestSteps
  <1> USE DEF At, RequestSteps
  <1>0. ServiceTypeOK /\ w \in DOMAIN req /\ HandlerOK(req[w]) /\ Stands(w)
    BY SerialHandler DEF ServiceTypeOK
  <1>a. ASSUME NEW x, Answer(w, x) PROVE req'[w].at \notin RequestSteps
    BY <1>0, <1>a DEF Answer, Idle, Request
  <1>g. ASSUME NEW at, at \notin RequestSteps, Goto(w, at)
        PROVE  req'[w].at \notin RequestSteps
    <2>0. ServiceTypeOK /\ Goto(w, at)
      BY <1>0, <1>g
    <2>1. req'[w].at = at
      BY <2>0, GotoElsewhere
    <2> QED BY <1>g, <2>1
  <1>b. ASSUME NEW at, at \notin RequestSteps, NEW u, NEW c,
               req' = [req EXCEPT ![w] = Request(at, u, c)]
        PROVE  req'[w].at \notin RequestSteps
    BY <1>0, <1>b DEF Request
  <1>1. CASE Refuse(w) \/ DeleteTestUsers(w) \/ UserCrash(w)
    BY <1>1, <1>a DEF Refuse, DeleteTestUsers, UserCrash, Crash
  <1>2. CASE UpdateUser(w) \/ UserDetails(w) \/ CompleteRegister(w) \/ AdminRequest(w)
    BY <1>2, <1>b DEF UpdateUser, UserDetails, CompleteRegister, AdminRequest, Begin
  <1>3. CASE Register(w)
    <2>1. \E u, c : req' = [req EXCEPT ![w] = Request("register_signal", u, c)]
      BY <1>3 DEF Register, Begin
    <2> QED BY <1>b, <2>1
  <1>4. CASE UpdateLoad(w) \/ ToggleLoad(w) \/ DestroyLoad(w)
    BY <1>4, <1>a, <1>b DEF UpdateLoad, ToggleLoad, DestroyLoad, Load
  <1>5. CASE UpdateSave(w) \/ CompleteSave(w) \/ RegisterFlag(w)
    <2>1. \/ \E x : Answer(w, x)
          \/ \E at \in {"update_profile", "update_signal", "complete_profile",
                        "complete_signal", "register_resignal"} : Goto(w, at)
      BY <1>5, SaveGoes, SignalSequence DEF UpdateSave, CompleteSave, RegisterFlag
    <2> QED BY <1>a, <1>g, <2>1
  <1>6. CASE UpdateProfile(w) \/ CompleteProfile(w)
    <2>1. ASSUME NEW to \in NestedSteps,
                 req' = [req EXCEPT ![w] = [@ EXCEPT !.at = to,
                                                     !.profile = profiles[req[w].user]]]
          PROVE  req'[w].at \notin RequestSteps
      <3>1. UserRequestOK(req[w])
        BY <1>0, <1>6, HandlerKinds
        DEF UpdateProfile, CompleteProfile, NestedRead, UserSteps
      <3> QED BY <1>0, <2>1, <3>1 DEF UserRequestOK, NestedSteps
    <2>2. \/ (\E x : Answer(w, x)) \/ Goto(w, "complete_fetch")
          \/ \E to \in NestedSteps :
               req' = [req EXCEPT ![w] = [@ EXCEPT !.at = to,
                                                   !.profile = profiles[req[w].user]]]
      BY <1>6 DEF UpdateProfile, CompleteProfile, NestedRead, NestedSteps
    <2> QED BY <1>a, <1>g, <2>1, <2>2
  <1>7. CASE \/ UpdateNested(w) \/ CompleteNested(w) \/ CompleteCheck(w)
             \/ CompleteFetch(w) \/ CompleteWrite(w) \/ ToggleSave(w) \/ Destroy(w)
    BY <1>7, <1>a, <1>g
    DEF UpdateNested, CompleteNested, CompleteCheck, CompleteFetch, CompleteWrite,
        ToggleSave, Destroy, ProfileSave
  <1>8. CASE UserSignal(w)
    <2>1. req[w].at = "register_signal"
      BY <1>0, <1>8 DEF UserSignal, Stands, SignalSteps
    <2> QED BY <1>8, <1>a, <1>g, <2>1, SignalGoes, SignalSequence DEF UserSignal
  <1> QED
    BY <1>1, <1>2, <1>3, <1>4, <1>5, <1>6, <1>7, <1>8 DEF UserStart, UserStep

LEMMA MailBegins == ServiceInit => \A w \in Workers : MailKnown(w)
  BY DEF ServiceInit, UserInit, MailKnown, Idle, Request, RequestSteps, At

(* How a recovery request gets from statement to statement: it does not    *)
(* turn back, no statement of it can fail, and it ends in a mail.          *)
MailWay(w) ==
  /\ At(w, "request_exists") =>
       \/ At(w, "request_get")' /\ TokensOf(req[w].user) /= {}
       \/ At(w, "request_create")'
  /\ At(w, "request_get") => At(w, "request_delete")'
  /\ At(w, "request_delete") => At(w, "request_create")'
  /\ At(w, "request_create") => At(w, "request_mail")'
  /\ At(w, "request_mail") => At(w, "idle")' /\ reply'[w] = "mailed"

LEMMA MailGoesOn ==
  ASSUME ~ MailFails, SerialInv, NEW w \in Workers, MailKnown(w), RecoveryStep(w),
         req[w].at \in RequestSteps, DOMAIN reply = Workers
  PROVE  /\ MailWay(w)
         /\ users' = users
         /\ req'[w].at \in RequestSteps => req'[w].user = req[w].user
         /\ At(w, "request_exists") => tokens' = tokens
  <1> USE DEF At
  <1>0. w \in DOMAIN req
    BY SerialHandler DEF ServiceTypeOK
  <1>1. ASSUME NEW x, Answer(w, x)
        PROVE  req'[w].at = "idle" /\ reply'[w] = x
    BY <1>0, <1>1 DEF Answer, Idle, Request
  <1>2. ASSUME NEW at, Goto(w, at)
        PROVE  req'[w].at = at /\ req'[w].user = req[w].user
    BY <1>2, GotoElsewhere, SerialHandler
  <1>3. ASSUME NEW at, NEW t, GotoHolding(w, at, t)
        PROVE  req'[w].at = at /\ req'[w].user = req[w].user
    BY <1>0, <1>3 DEF GotoHolding
  <1>4. CASE RequestExists(w)
    BY <1>2, <1>4 DEF RequestExists, MailWay, tables
  <1>5. CASE RequestGet(w)
    <2>1. PICK r \in TokensOf(req[w].user) : TRUE
      BY <1>5 DEF MailKnown, RequestGet
    <2>2. TokensOf(req[w].user) = {r}
      BY <2>1 DEF SerialInv, Tidy, TokensOf
    <2> QED BY <1>3, <1>5, <2>1, <2>2 DEF RequestGet, MailWay, tables
  <1>6. CASE RequestDelete(w)
    BY <1>3, <1>6 DEF RequestDelete, MailWay
  <1>7. CASE RequestCreate(w)
    BY <1>3, <1>7 DEF RequestCreate, MailWay, MailKnown, RequestSteps
  <1>8. CASE RequestMail(w)
    BY <1>1, <1>8 DEF RequestMail, MailWay, tables, RequestSteps
  <1> QED
    BY <1>4, <1>5, <1>6, <1>7, <1>8
    DEF RecoveryStep, ConfirmToken, ConfirmSave, ConfirmSignal, ConfirmDelete,
        RequestSteps

LEMMA OthersKeepAway ==
  ASSUME SerialInv, NEW w \in Workers,
         \/ CheckToken(w) \/ ConfirmUser(w) \/ ChangePassword(w) \/ ChangeStep(w)
         \/ RecoveryStep(w) /\ req[w].at \notin RequestSteps
  PROVE  req'[w].at \notin RequestSteps
  <1> USE DEF RequestSteps
  <1>0. ServiceTypeOK /\ w \in DOMAIN req /\ Stands(w)
    BY SerialHandler DEF ServiceTypeOK
  <1>a. ASSUME NEW x, Answer(w, x) PROVE req'[w].at \notin RequestSteps
    BY <1>0, <1>a DEF Answer, Idle, Request
  <1>b. ASSUME NEW at, at \notin RequestSteps, NEW u, NEW c, Begin(w, at, u, c)
        PROVE  req'[w].at \notin RequestSteps
    BY <1>0, <1>b DEF Begin, Request
  <1>h. ASSUME NEW at, at \notin RequestSteps, NEW t, GotoHolding(w, at, t)
        PROVE  req'[w].at \notin RequestSteps
    BY <1>0, <1>h DEF GotoHolding
  <1>1. CASE CheckToken(w) \/ ConfirmUser(w)
    BY <1>1, <1>a, <1>b DEF CheckToken, ConfirmUser
  <1>2. CASE ChangePassword(w)
    BY <1>2, <1>a, <1>b DEF ChangePassword
  <1>3. CASE ChangeStep(w)
    <2>1. req[w].user \in DOMAIN users \/ ~ ChangeSave(w)
      BY SerialCopy DEF ChangeSave, At, SaveSteps
    <2> QED BY <1>0, <1>3, <1>a, <2>1
            DEF ChangeStep, ChangeSave, ChangeSignal, SaveUser, Stands, SignalSteps, At
  <1>4. CASE ConfirmToken(w) \/ ConfirmDelete(w)
    BY <1>4, <1>a, <1>h DEF ConfirmToken, ConfirmDelete
  <1>5. CASE ConfirmSave(w)
    <2>1. \/ Answer(w, "ok") \/ Goto(w, "confirm_delete") \/ Goto(w, "confirm_signal")
      BY <1>5, SaveGoes, SignalSequence DEF ConfirmSave, At
    <2>2. ASSUME NEW at, at \notin RequestSteps, Goto(w, at)
          PROVE  req'[w].at \notin RequestSteps
      <3>1. req'[w].at = at
        BY <1>0, <2>2, GotoElsewhere
      <3> QED BY <2>2, <3>1
    <2> QED BY <1>a, <2>1, <2>2
  <1>6. CASE ConfirmSignal(w)
    BY <1>0, <1>6 DEF ConfirmSignal, Stands, SignalSteps, At
  <1>7. CASE RecoveryStep(w) /\ req[w].at \notin RequestSteps
    BY <1>4, <1>5, <1>6, <1>7
    DEF RecoveryStep, RequestExists, RequestGet, RequestDelete, RequestCreate,
        RequestMail, At
  <1> QED BY <1>1, <1>2, <1>3, <1>7

(* No action takes a worker's reply out of the table of replies.           *)
LEMMA RepliesKept ==
  ASSUME [ServiceNext]_serviceVars
  PROVE  DOMAIN reply' = DOMAIN reply
  <1>a. ASSUME NEW w, NEW x, Answer(w, x) PROVE DOMAIN reply' = DOMAIN reply
    BY <1>a DEF Answer
  <1>b. ASSUME NEW w, NEW at, NEW u, NEW c, Begin(w, at, u, c)
        PROVE  DOMAIN reply' = DOMAIN reply
    BY <1>b DEF Begin
  <1>g. ASSUME NEW w, NEW at, Goto(w, at) PROVE DOMAIN reply' = DOMAIN reply
    BY <1>g DEF Goto
  <1>h. ASSUME NEW w, NEW at, NEW t, GotoHolding(w, at, t)
        PROVE DOMAIN reply' = DOMAIN reply
    BY <1>h DEF GotoHolding
  <1>s. ASSUME NEW w, NEW row, NEW next, SaveUser(w, row, next)
        PROVE  DOMAIN reply' = DOMAIN reply
    BY <1>s, <1>a, <1>g DEF SaveUser
  <1>c. ASSUME NEW w, CreateProfile(w) PROVE DOMAIN reply' = DOMAIN reply
    BY <1>c, <1>a, <1>g DEF CreateProfile
  <1>1. CASE UNCHANGED serviceVars \/ Tick
    BY <1>1 DEF serviceVars, Tick, accountVars
  <1>2. ASSUME NEW w \in Workers, RequestToken(w) \/ CheckToken(w) \/ ConfirmUser(w)
        PROVE  DOMAIN reply' = DOMAIN reply
    BY <1>2, <1>a, <1>b DEF RequestToken, CheckToken, ConfirmUser
  <1>3. ASSUME NEW w \in Workers, RecoveryStep(w) PROVE DOMAIN reply' = DOMAIN reply
    BY <1>3, <1>a, <1>g, <1>h, <1>s, <1>c
    DEF RecoveryStep, RequestExists, RequestGet, RequestDelete, RequestCreate,
        RequestMail, ConfirmToken, ConfirmSave, ConfirmSignal, ConfirmDelete
  <1>4. ASSUME NEW w \in Workers, ChangePassword(w) \/ ChangeStep(w)
        PROVE  DOMAIN reply' = DOMAIN reply
    <2>1. CASE ChangePassword(w)
      <3>1. \/ Answer(w, "rejected") \/ \E at, u, c : Begin(w, at, u, c)
        BY <2>1 DEF ChangePassword
      <3> QED BY <3>1, <1>a, <1>b
    <2> QED BY <1>4, <1>s, <1>c, <2>1 DEF ChangeStep, ChangeSave, ChangeSignal
  <1>5. ASSUME NEW w \in Workers, UserStart(w) \/ UserCrash(w)
        PROVE  DOMAIN reply' = DOMAIN reply
    <2>1. CASE Register(w)
      BY <2>1 DEF Register, Begin
    <2>2. CASE \/ Refuse(w) \/ UpdateUser(w) \/ UserDetails(w) \/ CompleteRegister(w) \/ AdminRequest(w)
               \/ DeleteTestUsers(w) \/ UserCrash(w)
      BY <2>2, <1>a, <1>b
      DEF Refuse, UpdateUser, UserDetails, CompleteRegister, AdminRequest, DeleteTestUsers,
          UserCrash, Crash
    <2> QED BY <1>5, <2>1, <2>2 DEF UserStart
  <1>6. ASSUME NEW w \in Workers, UserStep(w) PROVE DOMAIN reply' = DOMAIN reply
    <2>1. CASE UpdateLoad(w) \/ ToggleLoad(w) \/ DestroyLoad(w)
      BY <2>1, <1>a DEF UpdateLoad, ToggleLoad, DestroyLoad, Load
    <2>2. CASE UpdateSave(w) \/ CompleteSave(w) \/ RegisterFlag(w) \/ UserSignal(w)
      <3>1. CASE UserSignal(w)
        BY <3>1, <1>c DEF UserSignal
      <3>2. CASE UpdateSave(w) \/ CompleteSave(w) \/ RegisterFlag(w)
        <4>1. \/ Answer(w, "rejected") \/ \E row, next : SaveUser(w, row, next)
          BY <3>2 DEF UpdateSave, CompleteSave, RegisterFlag
        <4> QED BY <4>1, <1>a, <1>s
      <3> QED BY <2>2, <3>1, <3>2
    <2>3. CASE \/ UpdateProfile(w) \/ CompleteProfile(w) \/ UpdateNested(w)
               \/ CompleteNested(w) \/ CompleteWrite(w)
      BY <2>3, <1>a, <1>g
      DEF UpdateProfile, CompleteProfile, UpdateNested, CompleteNested, CompleteWrite,
          NestedRead, ProfileSave
    <2>4. CASE CompleteCheck(w) \/ CompleteFetch(w) \/ ToggleSave(w) \/ Destroy(w)
      BY <2>4, <1>a, <1>g DEF CompleteCheck, CompleteFetch, ToggleSave, Destroy
    <2> QED BY <1>6, <2>1, <2>2, <2>3, <2>4 DEF UserStep
  <1> QED
    BY <1>1, <1>2, <1>3, <1>4, <1>5, <1>6 DEF ServiceNext, UserNext, ServiceStep

LEMMA RepliesStay == ServiceSpec => [](DOMAIN reply = Workers)
  <1>1. ServiceInit => DOMAIN reply = Workers
    BY DEF ServiceInit, UserInit
  <1>2. DOMAIN reply = Workers /\ [ServiceNext]_serviceVars => (DOMAIN reply = Workers)'
    BY RepliesKept
  <1> QED BY <1>1, <1>2, PTL DEF ServiceSpec

MailInv == SerialInv /\ DOMAIN reply = Workers /\ \A w \in Workers : MailKnown(w)

LEMMA MailKnownKept ==
  ASSUME OneWorker, ~ MailFails, MailInv, [ServiceNext]_serviceVars, NEW w \in Workers
  PROVE  MailKnown(w)'
  <1>0. \A v \in Workers : v = w
    BY DEF OneWorker
  <1>1. CASE UNCHANGED serviceVars \/ Tick
    BY <1>1 DEF serviceVars, Tick, accountVars, MailInv, MailKnown, At, TokensOf
  <1>2. CASE RequestToken(w)
    BY <1>2 DEF RequestToken, Begin, Answer, Idle, Request, RequestSteps, MailInv,
                MailKnown, At, tables, SerialInv, ServiceInv, ServiceTypeOK
  <1>3. CASE RecoveryStep(w) /\ req[w].at \in RequestSteps
    <2>1. /\ MailWay(w) /\ users' = users
          /\ req'[w].at \in RequestSteps => req'[w].user = req[w].user
          /\ At(w, "request_exists") => tokens' = tokens
      BY <1>3, MailGoesOn DEF MailInv
    <2> QED BY <1>3, <2>1 DEF MailInv, MailKnown, MailWay, RequestSteps, At, TokensOf
  <1>4. CASE \/ CheckToken(w) \/ ConfirmUser(w) \/ ChangePassword(w) \/ ChangeStep(w)
             \/ RecoveryStep(w) /\ req[w].at \notin RequestSteps
             \/ UserStart(w) \/ UserStep(w) \/ UserCrash(w)
    <2>1. req'[w].at \notin RequestSteps
      BY <1>4, OthersKeepAway, UserKeepsAway DEF MailInv
    <2> QED BY <2>1 DEF MailKnown, RequestSteps, At
  <1> QED
    BY <1>0, <1>1, <1>2, <1>3, <1>4 DEF ServiceNext, UserNext

(* The mail has gone out, or the worker was killed before it could.        *)
Mailed(w) == reply[w] \in {"mailed", "lost"}

(* What the theorem takes from ENABLED: a statement of a recovery request  *)
(* can be executed.                                                        *)
RequestsCanRun ==
  \A w \in Workers :
    req[w].at \in RequestSteps => ENABLED <<ServiceStep(w)>>_serviceVars

LEMMA MailStep ==
  ASSUME ~ MailFails, MailInv, NEW w \in Workers, ServiceStep(w),
         req[w].at \in RequestSteps
  PROVE  MailWay(w)
  <1>1. ~ UserStep(w)
    BY DEF UserStep, UpdateLoad, ToggleLoad, DestroyLoad, Load, UpdateSave, UpdateProfile,
           UpdateNested, CompleteCheck, CompleteSave, CompleteProfile, CompleteNested,
           CompleteFetch, CompleteWrite, NestedRead, ToggleSave, Destroy, RegisterFlag,
           UserSignal, At, RequestSteps
  <1>2. ~ ChangeStep(w)
    BY DEF ChangeStep, ChangeSave, ChangeSignal, At, RequestSteps
  <1> QED BY <1>1, <1>2, MailGoesOn DEF ServiceStep, MailInv

LEMMA MailStage ==
  ASSUME OneWorker, ~ MailFails, MailInv, NEW w \in Workers, [ServiceNext]_serviceVars,
         NEW at \in RequestSteps, At(w, at)
  PROVE  At(w, at)' \/ MailWay(w) \/ Mailed(w)'
  <1>0. DOMAIN reply = Workers /\ ~ At(w, "idle")
    BY DEF MailInv, At, RequestSteps
  <1>1. CASE UNCHANGED <<users, profiles, tokens, req, reply>>
    BY <1>1 DEF At
  <1>2. CASE UserCrash(w)
    BY <1>0, <1>2 DEF UserCrash, Crash, Answer, Mailed
  <1>3. CASE ServiceStep(w)
    BY <1>3, MailStep DEF At
  <1> QED BY <1>0, <1>1, <1>2, <1>3, OwnStep

(* views.py:66-107.  With one worker that goes on and a mail server that   *)
(* takes every message, the request of an existing account ends in a mail  *)
(* with the new token, unless its worker is killed: no statement of it     *)
(* finds a row missing or a row too many.                                  *)
THEOREM MailsArrive ==
  ASSUME OneWorker, ~ MailFails
  PROVE  FairServiceSpec /\ []RequestsCanRun => MailArrives
  <1> SUFFICES ASSUME NEW w \in Workers
               PROVE  FairServiceSpec /\ []RequestsCanRun
                        => (At(w, "request_exists") ~> Mailed(w))
    BY DEF MailArrives, Mailed
  <1>1. FairServiceSpec => ServiceSpec /\ Serves(w)
    BY DEF FairServiceSpec
  <1>2. ServiceSpec => []MailInv
    <2>1. ServiceInit => \A v \in Workers : MailKnown(v)
      BY MailBegins
    <2>2. MailInv /\ [ServiceNext]_serviceVars
            => (\A v \in Workers : MailKnown(v))'
      BY MailKnownKept
    <2>3. MailInv <=> SerialInv /\ DOMAIN reply = Workers /\ \A v \in Workers : MailKnown(v)
      BY DEF MailInv
    <2> QED BY <2>1, <2>2, <2>3, SerialAlways, RepliesStay, PTL DEF ServiceSpec
  <1>3. RequestsCanRun
          /\ \/ At(w, "request_exists") \/ At(w, "request_get") \/ At(w, "request_delete")
             \/ At(w, "request_create") \/ At(w, "request_mail")
          => ENABLED <<ServiceStep(w)>>_serviceVars
    BY DEF RequestsCanRun, At, RequestSteps
  <1>4. MailInv /\ [ServiceNext]_serviceVars
          => /\ At(w, "request_exists")
                  => \/ At(w, "request_exists")' \/ At(w, "request_get")'
                     \/ At(w, "request_create")' \/ Mailed(w)'
             /\ At(w, "request_get")
                  => At(w, "request_get")' \/ At(w, "request_delete")' \/ Mailed(w)'
             /\ At(w, "request_delete")
                  => At(w, "request_delete")' \/ At(w, "request_create")' \/ Mailed(w)'
             /\ At(w, "request_create")
                  => At(w, "request_create")' \/ At(w, "request_mail")' \/ Mailed(w)'
             /\ At(w, "request_mail") => At(w, "request_mail")' \/ Mailed(w)'
    BY MailStage DEF MailWay, RequestSteps, Mailed
  <1>5. MailInv /\ <<ServiceStep(w)>>_serviceVars
          => /\ At(w, "request_exists") => At(w, "request_get")' \/ At(w, "request_create")'
             /\ At(w, "request_get") => At(w, "request_delete")'
             /\ At(w, "request_delete") => At(w, "request_create")'
             /\ At(w, "request_create") => At(w, "request_mail")'
             /\ At(w, "request_mail") => Mailed(w)'
    BY MailStep DEF MailWay, RequestSteps, Mailed, At
  <1> QED
    BY <1>1, <1>2, <1>3, <1>4, <1>5, PTL
    DEF Serves, ServiceSpec

-----------------------------------------------------------------------------
(* A completion that has its profile to complete, and how it ends.         *)
Completing(w, u, at) == At(w, at) /\ req[w].user = u /\ u \in DOMAIN profiles

Finished(w, u) ==
  \/ u \in DOMAIN profiles /\ profiles[u]
  \/ reply[w] \in {"rejected", "lost"}

CompletionSteps == {"complete_check", "complete_save", "complete_profile",
                    "complete_nested", "complete_fetch", "complete_write"}

(* What the theorem takes from ENABLED: a statement of a completion can be *)
(* executed.                                                               *)
CompletionsCanRun ==
  \A w \in Workers :
    req[w].at \in CompletionSteps => ENABLED <<ServiceStep(w)>>_serviceVars

(* From statement to statement: a completion may be refused, and ends with *)
(* the flag set.                                                           *)
CompletionWay(w, u) ==
  /\ Completing(w, u, "complete_check") =>
       Completing(w, u, "complete_save")' \/ Finished(w, u)'
  /\ Completing(w, u, "complete_save") =>
       Completing(w, u, "complete_profile")' \/ Finished(w, u)'
  /\ Completing(w, u, "complete_profile") =>
       Completing(w, u, "complete_nested")' \/ Completing(w, u, "complete_fetch")'
  /\ Completing(w, u, "complete_nested") => Completing(w, u, "complete_fetch")'
  /\ Completing(w, u, "complete_fetch") => Completing(w, u, "complete_write")'
  /\ Completing(w, u, "complete_write") => Finished(w, u)'

LEMMA CompletionGoesOn ==
  ASSUME SerialInv, NEW w \in Workers, NEW u \in Users, UserStep(w),
         DOMAIN reply = Workers, NEW at \in CompletionSteps, Completing(w, u, at)
  PROVE  CompletionWay(w, u)
  <1> USE DEF At
  <1>0. /\ w \in DOMAIN req /\ req[w].user = u /\ u \in DOMAIN profiles /\ req[w].at = at
        /\ ServiceTypeOK /\ u \in DOMAIN users
    BY SerialHandler DEF ServiceTypeOK, Completing, SerialInv, Tidy
  <1>1. ASSUME NEW x, Answer(w, x) PROVE reply'[w] = x
    BY <1>0, <1>1 DEF Answer
  <1>2. ASSUME NEW to, Goto(w, to) PROVE req'[w].at = to /\ req'[w].user = u
    BY <1>0, <1>2, GotoElsewhere
  <1>3. CASE CompleteCheck(w)
    BY <1>0, <1>1, <1>2, <1>3 DEF CompleteCheck, CompletionWay, Completing, Finished, tables
  <1>4. CASE CompleteSave(w)
    <2>1. \/ Answer(w, "rejected")
          \/ Goto(w, "complete_profile") /\ UNCHANGED profiles
      BY <1>0, <1>4 DEF CompleteSave, SaveUser
    <2> QED
      BY <1>0, <1>1, <1>2, <1>4, <2>1 DEF CompleteSave, CompletionWay, Completing, Finished
  <1>5. CASE CompleteProfile(w)
    <2>1. UserRequestOK(req[w])
      BY <1>0, <1>5, SerialHandler, HandlerKinds
      DEF CompleteProfile, NestedRead, UserSteps
    <2>2. /\ profiles' = profiles
          /\ \/ Goto(w, "complete_fetch")
             \/ req'[w].at = "complete_nested" /\ req'[w].user = u
      BY <1>0, <1>5, <2>1 DEF CompleteProfile, NestedRead, UserRequestOK
    <2> QED
      BY <1>0, <1>2, <1>5, <2>2 DEF CompleteProfile, NestedRead, CompletionWay, Completing
  <1>6. CASE CompleteNested(w)
    BY <1>0, <1>2, <1>6 DEF CompleteNested, ProfileSave, CompletionWay, Completing
  <1>7. CASE CompleteFetch(w)
    BY <1>0, <1>2, <1>7 DEF CompleteFetch, CompletionWay, Completing, tables
  <1>8. CASE CompleteWrite(w)
    BY <1>0, <1>8 DEF CompleteWrite, ProfileSave, CompletionWay, Completing, Finished
  <1> QED
    BY <1>0, <1>3, <1>4, <1>5, <1>6, <1>7, <1>8
    DEF CompletionSteps, UserStep, UpdateLoad, ToggleLoad, DestroyLoad, Load, UpdateSave,
        UpdateProfile, UpdateNested, NestedRead, ToggleSave, Destroy, RegisterFlag,
        UserSignal

LEMMA CompletionStep ==
  ASSUME SerialInv, NEW w \in Workers, NEW u \in Users, ServiceStep(w),
         DOMAIN reply = Workers, NEW at \in CompletionSteps, Completing(w, u, at)
  PROVE  CompletionWay(w, u)
  <1>1. ~ RecoveryStep(w) /\ ~ ChangeStep(w)
    BY DEF RecoveryStep, RequestExists, RequestGet, RequestDelete, RequestCreate,
           RequestMail, ConfirmToken, ConfirmSave, ConfirmSignal, ConfirmDelete,
           ChangeStep, ChangeSave, ChangeSignal, Completing, At, CompletionSteps
  <1> QED BY <1>1, CompletionGoesOn DEF ServiceStep

LEMMA CompletionStage ==
  ASSUME OneWorker, SerialInv, NEW w \in Workers, NEW u \in Users,
         DOMAIN reply = Workers, [ServiceNext]_serviceVars,
         NEW at \in CompletionSteps, Completing(w, u, at)
  PROVE  Completing(w, u, at)' \/ CompletionWay(w, u) \/ Finished(w, u)'
  <1>0. ~ At(w, "idle")
    BY DEF Completing, At, CompletionSteps
  <1>1. CASE UNCHANGED <<users, profiles, tokens, req, reply>>
    BY <1>1 DEF Completing, At
  <1>2. CASE UserCrash(w)
    BY <1>0, <1>2 DEF UserCrash, Crash, Answer, Finished
  <1>3. CASE ServiceStep(w)
    BY <1>3, CompletionStep
  <1> QED BY <1>0, <1>1, <1>2, <1>3, OwnStep

(* users/views.py:130-151.  With one worker that goes on, the completion   *)
(* of a registration is either refused or takes effect, unless the worker  *)
(* is killed, whatever calls before it were cut short: none of its         *)
(* statements ends in a 500, and none answers 200 without the flag.        *)
THEOREM CompletionsArrive ==
  ASSUME OneWorker
  PROVE  FairServiceSpec /\ []CompletionsCanRun => CompletionArrives
  <1> SUFFICES ASSUME NEW w \in Workers, NEW u \in Users
               PROVE  FairServiceSpec /\ []CompletionsCanRun
                        => (Completing(w, u, "complete_check") ~> Finished(w, u))
    BY DEF CompletionArrives, Completing, Finished
  <1>1. FairServiceSpec => ServiceSpec /\ Serves(w)
    BY DEF FairServiceSpec
  <1>2. CompletionsCanRun
          /\ \/ Completing(w, u, "complete_check") \/ Completing(w, u, "complete_save")
             \/ Completing(w, u, "complete_profile") \/ Completing(w, u, "complete_nested")
             \/ Completing(w, u, "complete_fetch") \/ Completing(w, u, "complete_write")
          => ENABLED <<ServiceStep(w)>>_serviceVars
    BY DEF CompletionsCanRun, CompletionSteps, Completing, At
  <1>3. SerialInv /\ DOMAIN reply = Workers /\ [ServiceNext]_serviceVars
          => /\ Completing(w, u, "complete_check")
                  => \/ Completing(w, u, "complete_check")'
                     \/ Completing(w, u, "complete_save")' \/ Finished(w, u)'
             /\ Completing(w, u, "complete_save")
                  => \/ Completing(w, u, "complete_save")'
                     \/ Completing(w, u, "complete_profile")' \/ Finished(w, u)'
             /\ Completing(w, u, "complete_profile")
                  => \/ Completing(w, u, "complete_profile")'
                     \/ Completing(w, u, "complete_nested")'
                     \/ Completing(w, u, "complete_fetch")' \/ Finished(w, u)'
             /\ Completing(w, u, "complete_nested")
                  => \/ Completing(w, u, "complete_nested")'
                     \/ Completing(w, u, "complete_fetch")' \/ Finished(w, u)'
             /\ Completing(w, u, "complete_fetch")
                  => \/ Completing(w, u, "complete_fetch")'
                     \/ Completing(w, u, "complete_write")' \/ Finished(w, u)'
             /\ Completing(w, u, "complete_write")
                  => Completing(w, u, "complete_write")' \/ Finished(w, u)'
    BY CompletionStage DEF CompletionWay, CompletionSteps
  <1>4. SerialInv /\ DOMAIN reply = Workers /\ <<ServiceStep(w)>>_serviceVars
          => /\ Completing(w, u, "complete_check")
                  => Completing(w, u, "complete_save")' \/ Finished(w, u)'
             /\ Completing(w, u, "complete_save")
                  => Completing(w, u, "complete_profile")' \/ Finished(w, u)'
             /\ Completing(w, u, "complete_profile")
                  => \/ Completing(w, u, "complete_nested")'
                     \/ Completing(w, u, "complete_fetch")'
             /\ Completing(w, u, "complete_nested") => Completing(w, u, "complete_fetch")'
             /\ Completing(w, u, "complete_fetch") => Completing(w, u, "complete_write")'
             /\ Completing(w, u, "complete_write") => Finished(w, u)'
    BY CompletionStep DEF CompletionWay, CompletionSteps
  <1> QED
    BY <1>1, <1>2, <1>3, <1>4, SerialAlways, RepliesStay, PTL
    DEF Serves, ServiceSpec
=============================================================================
