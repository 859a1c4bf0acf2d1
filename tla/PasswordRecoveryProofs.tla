----------------------- MODULE PasswordRecoveryProofs -----------------------
(***************************************************************************)
(* What PasswordRecovery guarantees for every number of accounts, workers  *)
(* and tokens, proved from the specification.                              *)
(***************************************************************************)
EXTENDS PasswordRecovery, FiniteSetTheorems, TLAPS

(* Replacing one worker's request by a well-formed one keeps them all so.  *)
LEMMA RequestReplaced ==
  ASSUME NEW w \in Workers, NEW r, RequestOK(r),
         DOMAIN req = Workers, \A v \in Workers : RequestOK(req[v]),
         req' = [req EXCEPT ![w] = r]
  PROVE  /\ DOMAIN req' = Workers
         /\ req'[w] = r
         /\ \A v \in Workers : RequestOK(req'[v])
         /\ \A v \in Workers : v /= w => req'[v] = req[v]
  BY DEF RequestOK

LEMMA IdleOK == RequestOK(Idle)
  BY DEF RequestOK, Request, Idle, ConfirmSteps, RequestSteps, TokenHeld

(* The two ways a handler goes on: it ends, or it changes what it holds.   *)
LEMMA AnswerOK ==
  ASSUME TypeOK, NEW w \in Workers, NEW r \in Replies, Answer(w, r)
  PROVE  /\ DOMAIN req' = Workers /\ \A v \in Workers : RequestOK(req'[v])
         /\ req'[w] = Idle
         /\ \A v \in Workers : v /= w => req'[v] = req[v]
         /\ reply' \in [Workers -> Replies]
  <1>1. req' = [req EXCEPT ![w] = Idle]
    BY DEF Answer
  <1>2. reply' \in [Workers -> Replies]
    BY DEF Answer, TypeOK
  <1> QED BY <1>1, <1>2, IdleOK, RequestReplaced DEF TypeOK

LEMMA GotoOK ==
  ASSUME TypeOK, NEW w \in Workers, NEW at, Goto(w, at),
         RequestOK([req[w] EXCEPT !.at = at])
  PROVE  /\ DOMAIN req' = Workers /\ \A v \in Workers : RequestOK(req'[v])
         /\ req'[w] = [req[w] EXCEPT !.at = at]
         /\ \A v \in Workers : v /= w => req'[v] = req[v]
         /\ reply' \in [Workers -> Replies]
  <1>1. req' = [req EXCEPT ![w] = [req[w] EXCEPT !.at = at]]
    BY DEF Goto
  <1>2. reply' \in [Workers -> Replies]
    BY DEF Goto, TypeOK
  <1> QED BY <1>1, <1>2, RequestReplaced DEF TypeOK

LEMMA BeginOK ==
  ASSUME TypeOK, NEW w \in Workers, NEW at, NEW u, NEW c, Begin(w, at, u, c),
         RequestOK(Request(at, u, c))
  PROVE  /\ DOMAIN req' = Workers /\ \A v \in Workers : RequestOK(req'[v])
         /\ req'[w] = Request(at, u, c)
         /\ \A v \in Workers : v /= w => req'[v] = req[v]
         /\ reply' \in [Workers -> Replies]
  <1>1. req' = [req EXCEPT ![w] = Request(at, u, c)]
    BY DEF Begin
  <1>2. reply' \in [Workers -> Replies]
    BY DEF Begin, TypeOK, Replies
  <1> QED BY <1>1, <1>2, RequestReplaced DEF TypeOK

LEMMA GotoHoldingOK ==
  ASSUME TypeOK, NEW w \in Workers, NEW at, NEW t, GotoHolding(w, at, t),
         RequestOK([at |-> at, user |-> req[w].user, copy |-> req[w].copy,
                    token |-> t, profile |-> req[w].profile])
  PROVE  /\ DOMAIN req' = Workers /\ \A v \in Workers : RequestOK(req'[v])
         /\ req'[w].at = at /\ req'[w].token = t
         /\ req'[w].user = req[w].user /\ req'[w].copy = req[w].copy
         /\ \A v \in Workers : v /= w => req'[v] = req[v]
         /\ reply' \in [Workers -> Replies]
  <1> DEFINE r == [at |-> at, user |-> req[w].user, copy |-> req[w].copy,
                   token |-> t, profile |-> req[w].profile]
  <1>1. req' = [req EXCEPT ![w] = r]
    BY DEF GotoHolding
  <1>2. reply' \in [Workers -> Replies]
    BY DEF GotoHolding, TypeOK
  <1>3. /\ req'[w] = r /\ DOMAIN req' = Workers
        /\ \A v \in Workers : RequestOK(req'[v])
        /\ \A v \in Workers : v /= w => req'[v] = req[v]
    BY <1>1, RequestReplaced DEF TypeOK
  <1> QED BY <1>2, <1>3

-----------------------------------------------------------------------------
(* A statement of worker w changes the request of w only, and leaves it    *)
(* holding what its next statement needs.                                  *)
RequestsTyped(w) ==
  /\ DOMAIN req' = Workers /\ \A v \in Workers : RequestOK(req'[v])
  /\ \A v \in Workers : v /= w => req'[v] = req[v]
  /\ reply' \in [Workers -> Replies]

(* The tables and the counters, as TypeOK types them.                      *)
TablesTyped ==
  /\ DOMAIN users \subseteq Users /\ users \in [DOMAIN users -> UserRow]
  /\ DOMAIN profiles \subseteq Users
  /\ profiles \in [DOMAIN profiles -> BOOLEAN]
  /\ tokens \subseteq TokenRow
  /\ now \in Nat /\ drawn \in Nat
  /\ spent \subseteq Nat \X Workers

LEMMA RequestTokenTypes ==
  ASSUME TypeOK, NEW w \in Workers, RequestToken(w)
  PROVE  RequestsTyped(w)
  <1> PICK u \in Users :
        \/ /\ u \in DOMAIN users
           /\ Begin(w, "request_exists", u, None)
        \/ /\ At(w, "idle")
           /\ Answer(w, "swallowed")
    BY DEF RequestToken
  <1>1. RequestOK(Request("request_exists", u, None))
    BY DEF RequestOK, Request, RequestSteps, ConfirmSteps, TokenHeld
  <1> QED BY <1>1, BeginOK, AnswerOK DEF RequestsTyped, Replies

LEMMA RequestExistsTypes ==
  ASSUME TypeOK, NEW w \in Workers, RequestExists(w)
  PROVE  RequestsTyped(w)
  <1> DEFINE at == IF TokensOf(req[w].user) /= {} THEN "request_get"
                                                 ELSE "request_create"
  <1>1. RequestOK([req[w] EXCEPT !.at = at])
    BY DEF TypeOK, RequestOK, RequestExists, At, RequestSteps, ConfirmSteps, TokenHeld
  <1>2. Goto(w, at)
    BY DEF RequestExists
  <1> QED BY <1>1, <1>2, GotoOK DEF RequestsTyped

LEMMA RequestGetTypes ==
  ASSUME TypeOK, NEW w \in Workers, RequestGet(w)
  PROVE  RequestsTyped(w)
  <1>1. CASE Answer(w, "swallowed")
    BY <1>1, AnswerOK DEF RequestsTyped, Replies
  <1>2. ASSUME NEW r \in TokensOf(req[w].user), GotoHolding(w, "request_delete", r)
        PROVE  RequestsTyped(w)
    <2>1. RequestOK([at |-> "request_delete", user |-> req[w].user,
                     copy |-> req[w].copy, token |-> r, profile |-> req[w].profile])
      BY DEF TypeOK, RequestOK, RequestGet, At, RequestSteps, ConfirmSteps,
             TokenHeld, TokensOf
    <2> QED BY <1>2, <2>1, GotoHoldingOK DEF RequestsTyped
  <1> QED BY <1>1, <1>2 DEF RequestGet

LEMMA RequestDeleteTypes ==
  ASSUME TypeOK, NEW w \in Workers, RequestDelete(w)
  PROVE  RequestsTyped(w)
  <1>1. RequestOK([at |-> "request_create", user |-> req[w].user,
                   copy |-> req[w].copy, token |-> None, profile |-> req[w].profile])
    BY DEF TypeOK, RequestOK, RequestDelete, At, RequestSteps, ConfirmSteps, TokenHeld
  <1> QED BY <1>1, GotoHoldingOK DEF RequestsTyped, RequestDelete

(* The row that recovery_send_mail inserts.                                *)
NewToken(w) ==
  [pk |-> drawn + 1, user |-> req[w].user, created_at |-> now, maker |-> w]

LEMMA NewTokenTyped ==
  ASSUME TypeOK, NEW w \in Workers, At(w, "request_create")
  PROVE  NewToken(w) \in TokenRow /\ req[w].user \in Users
  <1>1. req[w].user \in Users
    BY DEF TypeOK, RequestOK, At
  <1>2. drawn + 1 \in Nat /\ now \in Nat
    BY DEF TypeOK
  <1> QED BY <1>1, <1>2 DEF TokenRow, NewToken

LEMMA RequestCreateTypes ==
  ASSUME TypeOK, NEW w \in Workers, RequestCreate(w)
  PROVE  RequestsTyped(w)
  <1>1. CASE Answer(w, "swallowed")
    BY <1>1, AnswerOK DEF RequestsTyped, Replies
  <1>2. CASE GotoHolding(w, "request_mail", NewToken(w))
    <2>1. NewToken(w) \in TokenRow /\ NewToken(w).user = req[w].user
      BY NewTokenTyped DEF RequestCreate, NewToken
    <2>2. RequestOK([at |-> "request_mail", user |-> req[w].user,
                     copy |-> req[w].copy, token |-> NewToken(w),
                     profile |-> req[w].profile])
      BY <2>1 DEF TypeOK, RequestOK, RequestCreate, At, RequestSteps,
                  ConfirmSteps, TokenHeld
    <2> QED BY <1>2, <2>2, GotoHoldingOK DEF RequestsTyped
  <1> QED BY <1>1, <1>2 DEF RequestCreate, NewToken

LEMMA ConfirmUserTypes ==
  ASSUME TypeOK, NEW w \in Workers, ConfirmUser(w)
  PROVE  RequestsTyped(w)
  <1> PICK u \in Users :
        \/ /\ u \in DOMAIN users
           /\ Begin(w, "confirm_token", u, users[u])
        \/ /\ At(w, "idle")
           /\ Answer(w, "rejected")
    BY DEF ConfirmUser
  <1>1. CASE u \in DOMAIN users /\ Begin(w, "confirm_token", u, users[u])
    <2>1. users[u] \in UserRow
      BY <1>1 DEF TypeOK
    <2>2. RequestOK(Request("confirm_token", u, users[u]))
      BY <2>1 DEF RequestOK, Request, RequestSteps, ConfirmSteps, TokenHeld
    <2> QED BY <1>1, <2>2, BeginOK DEF RequestsTyped
  <1> QED BY <1>1, AnswerOK DEF RequestsTyped, Replies

LEMMA ConfirmTokenTypes ==
  ASSUME TypeOK, NEW w \in Workers, ConfirmToken(w)
  PROVE  RequestsTyped(w)
  <1>1. CASE Answer(w, "rejected")
    BY <1>1, AnswerOK DEF RequestsTyped, Replies
  <1>2. ASSUME NEW r \in tokens, Valid(r, req[w].user),
               GotoHolding(w, "confirm_save", r)
        PROVE  RequestsTyped(w)
    <2>1. RequestOK([at |-> "confirm_save", user |-> req[w].user,
                     copy |-> req[w].copy, token |-> r, profile |-> req[w].profile])
      BY <1>2 DEF TypeOK, RequestOK, ConfirmToken, At, RequestSteps,
                  ConfirmSteps, TokenHeld, Valid
    <2> QED BY <1>2, <2>1, GotoHoldingOK DEF RequestsTyped
  <1> QED BY <1>1, <1>2 DEF ConfirmToken

(* The row a confirmation writes: the instance with another password.      *)
SavedRow(w) == [req[w].copy EXCEPT !.password = req[w].token.pk]

LEMMA SavedRowTyped ==
  ASSUME TypeOK, NEW w \in Workers, At(w, "confirm_save")
  PROVE  SavedRow(w) \in UserRow /\ req[w].user \in Users
  <1>1. req[w].copy \in UserRow /\ req[w].token \in TokenRow /\ req[w].user \in Users
    BY DEF TypeOK, RequestOK, At, ConfirmSteps, TokenHeld
  <1> QED BY <1>1 DEF SavedRow, UserRow, TokenRow

LEMMA ConfirmSaveTypes ==
  ASSUME TypeOK, NEW w \in Workers, ConfirmSave(w)
  PROVE  RequestsTyped(w)
  <1>1. \/ Goto(w, "confirm_delete") \/ Goto(w, "confirm_signal")
    BY DEF ConfirmSave, SaveUser, SignalOf, At
  <1>2. /\ RequestOK([req[w] EXCEPT !.at = "confirm_delete"])
        /\ RequestOK([req[w] EXCEPT !.at = "confirm_signal"])
    BY DEF TypeOK, RequestOK, ConfirmSave, At, RequestSteps, ConfirmSteps, TokenHeld
  <1> QED BY <1>1, <1>2, GotoOK DEF RequestsTyped

LEMMA ConfirmSignalGoes ==
  ASSUME NEW w \in Workers, ConfirmSignal(w)
  PROVE  Goto(w, "confirm_delete") \/ Answer(w, "error")
  <1>1. AfterSignal[req[w].at] = "confirm_delete"
    BY DEF ConfirmSignal, At, AfterSignal
  <1> QED BY <1>1 DEF ConfirmSignal, CreateProfile

LEMMA ConfirmSignalTypes ==
  ASSUME TypeOK, NEW w \in Workers, ConfirmSignal(w)
  PROVE  RequestsTyped(w)
  <1>1. \/ Goto(w, "confirm_delete") \/ Answer(w, "error")
    BY ConfirmSignalGoes
  <1>2. RequestOK([req[w] EXCEPT !.at = "confirm_delete"])
    BY DEF TypeOK, RequestOK, ConfirmSignal, At, RequestSteps, ConfirmSteps, TokenHeld
  <1> QED BY <1>1, <1>2, GotoOK, AnswerOK DEF RequestsTyped, Replies

(* The statements that only end the request.                               *)
LEMMA AnswerTypes ==
  ASSUME TypeOK, NEW w \in Workers,
         RequestMail(w) \/ CheckToken(w) \/ ConfirmDelete(w) \/ RecoveryCrash(w)
  PROVE  RequestsTyped(w)
  <1>1. \E r \in Replies : Answer(w, r)
    BY DEF RequestMail, CheckToken, ConfirmDelete, RecoveryCrash, Crash, Replies
  <1> QED BY <1>1, AnswerOK DEF RequestsTyped

-----------------------------------------------------------------------------
(* The tables stay typed.                                                  *)
LEMMA TablesStep ==
  ASSUME TypeOK, RecoveryNext
  PROVE  TablesTyped'
  <1> USE DEF TablesTyped
  <1>1. ASSUME UNCHANGED <<tables, recoveryVars>> PROVE TablesTyped'
    BY <1>1 DEF TypeOK, tables, recoveryVars
  <1>2. ASSUME NEW w \in Workers, RequestDelete(w) PROVE TablesTyped'
    BY <1>2 DEF RequestDelete, TypeOK, recoveryVars
  <1>3. ASSUME NEW w \in Workers, RequestCreate(w) PROVE TablesTyped'
    <2>1. NewToken(w) \in TokenRow
      BY <1>3, NewTokenTyped DEF RequestCreate
    <2>2. tokens' = tokens \/ tokens' = tokens \cup {NewToken(w)}
      BY <1>3 DEF RequestCreate, NewToken
    <2> QED BY <1>3, <2>1, <2>2 DEF RequestCreate, TypeOK
  <1>4. ASSUME NEW w \in Workers, ConfirmSave(w) PROVE TablesTyped'
    <2>1. SavedRow(w) \in UserRow /\ req[w].user \in Users
      BY <1>4, SavedRowTyped DEF ConfirmSave
    <2>2. DOMAIN users' \subseteq Users /\ users' \in [DOMAIN users' -> UserRow]
      BY <1>4, <2>1 DEF ConfirmSave, SaveUser, SavedRow, TypeOK
    <2>3. req[w].token.pk \in Nat
      BY <1>4 DEF ConfirmSave, At, TypeOK, RequestOK, TokenHeld, TokenRow
    <2>4. spent' \subseteq Nat \X Workers
      BY <1>4, <2>3 DEF ConfirmSave, TypeOK
    <2> QED BY <1>4, <2>2, <2>4 DEF ConfirmSave, SaveUser, TypeOK
  <1>5. ASSUME NEW w \in Workers, ConfirmSignal(w) PROVE TablesTyped'
    BY <1>5 DEF ConfirmSignal, CreateProfile, TypeOK, recoveryVars
  <1>6. ASSUME NEW w \in Workers, ConfirmDelete(w) PROVE TablesTyped'
    BY <1>6 DEF ConfirmDelete, TypeOK, recoveryVars
  <1>7. ASSUME Tick PROVE TablesTyped'
    BY <1>7 DEF Tick, TypeOK, accountVars
  <1>8. ASSUME NEW u \in Users, AccountDeleted(u) PROVE TablesTyped'
    BY <1>8 DEF AccountDeleted, DeleteUsers, TypeOK, recoveryVars
  <1> QED
    BY <1>1, <1>2, <1>3, <1>4, <1>5, <1>6, <1>7, <1>8
    DEF RecoveryNext, RecoveryStep, RequestToken, RequestExists, RequestGet,
        RequestMail, CheckToken, ConfirmUser, ConfirmToken, RecoveryCrash, Crash

LEMMA TypeStep ==
  ASSUME TypeOK, RecoveryNext
  PROVE  TypeOK'
  <1>1. TablesTyped'
    BY TablesStep
  <1>2. /\ DOMAIN req' = Workers /\ \A v \in Workers : RequestOK(req'[v])
        /\ reply' \in [Workers -> Replies]
    <2>1. CASE Tick \/ \E u \in Users : AccountDeleted(u)
      BY <2>1 DEF Tick, AccountDeleted, TypeOK, accountVars
    <2>2. CASE \E w \in Workers : RequestsTyped(w)
      BY <2>2 DEF RequestsTyped
    <2> QED
      BY <2>1, <2>2, RequestTokenTypes, RequestExistsTypes, RequestGetTypes,
         RequestDeleteTypes, RequestCreateTypes, ConfirmUserTypes,
         ConfirmTokenTypes, ConfirmSaveTypes, ConfirmSignalTypes, AnswerTypes
      DEF RecoveryNext, RecoveryStep
  <1> QED BY <1>1, <1>2 DEF TypeOK, TablesTyped, RequestOK

LEMMA TypeInit == Init => TypeOK
  <1> SUFFICES ASSUME Init PROVE TypeOK
    OBVIOUS
  <1>1. DOMAIN users \subseteq Users /\ users \in [DOMAIN users -> UserRow]
    BY DEF Init, UserRow
  <1>2. DOMAIN profiles \subseteq Users /\ profiles \in [DOMAIN profiles -> BOOLEAN]
    BY DEF Init
  <1>3. DOMAIN req = Workers /\ \A w \in Workers : RequestOK(req[w])
    BY IdleOK DEF Init
  <1> QED BY <1>1, <1>2, <1>3 DEF Init, TypeOK, Replies

(* Every state of a run has well-typed tables and requests.                *)
THEOREM TypeCorrect == Spec => []TypeOK
  <1>1. TypeOK /\ UNCHANGED vars => TypeOK'
    BY DEF TypeOK, vars, RequestOK
  <1> QED BY <1>1, TypeInit, TypeStep, PTL DEF Spec

-----------------------------------------------------------------------------
(* Two rows of an account from one worker: the strengthening that makes    *)
(* OneTokenPerMaker inductive.  A worker about to insert has no row of its *)
(* own there: either exists() saw none at all, or get() saw one only and   *)
(* the worker deleted it; what others insert in the meantime is not its    *)
(* own.                                                                    *)
NoOwnRowAtCreate ==
  \A w \in Workers : At(w, "request_create") =>
    \A r \in tokens : r.user = req[w].user => r.maker /= w

OwnRowHeldAtDelete ==
  \A w \in Workers : At(w, "request_delete") =>
    \A r \in tokens : r.user = req[w].user /\ r.maker = w => r = req[w].token

MakersInv == OneTokenPerMaker /\ NoOwnRowAtCreate /\ OwnRowHeldAtDelete

(* Steps that insert nothing and bring no worker to the two statements.    *)
LEMMA MakersFrame ==
  ASSUME MakersInv, tokens' \subseteq tokens,
         \A v \in Workers :
           req'[v].at \in {"request_create", "request_delete"} => req'[v] = req[v]
  PROVE  MakersInv'
  BY DEF MakersInv, OneTokenPerMaker, NoOwnRowAtCreate, OwnRowHeldAtDelete, At

LEMMA MakersStep ==
  ASSUME TypeOK, MakersInv, RecoveryNext
  PROVE  MakersInv'
  <1> USE DEF MakersInv, OneTokenPerMaker, NoOwnRowAtCreate, OwnRowHeldAtDelete
  <1>1. ASSUME NEW w \in Workers, RequestExists(w) PROVE MakersInv'
    <2>1. /\ At(w, "request_exists") /\ tokens' = tokens
          /\ Goto(w, IF TokensOf(req[w].user) /= {} THEN "request_get"
                                                    ELSE "request_create")
      BY <1>1 DEF RequestExists, tables
    <2>2. \A v \in Workers : v /= w => req'[v] = req[v]
      BY <1>1, RequestExistsTypes DEF RequestsTyped
    <2>3. CASE TokensOf(req[w].user) /= {}
      BY <2>1, <2>2, <2>3 DEF Goto, At, TypeOK
    <2>4. CASE TokensOf(req[w].user) = {}
      <3>1. \A r \in tokens : r.user /= req[w].user
        BY <2>4 DEF TokensOf
      <3>2. req'[w].user = req[w].user /\ req'[w].at = "request_create"
        BY <2>1, <2>4 DEF Goto, TypeOK, RequestOK
      <3> QED BY <2>1, <2>2, <3>1, <3>2 DEF At
    <2> QED BY <2>3, <2>4
  <1>2. ASSUME NEW w \in Workers, RequestGet(w) PROVE MakersInv'
    <2>1. tokens' = tokens /\ \A v \in Workers : v /= w => req'[v] = req[v]
      BY <1>2, RequestGetTypes DEF RequestGet, RequestsTyped, tables
    <2>2. CASE Answer(w, "swallowed")
      BY <2>1, <2>2 DEF Answer, Idle, Request, TypeOK, At
    <2>3. ASSUME NEW r \in tokens, TokensOf(req[w].user) = {r},
                 GotoHolding(w, "request_delete", r)
          PROVE  MakersInv'
      <3>1. /\ req'[w].at = "request_delete" /\ req'[w].token = r
            /\ req'[w].user = req[w].user
        BY <2>3 DEF GotoHolding, TypeOK
      <3>2. \A s \in tokens : s.user = req[w].user => s = r
        BY <2>3 DEF TokensOf
      <3> QED BY <2>1, <3>1, <3>2 DEF At
    <2> QED BY <1>2, <2>2, <2>3 DEF RequestGet, TokensOf
  <1>3. ASSUME NEW w \in Workers, RequestDelete(w) PROVE MakersInv'
    <2>1. /\ tokens' = tokens \ {req[w].token} /\ At(w, "request_delete")
          /\ \A v \in Workers : v /= w => req'[v] = req[v]
      BY <1>3, RequestDeleteTypes DEF RequestDelete, RequestsTyped
    <2>2. req'[w].at = "request_create" /\ req'[w].user = req[w].user
      BY <1>3 DEF RequestDelete, GotoHolding, TypeOK
    <2>3. \A r \in tokens' : r.user = req[w].user => r.maker /= w
      BY <2>1
    <2> QED BY <2>1, <2>2, <2>3 DEF At
  <1>4. ASSUME NEW w \in Workers, RequestCreate(w) PROVE MakersInv'
    <2>1. /\ At(w, "request_create")
          /\ tokens' = tokens \/ tokens' = tokens \cup {NewToken(w)}
          /\ \A v \in Workers : v /= w => req'[v] = req[v]
      BY <1>4, RequestCreateTypes DEF RequestCreate, RequestsTyped, NewToken
    <2>2. req'[w].at \notin {"request_create", "request_delete"}
      BY <1>4 DEF RequestCreate, GotoHolding, Answer, Idle, Request, TypeOK
    <2>3. NewToken(w).maker = w /\ NewToken(w).user = req[w].user
      BY DEF NewToken
    <2> QED BY <2>1, <2>2, <2>3 DEF At
  <1>5. ASSUME NEW w \in Workers, RequestToken(w) \/ CheckToken(w) \/ ConfirmUser(w)
        PROVE  MakersInv'
    <2>1. /\ tokens' = tokens
          /\ \A v \in Workers : v /= w => req'[v] = req[v]
      BY <1>5, RequestTokenTypes, ConfirmUserTypes, AnswerTypes
      DEF RequestToken, CheckToken, ConfirmUser, RequestsTyped, tables
    <2>2. req'[w].at \notin {"request_create", "request_delete"}
      BY <1>5 DEF RequestToken, CheckToken, ConfirmUser, Begin, Answer, Idle,
                  Request, TypeOK
    <2> QED BY <2>1, <2>2, MakersFrame
  <1>6. ASSUME NEW w \in Workers,
               \/ RequestMail(w) \/ ConfirmToken(w) \/ ConfirmSave(w)
               \/ ConfirmSignal(w) \/ ConfirmDelete(w) \/ RecoveryCrash(w)
        PROVE  MakersInv'
    <2>1. /\ tokens' \subseteq tokens
          /\ \A v \in Workers : v /= w => req'[v] = req[v]
      BY <1>6, AnswerTypes, ConfirmTokenTypes, ConfirmSaveTypes, ConfirmSignalTypes
      DEF RequestMail, ConfirmToken, ConfirmSave, SaveUser, ConfirmSignal,
          CreateProfile, ConfirmDelete, RecoveryCrash, Crash, RequestsTyped, tables
    <2>2. req'[w].at \notin {"request_create", "request_delete"}
      <3>1. CASE RequestMail(w) \/ ConfirmToken(w) \/ ConfirmDelete(w) \/ RecoveryCrash(w)
        BY <3>1 DEF RequestMail, ConfirmToken, ConfirmDelete, RecoveryCrash, Crash,
                    Answer, GotoHolding, Idle, Request, TypeOK
      <3>2. CASE ConfirmSave(w)
        BY <3>2 DEF ConfirmSave, SaveUser, Goto, SignalOf, At, TypeOK, RequestOK
      <3>3. CASE ConfirmSignal(w)
        <4>1. Goto(w, "confirm_delete") \/ Answer(w, "error")
          BY <3>3, ConfirmSignalGoes
        <4> QED BY <4>1 DEF Goto, Answer, Idle, Request, TypeOK, RequestOK
      <3> QED BY <1>6, <3>1, <3>2, <3>3
    <2> QED BY <2>1, <2>2, MakersFrame
  <1>7. ASSUME Tick PROVE MakersInv'
    BY <1>7 DEF Tick, accountVars, At
  <1>8. ASSUME NEW u \in Users, AccountDeleted(u) PROVE MakersInv'
    BY <1>8, MakersFrame DEF AccountDeleted, DeleteUsers
  <1> QED
    BY <1>1, <1>2, <1>3, <1>4, <1>5, <1>6, <1>7, <1>8
    DEF RecoveryNext, RecoveryStep

LEMMA MakersInit == Init => MakersInv
  BY DEF Init, MakersInv, OneTokenPerMaker, NoOwnRowAtCreate,
         OwnRowHeldAtDelete, At, Idle, Request

LEMMA MakersStutter == MakersInv /\ UNCHANGED vars => MakersInv'
  BY DEF vars, MakersInv, OneTokenPerMaker, NoOwnRowAtCreate,
         OwnRowHeldAtDelete, At

(* However requests interleave and whichever workers are killed in one,    *)
(* two live tokens of an account come from two different workers.          *)
THEOREM MakersApart == Spec => []OneTokenPerMaker
  <1>1. MakersInv => OneTokenPerMaker
    BY DEF MakersInv
  <1> QED
    BY <1>1, TypeCorrect, MakersInit, MakersStep, MakersStutter, PTL DEF Spec

(* Rows that all come from different workers are no more than the workers. *)
LEMMA RowsInjectToMakers ==
  ASSUME TypeOK, OneTokenPerMaker, NEW u \in Users
  PROVE  Cardinality(TokensOf(u)) <= Cardinality(Workers)
  <1> DEFINE maker == [r \in TokensOf(u) |-> r.maker]
  <1>1. \A r \in TokensOf(u) : r.maker \in Workers
    BY DEF TypeOK, TokenRow, TokensOf
  <1>2. \A r, s \in TokensOf(u) : maker[r] = maker[s] => r = s
    BY DEF OneTokenPerMaker, TokensOf
  <1>3. maker \in Injection(TokensOf(u), Workers)
    BY <1>1, <1>2 DEF Injection, IsInjective
  <1> QED BY <1>3, FS_Injection, WorkersAssumption

(* An account never has more live tokens than there are workers, although  *)
(* nothing in the code or the schema limits them.                          *)
THEOREM LiveTokensBounded == Spec => []TokensBounded
  <1>1. TypeOK /\ OneTokenPerMaker => TokensBounded
    BY RowsInjectToMakers DEF TokensBounded
  <1> QED BY <1>1, TypeCorrect, MakersApart, PTL

-----------------------------------------------------------------------------
(* A wedged account stays wedged: get(user=user) finds several rows and    *)
(* raises, a confirmation finds no valid one, and what other accounts do   *)
(* touches other rows.                                                     *)
WedgeSteps == {"request_exists", "request_get", "request_mail", "confirm_token"}

LEMMA WedgeFrame ==
  ASSUME NEW u \in Users, Wedged(u), now' = now,
         \A r : r.user = u => (r \in tokens <=> r \in tokens'),
         \A w \in Workers : req'[w].user = u => req'[w].at \in WedgeSteps
  PROVE  Wedged(u)'
  <1>1. TokensOf(u)' = TokensOf(u)
    BY DEF TokensOf
  <1>2. \A r : Valid(r, u)' <=> Valid(r, u)
    BY DEF Valid
  <1> QED BY <1>1, <1>2 DEF Wedged, WedgeSteps

LEMMA WedgeStep ==
  ASSUME TypeOK, RecoveryNext, NEW u \in Users, Wedged(u), u \in DOMAIN users'
  PROVE  Wedged(u)'
  <1> DEFINE Unmoved == \A r : r.user = u => (r \in tokens <=> r \in tokens')
  <1>1. /\ \A w \in Workers : req[w].user = u => req[w].at \in WedgeSteps
        /\ \E r, s \in TokensOf(u) : r /= s
        /\ \A r \in TokensOf(u) : ~ Valid(r, u)
    BY DEF Wedged, WedgeSteps
  <1>2. None /= u
    BY NoneAssumption
  <1>3. ASSUME NEW w \in Workers, RequestsTyped(w), now' = now, Unmoved,
               req'[w].user = u => req'[w].at \in WedgeSteps
        PROVE  Wedged(u)'
    <2>1. \A v \in Workers : req'[v].user = u => req'[v].at \in WedgeSteps
      BY <1>1, <1>3 DEF RequestsTyped
    <2> QED BY <1>3, <2>1, WedgeFrame
  <1>4. ASSUME NEW w \in Workers, NEW r, Answer(w, r)
        PROVE  req'[w].user = u => req'[w].at \in WedgeSteps
    BY <1>2, <1>4 DEF Answer, Idle, Request, TypeOK
  <1>5. ASSUME NEW w \in Workers, RequestToken(w) \/ CheckToken(w) \/ ConfirmUser(w)
        PROVE  Wedged(u)'
    <2>1. now' = now /\ Unmoved
      BY <1>5 DEF RequestToken, CheckToken, ConfirmUser, tables, recoveryVars
    <2>2. req'[w].user = u => req'[w].at \in WedgeSteps
      <3>1. CASE \E r : Answer(w, r)
        BY <3>1, <1>4
      <3>2. CASE \E v, c : Begin(w, "request_exists", v, c)
        BY <3>2 DEF Begin, Request, TypeOK, WedgeSteps
      <3>3. CASE \E v, c : Begin(w, "confirm_token", v, c)
        BY <3>3 DEF Begin, Request, TypeOK, WedgeSteps
      <3> QED BY <1>5, <3>1, <3>2, <3>3 DEF RequestToken, CheckToken, ConfirmUser
    <2> QED
      BY <1>3, <1>5, <2>1, <2>2, RequestTokenTypes, ConfirmUserTypes, AnswerTypes
  <1>6. ASSUME NEW w \in Workers, RequestExists(w) PROVE Wedged(u)'
    <2>1. now' = now /\ Unmoved
      BY <1>6 DEF RequestExists, tables, recoveryVars
    <2>2. ASSUME req[w].user = u PROVE TokensOf(req[w].user) /= {}
      BY <1>1, <2>2
    <2>3. req'[w].user = u => req'[w].at \in WedgeSteps
      BY <1>6, <2>2 DEF RequestExists, Goto, TypeOK, RequestOK, WedgeSteps
    <2> QED BY <1>3, <1>6, <2>1, <2>3, RequestExistsTypes
  <1>7. ASSUME NEW w \in Workers, RequestGet(w) PROVE Wedged(u)'
    <2>1. now' = now /\ Unmoved
      BY <1>7 DEF RequestGet, tables, recoveryVars
    <2>2. CASE Answer(w, "swallowed")
      BY <1>3, <1>4, <1>7, <2>1, <2>2, RequestGetTypes
    <2>3. CASE \E r \in TokensOf(req[w].user) :
                 TokensOf(req[w].user) = {r} /\ GotoHolding(w, "request_delete", r)
      <3>1. req[w].user /= u
        BY <1>1, <2>3
      <3>2. req'[w].user = req[w].user
        BY <2>3 DEF GotoHolding, TypeOK
      <3> QED BY <1>3, <1>7, <2>1, <3>1, <3>2, RequestGetTypes
    <2> QED BY <1>7, <2>2, <2>3 DEF RequestGet
  <1>8. ASSUME NEW w \in Workers, At(w, "request_delete") \/ At(w, "confirm_delete")
               \/ At(w, "request_create") \/ At(w, "confirm_save")
               \/ At(w, "confirm_signal")
        PROVE  req[w].user /= u
    BY <1>1, <1>8 DEF At, WedgeSteps
  <1>9. ASSUME NEW w \in Workers, RequestDelete(w) PROVE Wedged(u)'
    <2>1. req[w].user /= u /\ req[w].token.user = req[w].user
      BY <1>8, <1>9 DEF RequestDelete, At, TypeOK, RequestOK, TokenHeld
    <2>2. now' = now /\ Unmoved
      BY <1>9, <2>1 DEF RequestDelete, recoveryVars
    <2>3. req'[w].user = req[w].user
      BY <1>9 DEF RequestDelete, GotoHolding, TypeOK
    <2> QED BY <1>3, <1>9, <2>1, <2>2, <2>3, RequestDeleteTypes
  <1>10. ASSUME NEW w \in Workers, RequestCreate(w) PROVE Wedged(u)'
    <2>1. req[w].user /= u /\ NewToken(w).user = req[w].user
      BY <1>8, <1>10 DEF RequestCreate, NewToken
    <2>2. tokens' = tokens \/ tokens' = tokens \cup {NewToken(w)}
      BY <1>10 DEF RequestCreate, NewToken
    <2>3. now' = now /\ Unmoved
      BY <1>10, <2>1, <2>2 DEF RequestCreate
    <2>4. req'[w].user /= u
      BY <1>2, <1>10, <2>1 DEF RequestCreate, GotoHolding, Answer, Idle, Request, TypeOK
    <2> QED BY <1>3, <1>10, <2>3, <2>4, RequestCreateTypes
  <1>11. ASSUME NEW w \in Workers, ConfirmToken(w) PROVE Wedged(u)'
    <2>1. now' = now /\ Unmoved
      BY <1>11 DEF ConfirmToken, tables, recoveryVars
    <2>2. CASE Answer(w, "rejected")
      BY <1>3, <1>4, <1>11, <2>1, <2>2, ConfirmTokenTypes
    <2>3. CASE \E r \in tokens : Valid(r, req[w].user)
                                 /\ GotoHolding(w, "confirm_save", r)
      <3>1. req[w].user /= u
        BY <1>1, <2>3 DEF Valid, TokensOf
      <3>2. req'[w].user = req[w].user
        BY <2>3 DEF GotoHolding, TypeOK
      <3> QED BY <1>3, <1>11, <2>1, <3>1, <3>2, ConfirmTokenTypes
    <2> QED BY <1>11, <2>2, <2>3 DEF ConfirmToken
  <1>12. ASSUME NEW w \in Workers, ConfirmSave(w) PROVE Wedged(u)'
    <2>1. now' = now /\ Unmoved
      BY <1>12 DEF ConfirmSave, SaveUser
    <2>2. req[w].user /= u
      BY <1>8, <1>12 DEF ConfirmSave
    <2>3. Goto(w, "confirm_delete") \/ Goto(w, "confirm_signal")
      BY <1>12 DEF ConfirmSave, SaveUser, SignalOf, At
    <2>4. req'[w].user = req[w].user
      BY <2>3 DEF Goto, TypeOK, RequestOK
    <2> QED BY <1>3, <1>12, <2>1, <2>2, <2>4, ConfirmSaveTypes
  <1>13. ASSUME NEW w \in Workers, ConfirmSignal(w) PROVE Wedged(u)'
    <2>1. now' = now /\ Unmoved
      BY <1>13 DEF ConfirmSignal, CreateProfile, recoveryVars
    <2>2. req[w].user /= u
      BY <1>8, <1>13 DEF ConfirmSignal
    <2>3. req'[w].user /= u
      BY <1>2, <1>13, <2>2, ConfirmSignalGoes
      DEF Goto, Answer, Idle, Request, TypeOK, RequestOK
    <2> QED BY <1>3, <1>13, <2>1, <2>3, ConfirmSignalTypes
  <1>14. ASSUME NEW w \in Workers, ConfirmDelete(w) PROVE Wedged(u)'
    <2>1. req[w].user /= u /\ req[w].token.user = req[w].user
      BY <1>8, <1>14 DEF ConfirmDelete, At, TypeOK, RequestOK, TokenHeld
    <2>2. now' = now /\ Unmoved
      BY <1>14, <2>1 DEF ConfirmDelete, recoveryVars
    <2> QED BY <1>3, <1>4, <1>14, <2>2, AnswerTypes DEF ConfirmDelete
  <1>15. ASSUME NEW w \in Workers, RequestMail(w) \/ RecoveryCrash(w)
         PROVE  Wedged(u)'
    <2>1. now' = now /\ Unmoved /\ \E r : Answer(w, r)
      BY <1>15 DEF RequestMail, RecoveryCrash, Crash, tables, recoveryVars
    <2> QED BY <1>3, <1>4, <1>15, <2>1, AnswerTypes
  <1>16. ASSUME Tick PROVE Wedged(u)'
    <2>1. tokens' = tokens /\ req' = req /\ now' = now + 1
      BY <1>16 DEF Tick, accountVars
    <2>2. \A r \in TokensOf(u) : ~ Valid(r, u)'
      BY <1>1, <2>1, BoundsAssumption DEF Valid, TypeOK, TokensOf, TokenRow
    <2> QED BY <1>1, <2>1, <2>2 DEF Wedged, TokensOf, WedgeSteps
  <1>17. ASSUME NEW v \in Users, AccountDeleted(v) PROVE Wedged(u)'
    <2>1. u /= v /\ now' = now /\ req' = req
      BY <1>17 DEF AccountDeleted, DeleteUsers, recoveryVars
    <2>2. Unmoved
      BY <1>17, <2>1 DEF AccountDeleted, DeleteUsers
    <2> QED BY <1>1, <2>1, <2>2, WedgeFrame
  <1> QED
    BY <1>5, <1>6, <1>7, <1>9, <1>10, <1>11, <1>12, <1>13, <1>14, <1>15, <1>16, <1>17
    DEF RecoveryNext, RecoveryStep

(* Once an account has several rows, all expired, and no handler is past   *)
(* the statement that could still remove one, no recovery request ever     *)
(* gets it a usable token again while the account exists.                  *)
THEOREM WedgedForever == Spec => WedgeIsPermanent
  <1>1. TypeOK /\ [RecoveryNext]_vars
          => [\A u \in Users :
                Wedged(u) => Wedged(u)' \/ u \notin DOMAIN users']_vars
    BY WedgeStep
  <1> QED BY <1>1, TypeCorrect, PTL DEF Spec, WedgeIsPermanent

-----------------------------------------------------------------------------
(* A token sets a password at most once per worker.  The strengthening     *)
(* says that keys are unique and never come back, that an instance a       *)
(* handler holds is the row of that key or the row is gone, and that a     *)
(* confirmation which had to re-insert its account no longer has a row.    *)
RowsOwned == \A r \in tokens : r.user \in DOMAIN users

KeysUnique ==
  /\ \A r, s \in tokens : r.pk = s.pk => r = s
  /\ \A r \in tokens : r.pk <= drawn
  /\ \A p \in spent : p[1] <= drawn

HeldIsRow ==
  \A w \in Workers : req[w].at \in TokenHeld =>
    /\ req[w].token.pk <= drawn
    /\ \A r \in tokens : r.pk = req[w].token.pk => r = req[w].token

SignalledGone ==
  \A w \in Workers : At(w, "confirm_signal") =>
    \A r \in tokens : r.pk /= req[w].token.pk

SpentInv ==
  RowsOwned /\ KeysUnique /\ HeldIsRow /\ SignalledGone
  /\ SpentTokenRetired /\ UsedOncePerWorker

(* Steps that insert no row, spend no token and give no worker one.        *)
LEMMA SpentFrame ==
  ASSUME TypeOK, SpentInv, NEW w \in Workers,
         \A v \in Workers : v /= w => req'[v] = req[v],
         tokens' \subseteq tokens, DOMAIN users' = DOMAIN users,
         drawn' = drawn, spent' = spent,
         req'[w].at \notin TokenHeld,
         Crashes \/ ~ At(w, "confirm_delete")
  PROVE  SpentInv'
  <1>1. \A v \in Workers : req'[v].at \in TokenHeld => req'[v] = req[v]
    OBVIOUS
  <1>2. RowsOwned' /\ KeysUnique'
    BY DEF SpentInv, RowsOwned, KeysUnique
  <1>3. HeldIsRow' /\ SignalledGone'
    BY <1>1 DEF SpentInv, HeldIsRow, SignalledGone, At, TokenHeld
  <1>4. SpentTokenRetired'
    <2>1. ASSUME ~ Crashes, NEW p \in spent, NEW r \in tokens', r.pk = p[1]
          PROVE  At(p[2], "confirm_delete")' /\ req'[p[2]].token.pk = p[1]
      <3>1. At(p[2], "confirm_delete") /\ req[p[2]].token.pk = p[1] /\ p[2] \in Workers
        BY <2>1 DEF TypeOK, SpentInv, SpentTokenRetired
      <3> QED BY <2>1, <3>1 DEF At
    <2> QED BY <2>1 DEF SpentTokenRetired
  <1>5. UsedOncePerWorker'
    BY <1>1 DEF SpentInv, UsedOncePerWorker, At, TokenHeld
  <1> QED BY <1>2, <1>3, <1>4, <1>5 DEF SpentInv

(* Steps at which worker w takes hold of a row r that is in the table.     *)
LEMMA SpentHold ==
  ASSUME TypeOK, SpentInv, NEW w \in Workers,
         \A v \in Workers : v /= w => req'[v] = req[v],
         NEW r \in tokens, req'[w].token = r,
         req'[w].at \in {"request_delete", "confirm_save"},
         ~ At(w, "confirm_delete"),
         tokens' = tokens, users' = users, drawn' = drawn, spent' = spent
  PROVE  SpentInv'
  <1>1. RowsOwned' /\ KeysUnique'
    BY DEF SpentInv, RowsOwned, KeysUnique
  <1>2. HeldIsRow'
    BY DEF SpentInv, HeldIsRow, KeysUnique
  <1>3. SignalledGone'
    BY DEF SpentInv, SignalledGone, At
  <1>4. SpentTokenRetired'
    <2>1. ASSUME ~ Crashes, NEW p \in spent, NEW s \in tokens, s.pk = p[1]
          PROVE  At(p[2], "confirm_delete")' /\ req'[p[2]].token.pk = p[1]
      <3>1. At(p[2], "confirm_delete") /\ req[p[2]].token.pk = p[1] /\ p[2] \in Workers
        BY <2>1 DEF TypeOK, SpentInv, SpentTokenRetired
      <3> QED BY <3>1 DEF At
    <2> QED BY <2>1 DEF SpentTokenRetired
  <1>5. UsedOncePerWorker'
    BY DEF SpentInv, SpentTokenRetired, UsedOncePerWorker, At
  <1> QED BY <1>1, <1>2, <1>3, <1>4, <1>5 DEF SpentInv

LEMMA SpentCreate ==
  ASSUME TypeOK, SpentInv, NEW w \in Workers, RequestCreate(w)
  PROVE  SpentInv'
  <1>1. \A v \in Workers : v /= w => req'[v] = req[v]
    BY RequestCreateTypes DEF RequestsTyped
  <1>2. CASE Answer(w, "swallowed")
    <2>1. req'[w].at \notin TokenHeld
      BY <1>2 DEF Answer, Idle, Request, TypeOK, TokenHeld
    <2>2. /\ tokens' \subseteq tokens /\ users' = users
          /\ drawn' = drawn /\ spent' = spent /\ ~ At(w, "confirm_delete")
      BY <1>2 DEF RequestCreate, Answer, Idle, Request, GotoHolding, At, TypeOK
    <2> QED BY <1>1, <2>1, <2>2, SpentFrame
  <1>3. CASE ~ Answer(w, "swallowed")
    <2>1. /\ At(w, "request_create") /\ req[w].user \in DOMAIN users
          /\ tokens' = tokens \cup {NewToken(w)} /\ drawn' = drawn + 1
          /\ GotoHolding(w, "request_mail", NewToken(w))
          /\ users' = users /\ spent' = spent
      BY <1>3 DEF RequestCreate, NewToken
    <2>2. NewToken(w).pk = drawn + 1 /\ NewToken(w).user = req[w].user
      BY DEF NewToken
    <2>3. /\ drawn \in Nat /\ spent \subseteq Nat \X Workers
          /\ \A r \in tokens : r.pk \in Nat
      BY DEF TypeOK, TokenRow
    <2>4. req'[w].at = "request_mail" /\ req'[w].token = NewToken(w)
      BY <2>1 DEF GotoHolding, TypeOK
    <2>5. \A v \in Workers : req[v].at \in TokenHeld => req[v].token.pk \in Nat
      BY DEF TypeOK, RequestOK, TokenRow
    <2>6. RowsOwned'
      BY <2>1, <2>2 DEF SpentInv, RowsOwned
    <2>7. KeysUnique'
      <3>1. \A r \in tokens : r.pk /= drawn + 1 /\ r.pk <= drawn + 1
        BY <2>3 DEF SpentInv, KeysUnique
      <3>2. \A p \in spent : p[1] <= drawn + 1
        BY <2>3 DEF SpentInv, KeysUnique
      <3> QED BY <2>1, <2>2, <2>3, <3>1, <3>2 DEF SpentInv, KeysUnique
    <2>8. HeldIsRow'
      <3>1. ASSUME NEW v \in Workers, v /= w, req'[v].at \in TokenHeld
            PROVE  /\ req'[v].token.pk <= drawn'
                   /\ \A r \in tokens' : r.pk = req'[v].token.pk => r = req'[v].token
        BY <1>1, <2>1, <2>2, <2>3, <2>5, <3>1 DEF SpentInv, HeldIsRow
      <3>2. /\ req'[w].token.pk <= drawn'
            /\ \A r \in tokens' : r.pk = req'[w].token.pk => r = req'[w].token
        BY <2>1, <2>2, <2>3, <2>4 DEF SpentInv, KeysUnique
      <3> QED BY <3>1, <3>2 DEF HeldIsRow
    <2>9. SignalledGone'
      <3>1. ASSUME NEW v \in Workers, At(v, "confirm_signal")'
            PROVE  \A r \in tokens' : r.pk /= req'[v].token.pk
        <4>1. v /= w /\ req'[v] = req[v] /\ At(v, "confirm_signal")
          BY <1>1, <2>4, <3>1 DEF At
        <4>2. req[v].token.pk <= drawn /\ req[v].token.pk \in Nat
          BY <2>5, <4>1 DEF SpentInv, HeldIsRow, At, TokenHeld
        <4> QED BY <2>1, <2>2, <2>3, <4>1, <4>2 DEF SpentInv, SignalledGone
      <3> QED BY <3>1 DEF SignalledGone
    <2>10. SpentTokenRetired'
      <3>1. ASSUME ~ Crashes, NEW p \in spent, NEW r \in tokens', r.pk = p[1]
            PROVE  At(p[2], "confirm_delete")' /\ req'[p[2]].token.pk = p[1]
        <4>1. r \in tokens
          BY <2>1, <2>2, <2>3, <3>1 DEF SpentInv, KeysUnique
        <4>2. At(p[2], "confirm_delete") /\ req[p[2]].token.pk = p[1] /\ p[2] \in Workers
          BY <2>3, <3>1, <4>1 DEF SpentInv, SpentTokenRetired
        <4> QED BY <1>1, <2>1, <4>2 DEF At
      <3> QED BY <2>1, <3>1 DEF SpentTokenRetired
    <2>11. UsedOncePerWorker'
      BY <1>1, <2>1, <2>4 DEF SpentInv, UsedOncePerWorker, At
    <2> QED BY <2>6, <2>7, <2>8, <2>9, <2>10, <2>11 DEF SpentInv
  <1> QED BY <1>2, <1>3

LEMMA SpentSave ==
  ASSUME TypeOK, SpentInv, NEW w \in Workers, ConfirmSave(w)
  PROVE  SpentInv'
  <1> DEFINE pk == req[w].token.pk
  <1>1. /\ tokens' = tokens /\ drawn' = drawn /\ spent' = spent \cup {<<pk, w>>}
        /\ At(w, "confirm_save") /\ DOMAIN users \subseteq DOMAIN users'
    BY DEF ConfirmSave, SaveUser, TypeOK
  <1>2. \A v \in Workers : v /= w => req'[v] = req[v]
    BY ConfirmSaveTypes DEF RequestsTyped
  <1>3. req'[w].token = req[w].token /\ req'[w].at \in {"confirm_delete", "confirm_signal"}
    <2>1. Goto(w, "confirm_delete") \/ Goto(w, "confirm_signal")
      BY DEF ConfirmSave, SaveUser, SignalOf, At
    <2> QED BY <2>1 DEF Goto, TypeOK, RequestOK
  <1>4. \/ req'[w].at = "confirm_delete"
        \/ \A r \in tokens : r.pk /= pk
    <2>1. CASE req[w].user \in DOMAIN users
      BY <2>1 DEF ConfirmSave, SaveUser, Goto, TypeOK, RequestOK
    <2>2. CASE req[w].user \notin DOMAIN users
      <3>1. req[w].token.user = req[w].user
        BY <1>1 DEF TypeOK, RequestOK, At, TokenHeld
      <3>2. \A r \in tokens : r.pk = pk => r = req[w].token
        BY <1>1 DEF SpentInv, HeldIsRow, At, TokenHeld
      <3> QED BY <2>2, <3>1, <3>2 DEF SpentInv, RowsOwned
    <2> QED BY <2>1, <2>2
  <1>5. pk <= drawn
    BY <1>1 DEF SpentInv, HeldIsRow, At, TokenHeld
  <1>6. RowsOwned' /\ KeysUnique'
    BY <1>1, <1>5 DEF SpentInv, RowsOwned, KeysUnique
  <1>7. HeldIsRow'
    BY <1>1, <1>2, <1>3 DEF SpentInv, HeldIsRow, At, TokenHeld
  <1>8. SignalledGone'
    BY <1>1, <1>2, <1>3, <1>4 DEF SpentInv, SignalledGone, At
  <1>9. SpentTokenRetired'
    <2>1. ASSUME ~ Crashes, NEW p \in spent, NEW r \in tokens, r.pk = p[1]
          PROVE  At(p[2], "confirm_delete")' /\ req'[p[2]].token.pk = p[1]
      <3>1. At(p[2], "confirm_delete") /\ req[p[2]].token.pk = p[1] /\ p[2] \in Workers
        BY <2>1 DEF TypeOK, SpentInv, SpentTokenRetired
      <3> QED BY <1>1, <1>2, <3>1 DEF At
    <2>2. ASSUME NEW r \in tokens, r.pk = pk
          PROVE  At(w, "confirm_delete")' /\ req'[w].token.pk = pk
      BY <1>3, <1>4, <2>2 DEF At
    <2> QED BY <1>1, <2>1, <2>2 DEF SpentTokenRetired
  <1>10. UsedOncePerWorker'
    BY <1>1, <1>2, <1>3 DEF SpentInv, UsedOncePerWorker, At
  <1> QED BY <1>6, <1>7, <1>8, <1>9, <1>10 DEF SpentInv

LEMMA SpentSignal ==
  ASSUME TypeOK, SpentInv, NEW w \in Workers, ConfirmSignal(w)
  PROVE  SpentInv'
  <1>1. /\ tokens' = tokens /\ drawn' = drawn /\ spent' = spent
        /\ At(w, "confirm_signal") /\ users' = users
    BY DEF ConfirmSignal, CreateProfile, recoveryVars
  <1>2. \A v \in Workers : v /= w => req'[v] = req[v]
    BY ConfirmSignalTypes DEF RequestsTyped
  <1>3. CASE Answer(w, "error")
    <2>1. req'[w].at \notin TokenHeld
      BY <1>3 DEF Answer, Idle, Request, TypeOK, TokenHeld
    <2> QED BY <1>1, <1>2, <2>1, SpentFrame DEF At
  <1>4. CASE Goto(w, "confirm_delete")
    <2>1. req'[w].token = req[w].token /\ req'[w].at = "confirm_delete"
      BY <1>4 DEF Goto, TypeOK, RequestOK
    <2>2. RowsOwned' /\ KeysUnique' /\ HeldIsRow' /\ SignalledGone'
      BY <1>1, <1>2, <2>1
      DEF SpentInv, RowsOwned, KeysUnique, HeldIsRow, SignalledGone, At, TokenHeld
    <2>3. SpentTokenRetired'
      <3>1. ASSUME ~ Crashes, NEW p \in spent, NEW r \in tokens, r.pk = p[1]
            PROVE  At(p[2], "confirm_delete")' /\ req'[p[2]].token.pk = p[1]
        <4>1. At(p[2], "confirm_delete") /\ req[p[2]].token.pk = p[1] /\ p[2] \in Workers
          BY <3>1 DEF TypeOK, SpentInv, SpentTokenRetired
        <4> QED BY <1>1, <1>2, <4>1 DEF At
      <3> QED BY <1>1, <3>1 DEF SpentTokenRetired
    <2>4. UsedOncePerWorker'
      BY <1>1, <1>2, <2>1 DEF SpentInv, UsedOncePerWorker, At
    <2> QED BY <2>2, <2>3, <2>4 DEF SpentInv
  <1> QED BY <1>3, <1>4, ConfirmSignalGoes

LEMMA SpentDelete ==
  ASSUME TypeOK, SpentInv, NEW w \in Workers, ConfirmDelete(w)
  PROVE  SpentInv'
  <1>1. /\ tokens' = tokens \ {req[w].token} /\ drawn' = drawn /\ spent' = spent
        /\ At(w, "confirm_delete") /\ users' = users
    BY DEF ConfirmDelete, recoveryVars
  <1>2. \A v \in Workers : v /= w => req'[v] = req[v]
    BY AnswerTypes DEF RequestsTyped
  <1>3. req'[w].at = "idle"
    BY DEF ConfirmDelete, Answer, Idle, Request, TypeOK
  <1>4. RowsOwned' /\ KeysUnique' /\ HeldIsRow' /\ SignalledGone'
    BY <1>1, <1>2, <1>3
    DEF SpentInv, RowsOwned, KeysUnique, HeldIsRow, SignalledGone, At, TokenHeld
  <1>5. SpentTokenRetired'
    <2>1. ASSUME ~ Crashes, NEW p \in spent, NEW r \in tokens', r.pk = p[1]
          PROVE  At(p[2], "confirm_delete")' /\ req'[p[2]].token.pk = p[1]
      <3>1. At(p[2], "confirm_delete") /\ req[p[2]].token.pk = p[1] /\ p[2] \in Workers
        BY <1>1, <2>1 DEF TypeOK, SpentInv, SpentTokenRetired
      <3>2. p[2] /= w
        BY <1>1, <2>1, <3>1 DEF SpentInv, HeldIsRow, At, TokenHeld
      <3> QED BY <1>2, <3>1, <3>2 DEF At
    <2> QED BY <1>1, <2>1 DEF SpentTokenRetired
  <1>6. UsedOncePerWorker'
    BY <1>1, <1>2, <1>3 DEF SpentInv, UsedOncePerWorker, At
  <1> QED BY <1>4, <1>5, <1>6 DEF SpentInv

LEMMA SpentStep ==
  ASSUME TypeOK, SpentInv, RecoveryNext
  PROVE  SpentInv'
  <1>1. ASSUME NEW w \in Workers,
               \/ RequestToken(w) \/ CheckToken(w) \/ ConfirmUser(w)
               \/ RequestExists(w) \/ RequestDelete(w) \/ RequestMail(w)
               \/ RecoveryCrash(w)
        PROVE  SpentInv'
    <2>1. \A v \in Workers : v /= w => req'[v] = req[v]
      BY <1>1, RequestTokenTypes, ConfirmUserTypes, RequestExistsTypes,
         RequestDeleteTypes, AnswerTypes DEF RequestsTyped
    <2>2. /\ tokens' \subseteq tokens /\ users' = users
          /\ drawn' = drawn /\ spent' = spent
      BY <1>1 DEF RequestToken, CheckToken, ConfirmUser, RequestExists,
         RequestDelete, RequestMail, RecoveryCrash, Crash, tables, recoveryVars
    <2>3. req'[w].at \notin TokenHeld
      <3>1. CASE RequestToken(w) \/ CheckToken(w) \/ ConfirmUser(w)
        BY <3>1 DEF RequestToken, CheckToken, ConfirmUser, Begin, Answer, Idle,
                    Request, TypeOK, TokenHeld
      <3>2. CASE RequestExists(w)
        BY <3>2 DEF RequestExists, Goto, TypeOK, RequestOK, TokenHeld
      <3>3. CASE RequestDelete(w)
        BY <3>3 DEF RequestDelete, GotoHolding, TypeOK, TokenHeld
      <3>4. CASE RequestMail(w) \/ RecoveryCrash(w)
        BY <3>4 DEF RequestMail, RecoveryCrash, Crash, Answer, Idle, Request,
                    TypeOK, TokenHeld
      <3> QED BY <1>1, <3>1, <3>2, <3>3, <3>4
    <2>4. Crashes \/ ~ At(w, "confirm_delete")
      BY <1>1 DEF RequestToken, CheckToken, ConfirmUser, RequestExists,
         RequestDelete, RequestMail, RecoveryCrash, Crash, Begin, At
    <2> QED BY <2>1, <2>2, <2>3, <2>4, SpentFrame
  <1>2. ASSUME NEW w \in Workers, RequestGet(w) PROVE SpentInv'
    <2>1. \A v \in Workers : v /= w => req'[v] = req[v]
      BY <1>2, RequestGetTypes DEF RequestsTyped
    <2>2. /\ tokens' = tokens /\ users' = users /\ drawn' = drawn /\ spent' = spent
          /\ ~ At(w, "confirm_delete")
      BY <1>2 DEF RequestGet, At, tables, recoveryVars
    <2>3. CASE Answer(w, "swallowed")
      <3>1. req'[w].at \notin TokenHeld
        BY <2>3 DEF Answer, Idle, Request, TypeOK, TokenHeld
      <3> QED BY <2>1, <2>2, <3>1, SpentFrame
    <2>4. ASSUME NEW r \in tokens, GotoHolding(w, "request_delete", r)
          PROVE  SpentInv'
      <3>1. req'[w].at = "request_delete" /\ req'[w].token = r
        BY <2>4 DEF GotoHolding, TypeOK
      <3> QED BY <2>1, <2>2, <3>1, SpentHold
    <2> QED BY <1>2, <2>3, <2>4 DEF RequestGet, TokensOf
  <1>3. ASSUME NEW w \in Workers, ConfirmToken(w) PROVE SpentInv'
    <2>1. \A v \in Workers : v /= w => req'[v] = req[v]
      BY <1>3, ConfirmTokenTypes DEF RequestsTyped
    <2>2. /\ tokens' = tokens /\ users' = users /\ drawn' = drawn /\ spent' = spent
          /\ ~ At(w, "confirm_delete")
      BY <1>3 DEF ConfirmToken, At, tables, recoveryVars
    <2>3. CASE Answer(w, "rejected")
      <3>1. req'[w].at \notin TokenHeld
        BY <2>3 DEF Answer, Idle, Request, TypeOK, TokenHeld
      <3> QED BY <2>1, <2>2, <3>1, SpentFrame
    <2>4. ASSUME NEW r \in tokens, GotoHolding(w, "confirm_save", r)
          PROVE  SpentInv'
      <3>1. req'[w].at = "confirm_save" /\ req'[w].token = r
        BY <2>4 DEF GotoHolding, TypeOK
      <3> QED BY <2>1, <2>2, <3>1, SpentHold
    <2> QED BY <1>3, <2>3, <2>4 DEF ConfirmToken
  <1>4. ASSUME Tick PROVE SpentInv'
    BY <1>4 DEF Tick, accountVars, SpentInv, RowsOwned, KeysUnique, HeldIsRow,
       SignalledGone, SpentTokenRetired, UsedOncePerWorker, At
  <1>5. ASSUME NEW u \in Users, AccountDeleted(u) PROVE SpentInv'
    <2>1. /\ tokens' = {r \in tokens : r.user /= u}
          /\ DOMAIN users' = DOMAIN users \ {u}
          /\ req' = req /\ drawn' = drawn /\ spent' = spent
      BY <1>5 DEF AccountDeleted, DeleteUsers, recoveryVars
    <2> QED
      BY <2>1 DEF SpentInv, RowsOwned, KeysUnique, HeldIsRow, SignalledGone,
         SpentTokenRetired, UsedOncePerWorker, At
  <1> QED
    BY <1>1, <1>2, <1>3, <1>4, <1>5, SpentCreate, SpentSave, SpentSignal, SpentDelete
    DEF RecoveryNext, RecoveryStep

LEMMA SpentInit == Init => SpentInv
  BY DEF Init, SpentInv, RowsOwned, KeysUnique, HeldIsRow, SignalledGone,
         SpentTokenRetired, UsedOncePerWorker, At, Idle, Request, TokenHeld

LEMMA SpentStutter == SpentInv /\ UNCHANGED vars => SpentInv'
  BY DEF vars, SpentInv, RowsOwned, KeysUnique, HeldIsRow, SignalledGone,
         SpentTokenRetired, UsedOncePerWorker, At

LEMMA SpentAlways == Spec => []SpentInv
  BY TypeCorrect, SpentInit, SpentStep, SpentStutter, PTL DEF Spec

(* Without crashes, a token that has set a password through a worker which *)
(* has answered is not in the table any more.                              *)
THEOREM SpentRetired == Spec => []SpentTokenRetired
  <1>1. SpentInv => SpentTokenRetired
    BY DEF SpentInv
  <1> QED BY <1>1, SpentAlways, PTL

(* Without crashes, no worker lets one token set a password twice: the     *)
(* race can use a token again, but only once for every other worker.       *)
THEOREM OneUsePerWorker == Spec => []UsedOncePerWorker
  <1>1. SpentInv => UsedOncePerWorker
    BY DEF SpentInv
  <1> QED BY <1>1, SpentAlways, PTL

-----------------------------------------------------------------------------
(* A token that has set a password through w and is still in the table.    *)
Lingers(pk, w) == <<pk, w>> \in spent /\ \E r \in tokens : r.pk = pk

(* What the proof takes from ENABLED: a DELETE can be executed.            *)
DeletesCanRun ==
  \A w \in Workers : At(w, "confirm_delete") => ENABLED <<RecoveryStep(w)>>_vars

LEMMA SpentStays == Spec => [][spent \subseteq spent']_vars
  <1>1. [RecoveryNext]_vars => spent \subseteq spent'
    <2> SUFFICES ASSUME RecoveryNext PROVE spent \subseteq spent'
      BY DEF vars
    <2> USE DEF recoveryVars
    <2>1. ASSUME NEW w \in Workers, RequestToken(w) \/ CheckToken(w) \/ ConfirmUser(w)
          PROVE  spent' = spent
      BY <2>1 DEF RequestToken, CheckToken, ConfirmUser
    <2>2. ASSUME NEW w \in Workers, RecoveryStep(w) PROVE spent \subseteq spent'
      BY <2>2 DEF RecoveryStep, RequestExists, RequestGet, RequestDelete, RequestCreate,
                  RequestMail, ConfirmToken, ConfirmSave, ConfirmSignal, ConfirmDelete
    <2> QED BY <2>1, <2>2
            DEF RecoveryNext, RecoveryCrash, AccountDeleted, Tick
  <1> QED BY <1>1, PTL DEF Spec

LEMMA DeleteRemoves ==
  ASSUME TypeOK, SpentInv, ~ Crashes, NEW pk, NEW w \in Workers, Lingers(pk, w)
  PROVE  /\ At(w, "confirm_delete")
         /\ RecoveryStep(w) => \A r \in tokens' : r.pk /= pk
  <1>1. At(w, "confirm_delete") /\ req[w].token.pk = pk
    BY DEF Lingers, SpentInv, SpentTokenRetired
  <1>2. \A r \in tokens : r.pk = pk => r = req[w].token
    BY <1>1 DEF SpentInv, HeldIsRow, TokenHeld, At
  <1>3. RecoveryStep(w) => ConfirmDelete(w)
    BY <1>1 DEF RecoveryStep, RequestExists, RequestGet, RequestDelete, RequestCreate,
                RequestMail, ConfirmToken, ConfirmSave, ConfirmSignal, At
  <1> QED BY <1>1, <1>2, <1>3 DEF ConfirmDelete

(* views.py:158-160.  With workers that go on, and none of them killed, a  *)
(* token that has set a password always gets out of the table.             *)
THEOREM SpentTokensLeave ==
  ASSUME ~ Crashes
  PROVE  FairSpec /\ []DeletesCanRun => SpentTokenLeaves
  <1> SUFFICES ASSUME NEW pk \in 1 .. MaxTokens, NEW w \in Workers
               PROVE  FairSpec /\ []DeletesCanRun
                        => (<<pk, w>> \in spent ~> \A r \in tokens : r.pk /= pk)
    BY DEF SpentTokenLeaves
  <1>1. FairSpec => Spec /\ Runs(w)
    BY DEF FairSpec
  <1>2. DeletesCanRun => (At(w, "confirm_delete") => ENABLED <<RecoveryStep(w)>>_vars)
    BY DEF DeletesCanRun
  <1>3. <<pk, w>> \in spent => Lingers(pk, w) \/ \A r \in tokens : r.pk /= pk
    BY DEF Lingers
  <1>4. Lingers(pk, w) /\ [spent \subseteq spent']_vars
          => Lingers(pk, w)' \/ (\A r \in tokens : r.pk /= pk)'
    BY DEF Lingers, vars
  <1>5. TypeOK /\ SpentInv /\ Lingers(pk, w) /\ <<RecoveryStep(w)>>_vars
          => (\A r \in tokens : r.pk /= pk)'
    BY DeleteRemoves
  <1>6. TypeOK /\ SpentInv /\ Lingers(pk, w) => At(w, "confirm_delete")
    BY DeleteRemoves
  <1> QED BY <1>1, <1>2, <1>3, <1>4, <1>5, <1>6, SpentStays, SpentAlways, TypeCorrect, PTL
          DEF Runs
=============================================================================
