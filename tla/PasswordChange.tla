--------------------------- MODULE PasswordChange ---------------------------
(***************************************************************************)
(* PasswordChangeViewModify of auth_api/views.py: an authenticated user    *)
(* exchanges the old password for a new one, unless the settings leave the *)
(* recovery mail as the only way.  The new password takes the next number  *)
(* of the token sequence for a name, so that no token stands for it.       *)
(***************************************************************************)
EXTENDS PasswordRecovery

CONSTANT ByEmail   \* settings.PASSWORD_CHANGE_BY_EMAIL

ASSUME ByEmailAssumption == ByEmail \in BOOLEAN

ChangeSteps == {"change_save", "change_signal"}

(* Lines 165-190.  The old password is compared with the instance that     *)
(* authentication loaded, and the new one set on it; every failure is a    *)
(* 400 that has touched nothing.                                           *)
ChangePassword(w) ==
  \E q \in Users :
    /\ Authenticated(q)
    /\ \/ /\ At(w, "idle") /\ Answer(w, "rejected")
          /\ UNCHANGED drawn
       \/ /\ ~ ByEmail
          /\ drawn + Cardinality(Drawing) < MaxTokens
          /\ Begin(w, "change_save", q, [users[q] EXCEPT !.password = drawn + 1])
          /\ drawn' = drawn + 1
    /\ UNCHANGED <<tables, now, spent>>

(* Line 190: dj-rest-auth's serializer saves the whole instance.           *)
ChangeSave(w) ==
  /\ At(w, "change_save")
  /\ SaveUser(w, req[w].copy, "idle")
  /\ UNCHANGED recoveryVars

ChangeSignal(w) ==
  /\ At(w, "change_signal")
  /\ CreateProfile(w)
  /\ UNCHANGED recoveryVars

ChangeStep(w) == ChangeSave(w) \/ ChangeSignal(w)

-----------------------------------------------------------------------------
(* A handler that changes a password holds the instance it will save.      *)
ChangeRequestOK(r) ==
  /\ r \in [at : ChangeSteps, user : Users, copy : UserRow,
            token : {None}, profile : {None}]
=============================================================================
