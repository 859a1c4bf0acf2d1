---------------------------- MODULE UserAccounts ----------------------------
(***************************************************************************)
(* UserViewSet of users/views.py, the serializers it saves with, and the   *)
(* registration of users/serializers.py, one action per statement.         *)
(*                                                                         *)
(* Three ways of writing a user row meet here: save() of an instance read  *)
(* earlier writes every column back, save(update_fields=["is_active"])     *)
(* writes one, and a delete takes the row away under either of them.       *)
(***************************************************************************)
EXTENDS Accounts

CONSTANTS
  Staff,       \* the users with is_staff
  NameInputs   \* what clients send as names: TRUE for a name, FALSE for a blank

ASSUME StaffAssumption == Staff \subseteq Users
ASSUME InputsAssumption == NameInputs \subseteq BOOLEAN

VARIABLE unborn  \* the keys that the sequence of the user table has yet to give

userVars == <<users, profiles, tokens, req, reply, unborn>>

UserSteps == {"update_load", "update_save", "update_signal", "update_profile",
              "update_nested",
              "complete_check", "complete_save", "complete_signal",
              "complete_profile", "complete_nested", "complete_fetch",
              "complete_write",
              "toggle_load", "toggle_save", "destroy_load", "destroy",
              "register_signal", "register_flag", "register_resignal"}

-----------------------------------------------------------------------------
(* HasRegisterCompletePermission.                                          *)
RegisterComplete(q) == q \in DOMAIN profiles /\ profiles[q]

(* A request that is refused before it touches anything: 401, 403, or the  *)
(* 404 of an admin who aims destroy or toggle_block at itself.             *)
Refuse(w) ==
  /\ At(w, "idle")
  /\ Answer(w, "rejected")
  /\ UNCHANGED <<tables, unborn>>

(* super().get_object(): loads the target, or 404.                         *)
Load(w, from, to) ==
  LET u == req[w].user IN
  /\ At(w, from)
  /\ \/ /\ u \in DOMAIN users
        /\ req' = [req EXCEPT ![w] = Request(to, u, users[u])]
        /\ UNCHANGED reply
     \/ /\ u \notin DOMAIN users
        /\ Answer(w, "rejected")
  /\ UNCHANGED <<tables, unborn>>

-----------------------------------------------------------------------------
(* partial_update.  For "me" and for everybody who is not staff the target *)
(* is request.user, the instance that authentication loaded.               *)
UpdateUser(w) ==
  \E q, u \in Users :
    /\ Authenticated(q) /\ RegisterComplete(q)
    /\ \/ /\ u = q \/ q \notin Staff
          /\ Begin(w, "update_save", q, users[q])
       \/ /\ u /= q /\ q \in Staff
          /\ Begin(w, "update_load", u, None)
    /\ UNCHANGED <<tables, unborn>>

(* UserDetailsView of dj-rest-auth (auth_api/urls.py:18) with the same     *)
(* serializer: an update of request.user, whose registration need not be   *)
(* complete.                                                               *)
UserDetails(w) ==
  \E q \in Users :
    /\ Authenticated(q)
    /\ Begin(w, "update_save", q, users[q])
    /\ UNCHANGED <<tables, unborn>>

UpdateLoad(w) == Load(w, "update_load", "update_save")

(* Mutant: an update without a password resets it.                         *)
UpdateSave_Resets(w) ==
  /\ At(w, "update_save")
  /\ SaveUser(w, [req[w].copy EXCEPT !.password = 0], "update_profile")
  /\ UNCHANGED unborn

(* UserSerializer: invalid data is a 400; otherwise the names are set, to  *)
(* blanks if the client likes, and the whole instance is saved.            *)
UpdateSave(w) ==
  /\ At(w, "update_save")
  /\ \/ Answer(w, "rejected") /\ UNCHANGED tables
     \/ \E named \in NameInputs :
          SaveUser(w, [req[w].copy EXCEPT !.named = named], "update_profile")
  /\ UNCHANGED unborn

(* The nested profile of a writable nested serializer.  When the request   *)
(* has one, the related row is read, and created if there is none...       *)
NestedRead(w, from, to, done) ==
  LET u == req[w].user IN
  /\ At(w, from)
  /\ \/ done /\ UNCHANGED profiles
     \/ /\ u \in DOMAIN profiles
        /\ req' = [req EXCEPT ![w] = [@ EXCEPT !.at = to,
                                               !.profile = profiles[u]]]
        /\ UNCHANGED <<reply, profiles>>
     \/ /\ u \notin DOMAIN profiles /\ u \in DOMAIN users
        /\ profiles' = [v \in DOMAIN profiles \cup {u} |->
                          IF v = u THEN FALSE ELSE profiles[v]]
        /\ done
     \/ /\ u \notin DOMAIN profiles /\ u \notin DOMAIN users
        /\ Answer(w, "error")
        /\ UNCHANGED profiles
  /\ UNCHANGED <<users, tokens, unborn>>

(* ...then saved with what was read: is_register_complete is read-only in  *)
(* the serializer, so the instance's value of it is written back.          *)
ProfileSave(w, complete, done) ==
  LET u == req[w].user IN
  /\ \/ /\ u \in DOMAIN users
        /\ profiles' = [v \in DOMAIN profiles \cup {u} |->
                          IF v = u THEN complete ELSE profiles[v]]
        /\ done
     \/ /\ u \notin DOMAIN users
        /\ Answer(w, "error")
        /\ UNCHANGED profiles
  /\ UNCHANGED <<users, tokens, unborn>>

UpdateProfile(w) ==
  NestedRead(w, "update_profile", "update_nested", Answer(w, "ok"))

(* Mutant: the flag is saved with the default of the model.                *)
UpdateNested_Default(w) ==
  /\ At(w, "update_nested")
  /\ ProfileSave(w, FALSE, Answer(w, "ok"))

UpdateNested(w) ==
  /\ At(w, "update_nested")
  /\ ProfileSave(w, req[w].profile, Answer(w, "ok"))

-----------------------------------------------------------------------------
(* complete_register, lines 130-151.                                       *)
CompleteRegister(w) ==
  \E q \in Users :
    /\ Authenticated(q)
    /\ Begin(w, "complete_check", q, users[q])
    /\ UNCHANGED <<tables, unborn>>

(* Line 134: a profile that is complete is a 400, a missing one a 500.     *)
CompleteCheck(w) ==
  LET u == req[w].user IN
  /\ At(w, "complete_check")
  /\ \/ u \notin DOMAIN profiles /\ Answer(w, "error")
     \/ u \in DOMAIN profiles /\ profiles[u] /\ Answer(w, "rejected")
     \/ u \in DOMAIN profiles /\ ~ profiles[u] /\ Goto(w, "complete_save")
  /\ UNCHANGED <<tables, unborn>>

(* Lines 140-144: with partial=True no field has to be there, so the names *)
(* are set or left as they are.                                            *)
CompleteSave(w) ==
  /\ At(w, "complete_save")
  /\ \/ Answer(w, "rejected") /\ UNCHANGED tables
     \/ \E named \in (NameInputs \cap {TRUE}) \cup {req[w].copy.named} :
          SaveUser(w, [req[w].copy EXCEPT !.named = named], "complete_profile")
  /\ UNCHANGED unborn

CompleteProfile(w) ==
  NestedRead(w, "complete_profile", "complete_nested", Goto(w, "complete_fetch"))

CompleteNested(w) ==
  /\ At(w, "complete_nested")
  /\ ProfileSave(w, req[w].profile, Goto(w, "complete_fetch"))

(* Line 146: the serializer has refreshed the instance, so user.profile is *)
(* read again; without one of the two rows that is a 500.                  *)
CompleteFetch(w) ==
  /\ At(w, "complete_fetch")
  /\ IF req[w].user \in DOMAIN users \cap DOMAIN profiles
     THEN Goto(w, "complete_write") ELSE Answer(w, "error")
  /\ UNCHANGED <<tables, unborn>>

(* Mutant: the flag is set on the instance and never saved.                *)
CompleteWrite_Unsaved(w) ==
  /\ At(w, "complete_write")
  /\ Answer(w, "ok")
  /\ UNCHANGED <<tables, unborn>>

(* Profile.complete_register: the flag is set and the profile saved.       *)
CompleteWrite(w) ==
  /\ At(w, "complete_write")
  /\ ProfileSave(w, TRUE, Answer(w, "ok"))

-----------------------------------------------------------------------------
(* Mutant: admins may aim at themselves.                                   *)
AdminRequest_Self(w) ==
  \E q \in Staff, u \in Users :
    /\ Authenticated(q)
    /\ Begin(w, "toggle_load", u, None) \/ Begin(w, "destroy_load", u, None)
    /\ UNCHANGED <<tables, unborn>>

(* toggle_block and destroy: admins only, and never on themselves.         *)
AdminRequest(w) ==
  \E q \in Staff, u \in Users :
    /\ Authenticated(q) /\ u /= q
    /\ \/ Begin(w, "toggle_load", u, None)
       \/ Begin(w, "destroy_load", u, None)
    /\ UNCHANGED <<tables, unborn>>

ToggleLoad(w) == Load(w, "toggle_load", "toggle_save")

(* Lines 167-193: a body that is no boolean is a 400; save(update_fields)  *)
(* updates that column, and raises when the row is gone.                   *)
ToggleSave(w) ==
  LET u == req[w].user IN
  /\ At(w, "toggle_save")
  /\ \/ Answer(w, "rejected") /\ UNCHANGED users
     \/ \E active \in BOOLEAN :
          /\ u \in DOMAIN users
          /\ users' = [users EXCEPT ![u] = [@ EXCEPT !.is_active = active]]
          /\ Answer(w, "ok")
     \/ u \notin DOMAIN users /\ Answer(w, "error") /\ UNCHANGED users
  /\ UNCHANGED <<profiles, tokens, unborn>>

DestroyLoad(w) == Load(w, "destroy_load", "destroy")

Destroy(w) ==
  /\ At(w, "destroy")
  /\ DeleteUsers({req[w].user})
  /\ Answer(w, "ok")
  /\ UNCHANGED unborn

(* delete_test_users: anybody may, and it spares no other user.            *)
DeleteTestUsers(w) ==
  /\ At(w, "idle")
  /\ DeleteUsers({u \in DOMAIN users : users[u].is_test_user})
  /\ Answer(w, "ok")
  /\ UNCHANGED unborn

-----------------------------------------------------------------------------
(* Mutant: the key of a deleted row is given out again.                    *)
Register_Reuses(w) ==
  \E u \in Users \ DOMAIN users :
    LET row == [password |-> 0, is_active |-> TRUE,
                is_test_user |-> FALSE, named |-> FALSE] IN
    /\ Begin(w, "register_signal", u, row)
    /\ users' = [v \in DOMAIN users \cup {u} |-> IF v = u THEN row ELSE users[v]]
    /\ unborn' = unborn \ {u}
    /\ UNCHANGED <<profiles, tokens>>

(* Registration: the adapter inserts the user, the signal its profile, and *)
(* CustomRegisterSerializer.save then sets is_test_user with another save. *)
Register(w) ==
  \E u \in unborn :
    LET row == [password |-> 0, is_active |-> TRUE,
                is_test_user |-> FALSE, named |-> FALSE] IN
    /\ Begin(w, "register_signal", u, row)
    /\ users' = [v \in DOMAIN users \cup {u} |-> IF v = u THEN row ELSE users[v]]
    /\ unborn' = unborn \ {u}
    /\ UNCHANGED <<profiles, tokens>>

RegisterFlag(w) ==
  /\ At(w, "register_flag")
  /\ \E test \in BOOLEAN :
       SaveUser(w, [req[w].copy EXCEPT !.is_test_user = test], "idle")
  /\ UNCHANGED unborn

(* The post_save receiver after one of these saves has inserted the row.   *)
UserSignal(w) ==
  /\ req[w].at \in {"update_signal", "complete_signal",
                    "register_signal", "register_resignal"}
  /\ CreateProfile(w)
  /\ UNCHANGED unborn

-----------------------------------------------------------------------------
UserStart(w) ==
  \/ Refuse(w) \/ UpdateUser(w) \/ UserDetails(w) \/ CompleteRegister(w)
  \/ AdminRequest(w) \/ DeleteTestUsers(w) \/ Register(w)

UserStep(w) ==
  \/ UpdateLoad(w) \/ UpdateSave(w) \/ UpdateProfile(w) \/ UpdateNested(w)
  \/ CompleteCheck(w) \/ CompleteSave(w) \/ CompleteProfile(w)
  \/ CompleteNested(w) \/ CompleteFetch(w) \/ CompleteWrite(w)
  \/ ToggleLoad(w) \/ ToggleSave(w) \/ DestroyLoad(w) \/ Destroy(w)
  \/ RegisterFlag(w) \/ UserSignal(w)

UserCrash(w) == Crash(w) /\ UNCHANGED unborn

UserNext == \E w \in Workers : UserStart(w) \/ UserStep(w) \/ UserCrash(w)

(* Some accounts exist, the staff among them, complete or not, with names  *)
(* that clients have sent; the other keys are still to be given out.       *)
UserInit ==
  /\ \E registered \in SUBSET Users, complete \in SUBSET Staff, named \in NameInputs :
       /\ Staff \subseteq registered
       /\ users = [u \in registered |->
                     [password |-> 0, is_active |-> TRUE,
                      is_test_user |-> FALSE, named |-> named]]
       /\ profiles = [u \in registered |-> u \in complete]
       /\ unborn = Users \ registered
  /\ tokens = {}
  /\ req = [w \in Workers |-> Idle]
  /\ reply = [w \in Workers |-> "none"]

UserSpec == UserInit /\ [][UserNext]_userVars

-----------------------------------------------------------------------------
(* A handler past its load holds the row it will write back.               *)
UserRequestOK(r) ==
  /\ r \in [at : {"idle"} \cup UserSteps, user : Users \cup {None},
            copy : UserRow \cup {None}, token : {None},
            profile : BOOLEAN \cup {None}]
  /\ r.at /= "idle" => r.user \in Users
  /\ r.at \in UserSteps \ {"update_load", "toggle_load", "destroy_load"}
       => r.copy \in UserRow
  /\ r.at \in {"update_nested", "complete_nested"} => r.profile \in BOOLEAN

(* While no worker is killed, a user lacks a profile only while some       *)
(* worker stands between the INSERT of the user and the post_save receiver *)
(* that inserts the profile: at registration, or when a save() has brought *)
(* a deleted account back (users/models.py, create_profile).               *)
ProfileOrSignal ==
  Crashes \/ \A u \in DOMAIN users \ DOMAIN profiles :
    \E w \in Workers : req[w].user = u /\ req[w].at \in DOMAIN AfterSignal

(* The account was deleted and no request holds an instance of it.         *)
Gone(u) ==
  /\ u \notin unborn /\ u \notin DOMAIN users
  /\ \A w \in Workers : req[w].user = u => req[w].copy = None

(* Only a request that was already under way when an account was deleted   *)
(* can bring it back: once those have ended, it is deleted for good.       *)
GoneStaysGone == [][\A u \in Users : Gone(u) => Gone(u)']_userVars

(* The account is blocked and no request would write it back as active.    *)
Blocked(u) ==
  /\ u \in DOMAIN users /\ ~ users[u].is_active
  /\ \A w \in Workers :
       req[w].user = u /\ req[w].copy /= None => ~ req[w].copy.is_active

Toggles(u) == \E w \in Workers : req[w].user = u /\ At(w, "toggle_save")

(* A block outlives every request that started after it: apart from an     *)
(* admin's toggle, or the deletion of the account, only an instance loaded *)
(* before the block can undo it.                                           *)
BlockSettles ==
  [][\A u \in Users :
       Blocked(u) => Blocked(u)' \/ Toggles(u) \/ u \notin DOMAIN users']_userVars

(* The registration is complete and no request would save the profile with *)
(* an older flag.                                                          *)
Completed(u) ==
  /\ u \in DOMAIN profiles /\ profiles[u]
  /\ \A w \in Workers :
       req[w].user = u /\ req[w].profile /= None => req[w].profile

(* A completed registration stays complete as long as the account exists:  *)
(* only a nested profile that was read before the completion can undo it   *)
(* (serializers.py:9, where the flag is read-only and saved all the same). *)
CompletionSettles ==
  [][\A u \in Users :
       Completed(u) => Completed(u)' \/ u \notin DOMAIN users']_userVars

(* The completion of a registration takes effect although it is saved in   *)
(* three transactions: one that was cut short between them leaves nothing  *)
(* behind that makes a later call fail, or answer 200 without the flag     *)
(* (complete_register, lines 134-148).                                     *)
CompletionArrives ==
  \A w \in Workers, u \in Users :
    At(w, "complete_check") /\ req[w].user = u /\ u \in DOMAIN profiles
      ~> \/ u \in DOMAIN profiles /\ profiles[u]
         \/ reply[w] \in {"rejected", "lost"}

(* An admin can still log in.  The rule that admins cannot aim destroy or  *)
(* toggle_block at themselves is enough for it when requests are served    *)
(* one after the other (get_object, lines 106-114).                        *)
SomeAdminActive == \E a \in Staff \cap DOMAIN users : users[a].is_active
=============================================================================
