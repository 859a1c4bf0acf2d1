--------------------------- MODULE AccountPromise ---------------------------
(***************************************************************************)
(* What the views over the account tables promise their clients: every     *)
(* request changes the accounts in one step, and in one respect at a time. *)
(* AccountService implements this as long as one worker serves it.         *)
(***************************************************************************)
EXTENDS Naturals

CONSTANTS Accounts, None

VARIABLES
  unborn,    \* accounts that have yet to be registered
  account,   \* account[u]: its password, whether it is active, and whether
             \* its registration is complete
  token,     \* token[u]: the recovery token that u can be reset with, or None
  issued     \* how many tokens have been issued

promiseVars == <<unborn, account, token, issued>>

Account == [password : Nat, active : BOOLEAN, complete : BOOLEAN]

Existing == DOMAIN account

Fresh == [password |-> 0, active |-> TRUE, complete |-> FALSE]

(* A registration brings an account that there has not been before.        *)
Join(u) ==
  /\ u \in unborn
  /\ unborn' = unborn \ {u}
  /\ account' = [v \in Existing \cup {u} |-> IF v = u THEN Fresh ELSE account[v]]
  /\ UNCHANGED <<token, issued>>

(* A token is issued where none is out, and withdrawn.                     *)
Issue(u) ==
  /\ u \in Existing /\ token[u] = None
  /\ issued' = issued + 1
  /\ token' = [token EXCEPT ![u] = issued + 1]
  /\ UNCHANGED <<unborn, account>>

Withdraw(u) ==
  /\ token[u] /= None
  /\ token' = [token EXCEPT ![u] = None]
  /\ UNCHANGED <<unborn, account, issued>>

(* The token that is out, and nothing else, sets a password.               *)
Redeem(u) ==
  /\ u \in Existing /\ token[u] /= None
  /\ account' = [account EXCEPT ![u] = [@ EXCEPT !.password = token[u]]]
  /\ UNCHANGED <<unborn, token, issued>>

SetActive(u) ==
  /\ u \in Existing
  /\ \E b \in BOOLEAN : account' = [account EXCEPT ![u] = [@ EXCEPT !.active = b]]
  /\ UNCHANGED <<unborn, token, issued>>

(* A registration is completed once and for all.                           *)
Complete(u) ==
  /\ u \in Existing
  /\ account' = [account EXCEPT ![u] = [@ EXCEPT !.complete = TRUE]]
  /\ UNCHANGED <<unborn, token, issued>>

(* Deleted accounts take their tokens along, and stay away.                *)
Remove(gone) ==
  /\ account' = [u \in Existing \ gone |-> account[u]]
  /\ token' = [u \in Accounts |-> IF u \in gone THEN None ELSE token[u]]
  /\ UNCHANGED <<unborn, issued>>

Init ==
  /\ \E registered \in SUBSET Accounts, complete \in SUBSET Accounts :
       /\ unborn = Accounts \ registered
       /\ account = [u \in registered |->
                       [Fresh EXCEPT !.complete = u \in complete]]
  /\ token = [u \in Accounts |-> None]
  /\ issued = 0

Next ==
  \/ \E u \in Accounts :
       Join(u) \/ Issue(u) \/ Withdraw(u) \/ Redeem(u) \/ SetActive(u) \/ Complete(u)
  \/ \E gone \in SUBSET Existing : Remove(gone)

Spec == Init /\ [][Next]_promiseVars
=============================================================================
