----------------------------- MODULE SeedCommand -----------------------------
(***************************************************************************)
(* manage.py seed: the demo accounts of users/seeds.py, made or brought up *)
(* to date by UserFactory, and the maintenance switch, in one transaction; *)
(* with other seeds and the API at work on the same development database.  *)
(*                                                                         *)
(* A transaction keeps what it has written for itself and keeps others     *)
(* from writing the same rows until it ends (READ COMMITTED).  An account  *)
(* is a user with its e-mail address, and with its profile once the        *)
(* receiver of post_save has inserted that.                                *)
(***************************************************************************)
EXTENDS Naturals, Sequences, FiniteSets

CONSTANTS
  Seeds,        \* processes that run the command
  PERSONAS,     \* sequence of [verified, complete, active]
  BULK_USERS,
  Debug,        \* settings.DEBUG
  MaxEdits      \* bound: what users, admins and operators do

ASSUME SeedAssumption ==
  /\ PERSONAS \in Seq([verified : BOOLEAN, complete : BOOLEAN, active : BOOLEAN])
  /\ BULK_USERS \in Nat \ {0} /\ Debug \in BOOLEAN /\ MaxEdits \in Nat

VARIABLES
  accounts,     \* committed: from usernames to rows
  operational,  \* committed: SystemStatus.is_operational
  seed,         \* the command in each process
  edits         \* history, for the bound

seedVars == <<accounts, operational, seed, edits>>

(* E-mail addresses are those of the personas, user{n}@test.com and one of *)
(* somebody else.  The factory's usernames are their local parts, those of *)
(* registration the whole addresses.                                       *)
Persona(i) == <<"persona", i>>
Bulk(n) == <<"user", n>>
Elsewhere == <<"elsewhere", 0>>
Nobody == <<Elsewhere, "whole">>
LocalPart(email) == <<email, "local">>
Whole(email) == <<email, "whole">>

Items == 1 .. Len(PERSONAS) + BULK_USERS

(* UserFactory counts its calls in the process, the personas too, from 0.  *)
FirstNumber == 0

(* What item i of a run asks UserFactory for.                              *)
EmailOf(i, first) ==
  IF i <= Len(PERSONAS) THEN Persona(i) ELSE Bulk(first + i - 1)

Flags(i) ==
  IF i <= Len(PERSONAS) THEN PERSONAS[i]
  ELSE [verified |-> TRUE, complete |-> TRUE, active |-> TRUE]

Table == {EmailOf(i, 0) : i \in Items}

(* The command has not run, or has ended.                                  *)
NoSeed(how) ==
  [at |-> how, item |-> 0, first |-> 0, own |-> <<>>, lifts |-> FALSE,
   user |-> Nobody, active |-> TRUE, since |-> 0, clean |-> FALSE]

Ended == {"idle", "done", "failed", "killed", "refused"}

Holders(rows, email) == {u \in DOMAIN rows : rows[u].email = email}

(* An insert or an update.                                                 *)
Put(rows, u, row) == [v \in DOMAIN rows \cup {u} |-> IF v = u THEN row ELSE rows[v]]

(* What a process sees: its own writes before the committed rows.          *)
View(p) ==
  LET own == seed[p].own
  IN [u \in DOMAIN own \cup DOMAIN accounts |->
       IF u \in DOMAIN own THEN own[u] ELSE accounts[u]]

(* Nothing stands in the way of a run, committed or not: no address with   *)
(* two accounts or with one that has no profile, and no username of the    *)
(* factory with another address.                                           *)
Clean ==
  \A e \in Table :
    /\ \A u, v \in UNION {Holders(View(p), e) : p \in Seeds} : u = v
    /\ \A u \in Holders(accounts, e) : accounts[u].profile
    /\ LocalPart(e) \in DOMAIN accounts => accounts[LocalPart(e)].email = e

InitSeed ==
  /\ accounts = <<>> /\ operational \in BOOLEAN
  /\ seed = [p \in Seeds |-> NoSeed("idle")]
  /\ edits = 0

-----------------------------------------------------------------------------
(* Transactions.                                                           *)
(* A write of u has to wait for a transaction that has written it.         *)
LockedFor(p, u) == \E q \in Seeds \ {p} : u \in DOMAIN seed[q].own
Locked(u) == \E q \in Seeds : u \in DOMAIN seed[q].own

(* Mutant: the transaction is left open.                                   *)
Abort_Open(p, how) ==
  /\ seed' = [seed EXCEPT ![p].at = how]
  /\ UNCHANGED <<accounts, operational, edits>>

(* Rolled back: by an exception, or because the process has been killed.   *)
Abort(p, how) ==
  /\ seed' = [seed EXCEPT ![p] = NoSeed(how)]
  /\ UNCHANGED <<accounts, operational, edits>>

-----------------------------------------------------------------------------
(* Command.handle: a process of its own for each `just seed`.              *)
Start(p) ==
  /\ seed[p].at \in Ended \ {"refused"}
  /\ seed' = [seed EXCEPT ![p] =
       IF Debug
       THEN [NoSeed("get") EXCEPT !.item = 1, !.first = FirstNumber,
                             !.since = edits, !.clean = Clean]
       ELSE NoSeed("refused")]
  /\ UNCHANGED <<accounts, operational, edits>>

Wanted(p) == EmailOf(seed[p].item, seed[p].first)

(* Mutant: only new accounts get the password and the flags.               *)
AfterGeneration_New(row, i) ==
  IF row.password = "unset"
  THEN [row EXCEPT !.password = "seed", !.verified = Flags(i).verified,
                   !.complete = Flags(i).complete]
  ELSE row

(* The post_generation hooks.                                              *)
AfterGeneration(row, i) ==
  [row EXCEPT !.password = "seed", !.verified = Flags(i).verified,
              !.complete = Flags(i).complete]

Write(p, u, row) ==
  seed' = [seed EXCEPT ![p].own = Put(@, u, AfterGeneration(row, seed[p].item)),
                       ![p].at = IF seed[p].item + 1 \in Items THEN "get" ELSE "status",
                       ![p].item = @ + 1]

(* get_or_create finds the account ...                                     *)
GetUser(p) ==
  /\ seed[p].at = "get"
  /\ \E u \in Holders(View(p), Wanted(p)) :
       /\ Holders(View(p), Wanted(p)) = {u}
       /\ seed' = [seed EXCEPT ![p].at = "save", ![p].user = u,
                               ![p].active = View(p)[u].active]
  /\ UNCHANGED <<accounts, operational, edits>>

(* Mutant: get_or_create by the username instead of the address.           *)
CreateUser_ByUsername(p) ==
  LET u == LocalPart(Wanted(p))
  IN /\ seed[p].at = "get"
     /\ ~ LockedFor(p, u) /\ u \notin DOMAIN View(p)
     /\ Write(p, u, [email |-> Wanted(p), test |-> TRUE, password |-> "unset",
                     active |-> Flags(seed[p].item).active, profile |-> TRUE,
                     verified |-> FALSE, complete |-> FALSE])
     /\ UNCHANGED <<accounts, operational, edits>>

(* ... or none, and inserts it unless its username is taken, the profile   *)
(* with it; an insert of another transaction is waited for.                *)
CreateUser(p) ==
  LET u == LocalPart(Wanted(p))
  IN /\ seed[p].at = "get" /\ Holders(View(p), Wanted(p)) = {}
     /\ ~ LockedFor(p, u) /\ u \notin DOMAIN View(p)
     /\ Write(p, u, [email |-> Wanted(p), test |-> TRUE, password |-> "unset",
                     active |-> Flags(seed[p].item).active, profile |-> TRUE,
                     verified |-> FALSE, complete |-> FALSE])
     /\ UNCHANGED <<accounts, operational, edits>>

(* Mutant: an insert of another transaction counts as well.                *)
GetFails_Impatient(p) ==
  /\ seed[p].at = "get"
  /\ \/ ~ \A u, v \in Holders(View(p), Wanted(p)) : u = v
     \/ /\ Holders(View(p), Wanted(p)) = {}
        /\ LocalPart(Wanted(p)) \in DOMAIN accounts \/ LockedFor(p, LocalPart(Wanted(p)))
  /\ Abort(p, "failed")

(* MultipleObjectsReturned, or IntegrityError.                             *)
GetFails(p) ==
  /\ seed[p].at = "get"
  /\ \/ ~ \A u, v \in Holders(View(p), Wanted(p)) : u = v
     \/ /\ Holders(View(p), Wanted(p)) = {}
        /\ LocalPart(Wanted(p)) \in DOMAIN accounts
  /\ Abort(p, "failed")

(* Another account has verified the address: of those only one may.        *)
AddressTaken(p, u) ==
  /\ Flags(seed[p].item).verified
  /\ \E v \in Holders(View(p), Wanted(p)) \ {u} : View(p)[v].verified

(* The hooks on an account that was found.  UserFactory saves the whole    *)
(* instance afterwards, is_active as it was read included.                 *)
SaveUser(p) ==
  LET u == seed[p].user
  IN /\ seed[p].at = "save" /\ ~ LockedFor(p, u)
     /\ u \in DOMAIN accounts /\ View(p)[u].profile /\ ~ AddressTaken(p, u)
     /\ Write(p, u, [View(p)[u] EXCEPT !.active = seed[p].active])
     /\ UNCHANGED <<accounts, operational, edits>>

(* save(update_fields=...) of an account that has gone raises, and so does *)
(* obj.profile of one that has none, or none yet.                          *)
SaveFails(p) ==
  /\ seed[p].at = "save" /\ ~ LockedFor(p, seed[p].user)
  /\ seed[p].user \in DOMAIN accounts =>
       AddressTaken(p, seed[p].user) \/ ~ View(p)[seed[p].user].profile
  /\ Abort(p, "failed")

(* platform_configurations.seeds comes after users.seeds: MY_APPS.         *)
SeedStatus(p) ==
  /\ seed[p].at = "status"
  /\ seed' = [seed EXCEPT ![p].at = "commit", ![p].lifts = ~ operational]
  /\ UNCHANGED <<accounts, operational, edits>>

(* Mutant: the switch is left as it is.                                    *)
Commit_KeepsSwitch(p) ==
  /\ seed[p].at = "commit"
  /\ accounts' = View(p)
  /\ seed' = [seed EXCEPT ![p] = NoSeed("done")]
  /\ UNCHANGED <<operational, edits>>

Commit(p) ==
  /\ seed[p].at = "commit"
  /\ accounts' = View(p)
  /\ operational' = (operational \/ seed[p].lifts)
  /\ seed' = [seed EXCEPT ![p] = NoSeed("done")]
  /\ UNCHANGED edits

Killed(p) ==
  /\ seed[p].at \notin Ended
  /\ Abort(p, "killed")

SeedStep(p) ==
  \/ GetUser(p) \/ CreateUser(p) \/ GetFails(p) \/ SaveUser(p) \/ SaveFails(p)
  \/ SeedStatus(p) \/ Commit(p)

-----------------------------------------------------------------------------
(* The API and the operators meanwhile, each in a transaction of its own.  *)
Registered(email, test) ==
  [email |-> email, test |-> test, password |-> "own", active |-> TRUE,
   profile |-> FALSE, verified |-> FALSE, complete |-> FALSE]

(* dj_rest_auth refuses an address that an account has verified.  The user *)
(* is committed before the receiver has begun.                             *)
Register(email) ==
  /\ Whole(email) \notin DOMAIN accounts
  /\ \A u \in Holders(accounts, email) : ~ accounts[u].verified
  /\ \E test \in BOOLEAN :
       accounts' = Put(accounts, Whole(email), Registered(email, test))
  /\ UNCHANGED <<operational, seed>>

(* create_profile, a transaction of its own; not if the worker has been    *)
(* killed.                                                                 *)
InsertProfile(u) ==
  /\ ~ accounts[u].profile
  /\ accounts' = [accounts EXCEPT ![u].profile = TRUE]
  /\ UNCHANGED <<operational, seed, edits>>

VerifyEmail(u) ==
  /\ ~ Locked(u) /\ ~ accounts[u].verified
  /\ \A v \in Holders(accounts, accounts[u].email) : ~ accounts[v].verified
  /\ \A p \in Seeds : \A v \in Holders(seed[p].own, accounts[u].email) :
       ~ seed[p].own[v].verified
  /\ accounts' = [accounts EXCEPT ![u].verified = TRUE]
  /\ UNCHANGED <<operational, seed>>

ToggleBlock(u) ==
  /\ ~ Locked(u)
  /\ accounts' = [accounts EXCEPT ![u].active = ~ @]
  /\ UNCHANGED <<operational, seed>>

OwnPassword(u) ==
  /\ ~ Locked(u)
  /\ accounts' = [accounts EXCEPT ![u].password = "own"]
  /\ UNCHANGED <<operational, seed>>

(* An account made later under a deleted one's username is another row.    *)
DeleteTestUsers ==
  LET kept == {u \in DOMAIN accounts : ~ accounts[u].test}
  IN /\ \A u \in DOMAIN accounts \ kept : ~ Locked(u)
     /\ accounts' = [u \in kept |-> accounts[u]]
     /\ seed' = [p \in Seeds |->
          IF seed[p].user \in DOMAIN accounts \ kept
          THEN [seed[p] EXCEPT !.user = Nobody] ELSE seed[p]]
     /\ UNCHANGED operational

(* createsuperuser, with a username that the factory uses as well; no run  *)
(* looks at the profile of an account elsewhere.                           *)
CreateSuperuser(email) ==
  LET u == LocalPart(email)
  IN /\ u \notin DOMAIN accounts /\ ~ Locked(u)
     /\ accounts' =
          Put(accounts, u, [Registered(Elsewhere, FALSE) EXCEPT !.verified = TRUE,
                                                                !.profile = TRUE])
     /\ UNCHANGED <<operational, seed>>

SetStatus ==
  /\ \A p \in Seeds : ~ seed[p].lifts
  /\ operational' = ~ operational
  /\ UNCHANGED <<accounts, seed>>

Edit ==
  /\ edits < MaxEdits /\ edits' = edits + 1
  /\ \/ \E e \in Table : Register(e) \/ CreateSuperuser(e)
     \/ \E u \in DOMAIN accounts : VerifyEmail(u) \/ ToggleBlock(u) \/ OwnPassword(u)
     \/ DeleteTestUsers
     \/ SetStatus

SeedNext ==
  \/ \E p \in Seeds : Start(p) \/ SeedStep(p) \/ Killed(p)
  \/ Edit
  \/ \E u \in DOMAIN accounts : InsertProfile(u)

-----------------------------------------------------------------------------
Rows == [email : Table \cup {Elsewhere}, test : BOOLEAN,
         password : {"seed", "own"}, active : BOOLEAN, profile : BOOLEAN,
         verified : BOOLEAN, complete : BOOLEAN]

(* Accounts are well-formed, and a run that has ended holds no rows.       *)
SeedTypeOK ==
  /\ \A u \in DOMAIN accounts : accounts[u] \in Rows
  /\ \A p \in Seeds :
       /\ \A u \in DOMAIN seed[p].own : seed[p].own[u] \in Rows
       /\ seed[p].at \in Ended => seed[p] = NoSeed(seed[p].at)
  /\ operational \in BOOLEAN /\ edits \in 0 .. MaxEdits

(* docs/seed-data.md:13, "updates in place instead of duplicating rows": a *)
(* run that commits keeps every account and its address, and inserts one   *)
(* only for an address that had none, whoever else has committed since it  *)
(* looked; unless that was somebody who registered meanwhile.              *)
UpdatesInPlace ==
  [][\A p \in Seeds : seed[p].at = "commit" /\ seed'[p].at = "done" =>
       /\ \A u \in DOMAIN accounts :
            u \in DOMAIN accounts' /\ accounts'[u].email = accounts[u].email
       /\ \A u \in DOMAIN accounts' \ DOMAIN accounts :
            \/ Holders(accounts, accounts'[u].email) = {}
            \/ edits > seed[p].since]_seedVars

AsSeeded(rows, i) ==
  \E u \in Holders(rows, EmailOf(i, 0)) :
    /\ rows[u].password = "seed"
    /\ rows[u].verified = Flags(i).verified
    /\ rows[u].complete = Flags(i).complete

(* seed.py:23: what others can see of a run is nothing, or all of it: the  *)
(* password and the flags of every address, whatever was edited meanwhile, *)
(* and the switch, on if the run has lifted it or nobody has touched       *)
(* anything since the run began.                                           *)
CommitsWhole ==
  [][\A p \in Seeds : <<seed[p].at, seed[p].item>>' /= <<seed[p].at, seed[p].item>> =>
       IF seed'[p].at = "done"
       THEN /\ \A i \in Items : AsSeeded(accounts', i)
            /\ seed[p].lifts \/ edits = seed[p].since => operational'
       ELSE UNCHANGED <<accounts, operational>>]_seedVars

(* docs/seed-data.md:13, "run it as often as you want": a run fails only   *)
(* when an address had two accounts or one without a profile before it, or *)
(* a username was taken, or when somebody has edited accounts under it;    *)
(* never because of other runs, killed ones included.                      *)
FailsForCause ==
  [][\A p \in Seeds :
       seed[p].at \notin Ended /\ seed'[p].at = "failed" =>
         ~ seed[p].clean \/ edits > seed[p].since]_seedVars

(* A run ends, whatever rows other runs hold while it waits for them.      *)
SeedsEnd == \A p \in Seeds : seed[p].at \notin Ended ~> seed[p].at \in Ended
=============================================================================
