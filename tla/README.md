# A TLA+ model of django-base-project

The repository is a Django REST backend: accounts with e-mail registration,
password recovery by mailed tokens, a maintenance switch, throttling; management
commands that seed and preview; deployment workflows; and a script that drives a
coding agent through a task file. This directory holds its specification in TLA+,
configurations that check it with TLC on small instances, and theorems that TLAPS
proves for every instance.

    tlc -config RecoveryRaces.cfg MCPasswordRecovery.tla
    tlapm PasswordRecoveryProofs.tla

`PROJECT.json` lists every run with the module it checks, every hazard and every
theorem, and maps each definition to the lines it models.

## 1. The system

| Component | State | Operations | Modelled in |
|---|---|---|---|
| Password recovery (`auth_api/views.py`, `models.py`) | `TokenRecovery` rows; the password column | `recovery_send_mail`, `recovery_check_token`, `recovery_confirm` | `PasswordRecovery` |
| Users (`users/views.py`, `serializers.py`, `models.py`) | `User` and `Profile` rows | `partial_update`, `complete_register`, `toggle_block`, `destroy`, `delete_test_users`, registration, the `post_save` receiver; `UserDetailsView` | `UserAccounts` |
| Password change (`auth_api/views.py`) | the password column | `PasswordChangeViewModify`, with the setting either way | `PasswordChange` |
| These as one service (`django_base/urls.py`) | all of these | all of these | `AccountService`, implementing `AccountPromise` |
| Throttling (`custom_settings.py`) | one cache per worker process | admit or refuse a request; the cull of a full cache | `Throttle`, implementing `RateLimit` |
| Maintenance switch (`platform_configurations/`, `health_middleware.py`) | the row `SystemStatus(pk=1)` | middleware, `system_status`, migrations, admin form, seed | `Maintenance` |
| Permission dispatch (`base_viewsets.py`) | class-level lists | `get_permissions` | `PermissionDispatch` |
| Seed command (`users/seeds.py`, `factories.py`, `platform_configurations/`) | accounts and the switch, in a transaction | get, create, save, commit, roll back | `SeedCommand` |
| Mail preview (`preview_emails.py`) | files, counts | render, send, report | `MailPreview` |
| Deployment (`.github.base/workflows`) | runs, the image tag, the service | push, build, release, fail | `Deployments` |
| Task loop (`scripts/run-tasks.sh`, `detect_quota.py`) | the task file, counters, an iteration's log | preflight, agent, quota handling, stall accounting | `TaskLoop` |
| Log pipeline (`run-tasks.sh:198`, `format-stream.py`) | four processes, three pipes | print, copy, format, raise, end | `LogPipeline`, and with the loop `TaskRun`, implementing `TaskLoop` |
| API schema check, utilities, admin configuration, settings, templates | see section 7 | | not modelled |

**How they interact.** `entrypoint.sh` starts gunicorn with three synchronous
workers: each is a process that serves one request at a time. All workers share
the database and nothing else. A request passes `HealthCheckMiddleware`, then
the maintenance switch, then authentication, permissions and throttling, then
the handler. Handlers meet in the tables: a confirmation, a password change and a
profile update all save the whole `User` row, a deletion cascades to profiles and
tokens. The seed writes the tables of the API and lifts the switch. The loop
reads the log that its pipeline has left.

**What is hard.** The settings have no `ATOMIC_REQUESTS`, and no view opens a
transaction: every ORM statement commits alone, so a handler is a sequence of
statements with those of the other workers in between, on instances that may be
older than their rows. Workers can be killed (gunicorn's timeout) between any two
statements. `save()` writes every column, and inserts a row that has vanished.
Mail is sent after the commit and its failure is swallowed. Caches belong to a
process, and forget. The seed is one transaction that waits for the rows of
others. The pipeline breaks from its end when the formatter raises. The task loop
depends on an agent that may do and print anything.

**What makes the parts correct.**

* Recovery: a token changes a password and is gone afterwards; a request leaves
  one live token, and a mail with it; an older reset never overwrites a newer.
* Users: what a block, a deletion, a completion or a new password did is not
  undone by requests that know nothing of it; every user has a profile; some
  admin can always log in; every request amounts to one change of the account.
* Throttle: in no window does a client exceed its rate by more than the number of
  processes explains.
* Maintenance: no handler starts under maintenance, and only operators end it.
* Permissions: what a request is held to depends on its class, not on the
  requests served before.
* Seed: all or nothing, in place instead of once more, and it can always be run
  again.
* Preview: one refused mail costs only itself, and is reported.
* Deployment: what is served in the end is the newest commit.
* Task loop: it ends; it gives up only for the stated reasons; a diligent agent
  gets through; a quota that the agent meets is in the log that is searched.

`PROJECT.json` lists under `hazards` the places where each of these could go
wrong, with the properties that watch over them.

## 2. Modules

    Accounts ──┬── PasswordRecovery ── PasswordChange ──┐
               └── UserAccounts ────────────────────────┴── AccountService ··> AccountPromise
    Throttle ··> RateLimit        Maintenance        PermissionDispatch
    SeedCommand, MailPreview, Deployments ── Operations
    TaskLoop, LogPipeline ── TaskRun ··> TaskLoop

A dotted arrow is a refinement. `MC*` modules add symmetry sets and values that a
`.cfg` cannot write; `*Proofs` modules hold the theorems. An operator that begins
with the comment "Mutant" is a plausible bug: put in the place of the definition
whose name it extends, it makes TLC find a property violated.

**Accounts** has the tables as functions and sets (`users`, `profiles`,
`tokens`), and `req[w]`, the request worker `w` serves: the statement it executes
next (`at`) and the instances it holds (`copy` of the user, `token`, `profile`).
`SaveUser` is `Model.save()` with its UPDATE-else-INSERT, `CreateProfile` the
receiver of `post_save`, `DeleteUsers` a cascading delete, `Crash` the death of a
worker. A password is named by the token that set it, 0 at registration. A
replaced worker keeps its name here: what matters is how many there are at a time.

**PasswordRecovery** has one action per statement of `views.py`:

| Action | Code |
|---|---|
| `RequestToken` | `get_user`, or a logged `DoesNotExist` and the same 200 |
| `RequestExists`, `RequestGet`, `RequestDelete`, `RequestCreate` | lines 72-76: `exists()`, `get()`, `delete()`, `create()` |
| `RequestMail` | lines 78-107: mail, or the logged exception |
| `CheckToken` | `recovery_check_token` |
| `ConfirmUser`, `ConfirmToken`, `ConfirmSave`, `ConfirmSignal`, `ConfirmDelete` | lines 145-160 |
| `AccountDeleted` | what `UserViewSet` may do underneath, when `Deletions` allows it: an account goes, its tokens with it |
| `Tick`, `RecoveryCrash` | the clock; gunicorn kills a worker |

`get()` wants exactly one row; anything else is an exception the handler logs and
answers with 200. `Valid` counts a token at the instant it expires, as line 41
does. A token's random value stands for a fresh key: collisions are left out.

**PasswordChange** compares the old password with the instance that
authentication loaded, sets the new one on it and saves it whole. With
`ByEmail` (`PASSWORD_CHANGE_BY_EMAIL`, true in `configurations.py`) every request
is a 400.

**UserAccounts** does the same for `UserViewSet`. Updates load the instance in
`get_object` - or use the one authentication loaded, for "me" and for
everybody who is not staff - and save it whole; `UserDetailsView` of dj-rest-auth, with
the same serializer, does so for accounts that are not complete as well; `toggle_block` saves one column;
the nested profile is read, then saved with the read-only flag it was read with.
`complete_register` checks, saves names, saves the profile, reads it again, sets
the flag. Registration inserts the user, then the profile, then saves again.
Uniqueness of e-mail addresses is not modelled here, since users are told apart by
key; it is in `SeedCommand`, where it matters.

**AccountService** runs all three over the same workers and tables.
**AccountPromise** is what a client would think that the accounts do: join, issue
and withdraw a token, redeem it for a password, (de)activate, complete, remove,
each in one step that touches nothing else. The refinement maps a row and its
profile to an account, and the token row of a user to the token that is out.

**Throttle** keeps a history per process and key, because no `CACHES` is
configured and Django's default cache is process-local. Keys of all three throttles
(`anon`, `user`, the scope `password_recovery`) share it, and a full cache (300
entries) throws some of them out: which ones is left open, and `forgotten`
remembers them. A refused request (429) changes nothing and is a stutter. The check
and the update are one step: a worker serves one request at a time. **RateLimit** is
one sliding window per key with a limit of the rate times the processes.

**Maintenance** separates the two statements of `get_or_create`, so that
migrations and operators can come between them. The middleware calls it for every
request that is not exempt, and so does the endpoint `system_status`, which is: there
the row is shown instead of obeyed, and an exception is a 500 instead of a pass. Only
the row `pk=1` is modelled; the admin form can neither add nor delete rows. A query
of the middleware that fails takes the request to `unchecked`, a handler that runs
although nobody has read the switch.

**PermissionDispatch** keeps the lists of the class bodies as objects, since
`permission_classes += self.extra_permissions` extends them in place.
`extra_permissions` is a documented hook that no viewset of the repository uses;
the module checks the hook.

**SeedCommand** has a run as a transaction: `own` holds the rows it has written,
which others can neither see nor write until it commits or is rolled back.
`UserFactory` is `get_or_create` by e-mail address followed by the hooks and a
save; usernames are the local parts of addresses, where registration uses the whole
address. Around it the API and the operators register, verify, block, delete, change
passwords and create superusers. A registration commits the user first and its profile
afterwards (`InsertProfile`), or never when its worker is killed in between; a seed that
finds such a user fails at `obj.profile` (factories.py:50). The `EmailAddress` is part of
the user's row, `is_test_user` of a registration is set with the INSERT, and the
statements of a hook are one step, since others see none of them before the commit.

**MailPreview** is `Command.handle` statement by statement; rendering and sending
may each raise. **Deployments** has the runs of the ECS workflows (no concurrency
group) and of the EC2 workflows (a group, without cancelling what is in
progress) over one image tag. **Operations** is the three for TLC: they share no
state, so a behaviour is one of one of them, chosen by `tool`.

**TaskLoop** has the script's loop as five steps and the agent as an arbitrary
change of the number of pending tasks and an arbitrary log, in which phrases of the
weekly cap, of a session window and reset times come as they like. Times are minutes.

**LogPipeline** is `claude | tee -a run_log | tee iter_log | format-stream.py`: each
process reads what the one before has passed on; a full pipe blocks its writer; a
pipe without a reader ends it. A line has a shape - shown, skipped, or one at which
`format_event` raises -, the quota phrases that it matches (`says`) and the quota whose
end it reports (`quota`), if any: the message of the weekly cap matches both kinds of
phrases, and lines that only talk about a quota match some as well. **TaskRun** puts it in the
place of the step `RunAgent`: the log that `detect_quota.py` searches is what the
second `tee` got through.

Django, the REST framework, dj-rest-auth, allauth, drf-writable-nested,
factory_boy, gunicorn, GitHub's runners, the shell's pipes and the agent are
outside the repository: modelled from how the code uses them, and marked external
in the map.

## 3. What the runs show

Runs that hold:

| Run | Instance | Shows |
|---|---|---|
| `RecoveryFaults` | one account, two workers, mail failures, crashes, deletions | An account has at most one live token per worker, whatever interleaves, fails or dies (`OneTokenPerMaker`). Two tokens that have expired block the recovery of their account: `get()` raises on every later request, and only the deletion of the account ends that (`WedgeIsPermanent`). |
| `RecoveryRaces` | two accounts, two workers, deletions, no crashes | A token that was used is gone once its worker has answered (`SpentTokenRetired`), and leaves the table in the end (`SpentTokenLeaves`). |
| `ServiceSerial` | all views, two admins, one worker, crashes | Served one after the other, requests implement `AccountPromise` (`KeepsPromise`), also when they are cut anywhere: each changes an account in one respect, a token is out alone, a deleted account stays away. A mail follows every request that is not cut (`MailArrives`), resets take effect in the order of their tokens (`ResetsInOrder`), a completion that is not refused is visible (`CompletionArrives`), and admins cannot lock everybody out (`SomeAdminActive`). |
| `ServiceRaces` | all views and the password change, an admin, a member, two workers | A user lacks a profile only while one is about to be inserted (`ProfileOrSignal`). A deletion, a completion, a block and a new password are final as soon as no request holds an older instance; from then on a password stays as it is but for a confirmation or a change (`GoneStaysGone`, `CompletionSettles`, `BlockSettles`, `PasswordSettles`). |
| `ThrottleWindows` | two keys with different windows, a cache with room for two, two workers, a replacement | The rate holds per window and process unless the cache had to forget the key (`WindowPerProcess`); the processes implement one limiter (`OneLimiter`). |
| `MaintenanceSwitch` | two workers, migration, operators, seed, failing queries | No request lifts a maintenance (`OnlyOperatorsLift`). Once the handlers under way have ended, the switch lets nobody through (`DrainedStaysDrained`). |
| `PermissionLists` | four viewsets that share, own and lack lists | A request is held to what its class declares and, beyond that, at most to what classes with the same list add (`RequiredAsDeclared`). |
| `TaskLoopAgents` | agents that complete, idle or add tasks; every log | The loop gives up for stalls only after N of them in a row, until the first quota phrase (`StallsInARow`); it sleeps within its ceiling (`SleepWithinCeiling`); it ends once agents stop adding tasks (`Terminates`), and an agent that advances gets through (`DiligentCompletes`). |
| `TaskRunPipeline` | lines that are shown, skipped and raised at; pipes of one line; a session window, the weekly cap and talk of them, once | The loop with its pipeline implements `TaskLoop` (`ImplementsLoop`). A quota that the agent ran into is overlooked only if the formatter has raised (`QuotaNotJudged`), whose lines are otherwise all delivered before the log is read (`AllDelivered`); under the same condition the weekly cap ends the loop, whatever else was printed (`WeeklyCapEnds`). The pipeline ends however its processes die (`PipelineEnds`). |
| `Operations` | two seeds of a persona and a bulk user, killed or not, under two edits; two samples and a mistyped one; three pushes | A seed commits all or nothing, accounts and switch (`CommitsWhole`), updates what there is instead of duplicating it (`UpdatesInPlace`), fails only for a cause in the accounts and never because of other runs (`FailsForCause`), and ends (`SeedsEnd`). A preview tries every sample and reports what failed (`BatchAccounted`). Deployments end with the newest commit in a concurrency group, and with what the image tag names without one (`LatestServed`). |

`TypeOK` (`ServiceTypeOK`, `SeedTypeOK`) of each says which instances a handler
holds at which statement, and that what has ended holds nothing.

Runs that TLC finds violated, each a disagreement with a document:

| Run | What happens |
|---|---|
| `RaceLosesMail` | Two requests of one account: one finds two tokens, or none where `exists()` had seen one, and ends in a logged exception without a mail. `docs/auth.md:84` says that it sends one. |
| `RaceRestoresPassword` | A profile update that loaded the user before a confirmation writes the replaced password hash back. `docs/auth.md:102` leaves the recovery flow as the only way to change a password. |

What the same models also say, seen in the exceptions that the properties have to make:

* Two requests that both find no token insert one each, so `docs/auth.md:82` holds for
  one worker only; the bound for more is one token per worker.
* Two confirmations can validate a token before either deletes it, so it is used once
  per worker at most (`UsedOncePerWorker`). A crash between lines 159 and 160 leaves a
  used token that works until it expires; `SpentTokenRetired` is stated without
  crashes.
* An instance loaded before a block, a completion or a deletion undoes it when it is
  saved: `is_active=True` is written back, the profile's read-only flag is, and a row
  that is gone is inserted again. The four "settles" properties are therefore
  stated from the moment on at which no such instance is left, and `KeepsPromise`
  for one worker.
* A worker killed between the INSERT of a user and the receiver leaves a user without
  a profile, for whom `complete_register` answers 500 ever after; `ProfileOrSignal` is
  stated without crashes.
* Two workers may save two confirmations of one account in either order;
  `ResetsInOrder` is checked for serial requests.
* Two admins served by two workers can block each other at once; `SomeAdminActive` is
  checked for serial requests.
* `partial=True` drops `required=True`, so that a registration completes without
  names, against `docs/api-contract.md:56`.
* Each worker process counts for itself: three times the rate of `docs/auth.md:73`
  gets in, and more when workers are replaced or their caches full.
* The maintenance middleware knows the user of a session, not that of a token: a
  superuser of the API gets the 503, `docs/api-contract.md:64` notwithstanding. Every
  `OperationalError` is taken for a missing table and opens the gate (`unchecked`).
* `extra_permissions` reach the base class whose list a viewset inherits
  (`Additions` in `RequiredAsDeclared`), against `docs/conventions.md:115`.
* An iteration with a quota phrase in its log is not judged: progress in it does not
  reset the count of stalls. The fallback sleep is not compared with the ceiling.
  Quota phrases in what the agent reads or writes count like real ones, and one of
  the weekly cap ends the loop: the code cannot tell them apart. The prompt names `tasks.md` whatever `--tasks-file` says
  (`SameFile`); the run sets these so that the claims of the script can hold.
* A JSON line that is no object, or an event with a null `message`, ends the
  formatter; the two `tee` and the agent then end one after the other at their next
  write. A quota phrase printed in that stretch is not in the log, and the iteration
  counts as a stall: the exception in `QuotaNotJudged`.
* The factory's sequence counts the personas too: the bulk users are `user5` to
  `user54`, where `docs/seed-data.md:31` has `user0` to `user49`.
* An account without a profile, left by a registration that stands or was killed
  between its two INSERTs, makes every seed fail that has its address.
* E-mail addresses are not unique in the table. Once somebody registers the address
  of a persona that is not verified, `get_or_create` raises
  `MultipleObjectsReturned` in every later seed, and a username that somebody has
  given to a superuser makes them fail with an `IntegrityError`. `Clean` in
  `FailsForCause` names these three causes.
* A persona that is seeded as blocked and has been unblocked stays active: `is_active`
  is given at creation only.
* Without a concurrency group (ECS), an older commit may be the one that is served in
  the end; `LatestServed` has `grouped` as its hypothesis for the newest commit.
* `docs/deployment.md:16` speaks of four workers where `entrypoint.sh` starts three.

## 4. Bounds

* Two workers: every race here is between two handlers, and a third handler can
  be the next request of either. The proofs cover any number.
* One or two accounts: handlers of different accounts touch no common row, except
  for admins and their targets and for `delete_test_users`, hence an admin and a
  member, and two admins where the question is about them.
* `MaxTokens`: two suffice for a race, a third for what comes after it; `MaxTime`
  lets a token expire (`Expire` 1 of 1 or 2 ticks). `ServiceRaces` has one token or
  password and no clock: its question is what the other views' writes do to the row
  and the token of a confirmation, or to a changed password. Names, of which none of its
  properties speaks, are blank throughout (`NameInputs`).
* `Throttle`: rates 2 in a window of 2 and 1 in a window of 1 instead of 5 in an
  hour and 60 in a minute, 4 instants and up to 6 admissions through two processes
  and a third that replaces one. A cache for two keys is full as soon as the second
  is written (`CacheSize` 2), which is what 300 others do.
* `PermissionDispatch`: lists of up to 6 entries, two or more extensions of each.
* `TaskLoop`: up to 4 tasks, 3 stalls and 3 quota events: each counter reaches its
  limit and starts again. Reset times lie in the past, below and above the ceiling.
* `TaskRun`: pipes of one line (the smallest that can be full), up to 4 lines in an
  iteration - one in each process at a time -, two stalls, one iteration with quota
  phrases.
* `Operations`: a persona that is neither verified nor complete nor active, and a bulk
  user, who is all of these: addresses that others may register and that they may not.
  Two edits, since a row may be registered and then verified, blocked or deleted; the
  profile that follows a registration is none. Two seeds, which is what a wait for a row
  takes. Two samples and an unknown key. Three pushes: one in progress, one waiting, one
  that takes its place.

A request starts only while its token fits `MaxTokens` (`Drawing` counts those
under way), so that the bound never stops a handler halfway. `CHECK_DEADLOCK` is
off where the script or the commands end (`TaskLoop`, `TaskRun`, `Operations`) and
where the bounds stop the clock (`Throttle`). `SYMMETRY` is used in runs without
liveness only.

## 5. Fairness

* `PasswordRecovery!FairSpec` and `AccountService!FairServiceSpec`: weak fairness of
  `RecoveryStep(w)` (`Runs(w)`), or of `ServiceStep(w)` (`Serves(w)`), for every worker. A worker that has taken
  a request is a running process with nothing to wait for; its steps block on no
  other worker. No request need ever arrive, and the clock need not tick.
  Workers may be killed in `ServiceSerial`: `MailArrives` and `CompletionArrives` count
  a cut connection (`lost`) as an end.
* `TaskLoop!FairSpec`: weak fairness of `Next`. The script is one process and
  `--max-turns` bounds the agent. `Terminates` has as its hypothesis an agent
  that adds no task from some iteration on; quota events are bounded by `MaxQuotas`.
  Without these the loop may rightly go on.
* `TaskRun!FairRunSpec`: weak fairness of the loop's steps, of the flow through the
  pipeline and of the agent's exit: processes run, and `--max-turns` ends the agent.
  That it prints or edits anything is not assumed.
* `Operations!OperationsSpec`: strong fairness of a seed's steps, per process (`Turns(p)`). A step
  may have to wait for a row that other runs take again and again; databases queue
  those that wait, so that each gets its turn. That the lock waits of sqlite, the
  default of development, time out is not modelled.

## 6. Proofs

TLAPS checks these theorems for all values of the constants that satisfy the named
assumptions of the modules (`NoneAssumption`, `WorkersAssumption`,
`BoundsAssumption`, `FaultsAssumption`, `ThrottleAssumption`, `LoopAssumption`,
`RunAssumption`, `PipelineAssumption`, `LinesAssumption`, `DispatchAssumption`,
`PushesAssumption`, `InstanceAssumption`, ...). The bounds `MaxTokens`, `MaxTime`, ...
are arbitrary naturals in them, and crashes, mail failures and deletions are allowed or
not.

**PasswordRecoveryProofs.** `TypeCorrect`: `TypeOK` is inductive; it says which
instances a handler holds at which statement and that its token belongs to its
account. `OneTokenPerMaker` is not inductive: nothing in it says that a worker
about to insert has no row left. `MakersInv` adds it: at `request_create` the worker
has none of its own there (`NoOwnRowAtCreate`), because at `request_delete` any own
row is the very one it holds (`OwnRowHeldAtDelete`), because `get()` saw one row
only. Others may insert in between, but never a row of this worker's; crashes and
deletions only take away. `MakersApart` follows, and `LiveTokensBounded` by mapping
rows to their makers injectively. `WedgedForever` is an action property: no step of a
wedged account that goes on existing reaches a statement that deletes or inserts.
`SpentRetired` and `OneUsePerWorker` assume no crashes in the property itself;
`SpentInv` adds that tokens have owners, that keys are unique, that a held token
whose key is in the table is that row, and that a re-inserted account has no tokens.

**ThrottleProofs.** `TypesHold`, `ProcessKeepsRate` and `DeploymentKeepsRate`.
`WindowInv` is `TypeOK`, `WindowPerProcess` and `CacheComplete`: the cache of a running
process still has every admission of the window to a key that it has not forgotten.
`DeploymentKeepsRate` maps each admission in the window to its process and its rank
there. `ImplementsOneLimiter` is the refinement: `Numbered` makes every admission
new, and `DeploymentKeepsRate` bounds the window that it closes.

**TaskLoopProofs.** `CountersInRange` (`TypeOK`). `CeilingHolds` assumes
`Fallback <= MaxQuotaWait`, since the code never compares the two.
`StallsAreConsecutive` needs no assumption: `StreakCovers` says
that until the first quota phrase the streak is at least the count of stalls.

**TaskRunProofs.** `RunInv` (`RunCorrect`) consists of the types of loop and
pipeline, of `Orderly` - unless the formatter has raised, a process ends only after
the one before it and with nothing left to read -, and of what is known of the task
file, the quota and the log (`WorkKnown`, `HitKnown`, `LogKnown`).
`EveryLineDelivered` follows by going through the pipe from its end, and
`QuotaSparesJudgement` and `WeeklyCapEndsTheLoop` (`QuotasHeeded`), since a log with
every line has the phrase, and `detect_quota.py` looks for the weekly cap first.
`PipelineImplementsLoop` is the refinement: until the pipeline has ended the loop of
`TaskLoop` stays at `"run"` with the tasks it had; `EndPipeline` is its `RunAgent`
(`EndIsRunAgent`), with the edits of the iteration for the effect of the agent.
`RunAssumption` is what that takes of the constants: an agent may edit nothing.

**MaintenanceProofs.** `SwitchInv` is `TypeOK` and `NoHealthCheck`: health checks are
answered before the switch. `OnlyOperatorsMayLift`: of all steps that write the row
only those of operators can turn it from down to up, since `CreateStatus`, for the
middleware as for `system_status`, inserts and never updates. `MaintenanceHolds`: no step leads from a drained maintenance to a
handler, failing queries (`unchecked`) aside, which `Drained` excludes.

**PermissionProofs.** `HeldToWhatIsDeclared`, with `ListsBetween`: a list is always
between what was declared and that with the additions of the classes that have it.

**OperationsProofs.** `DeploymentsConverge`, for any number of pushes. `DeployInv`
says of a concurrency group that at most one run is in progress, that only the
newest waits and only for it, and that an older one is in progress only while the
newest waits (`OneAtATime`); hence what has become of the newest (`NewestKnown`).
Group or not, service and tag differ only while a release is due or has failed
(`Behindhand`).

The same module proves the safety of the seed for any number of processes, personas,
bulk users and edits: `SeedTypes`, `SeedsUpdateInPlace`, `SeedsCommitWhole`
and `SeedsFailForCause`. `SeedInv` says that no row is written by two transactions
(`OneWriter`); that a run keeps the address of every committed row it writes, and that
a row it inserts has the local part of its address for a username (`WritesOwn`), so
that a commit changes no address under another run; that an account a run has found has
the address it wants, or is gone (`FoundStands`); and that the items a run has been
through are seeded in its own rows (`SeededSoFar`), which no later item overwrites, since
addresses differ. `SeedsUpdateInPlace`, and of `SeedsCommitWhole` what concerns the
switch, need `GroundInv`: until somebody edits, the address of a row that a run has
inserted has no committed account, since another run that inserts it would have to wait
(`NewRows`), and a run about to commit lifts the switch unless it is on (`SwitchOn`).
The last theorem needs `CauseInv`: until somebody edits accounts after a clean start, no
two accounts, committed or not, have one address, none of these is without a profile,
and no username of the factory has another address (`Undisputed`). It also says that a
found account is gone only by an edit. `SeedAssumption` asks for at least one bulk user; the code has 50.

**AccountServiceProofs.** Every step of every request is one of a few kinds, and
`StepOf` names them: what the step does to its own request (`Moves`) and what it
writes (`Writes`: a saved row, the two columns of `complete_register`, a profile, a
new account, a deletion, or nothing). `EveryStep` goes through the actions of the
three viewsets once; the theorems then argue about kinds. `ServiceInv` is
`ServiceTypeOK` and `UnbornFresh`: a key not yet given out has no row, and no request
holds an instance of it. It is needed because `GoneStaysGone`, `BlockSettles` and
`PasswordSettles` speak of accounts nobody holds, and an insertion must not be able to
bring such an account back. With it `ServiceTypes`, `DeletionsAreFinal`, `BlocksHold`,
`PasswordsHold`, `CompletionsHold` and `ProfilesFollow` hold for any number of workers
and accounts, crashes and failing mails included. `InstanceAssumption` says that
`None` is neither a row, nor a boolean, nor a number.

The rest of the module assumes `OneWorker`. `SerialInv` says what a request then
stands on (`Stands`): its instance is the row, apart from the names and the password it
sets; its token is still in the table, and the only one of its account; its profile is
the row. So a statement does to the tables what it is for and nothing else
(`SerialStep`: ten kinds), and a save never inserts. `PromiseKept` maps each kind to a
step of `AccountPromise` or to a stutter. `PasswordsMoveOn` adds `InOrder`: a password is
no newer than the token out for its account, and no token newer than the last one
drawn. `OneWorkerConfirmsOnly` is what `RaceRestoresPassword` refutes for two workers:
with one, no request of the modelled routes but a confirmation changes a password. All three assume `ByEmail`:
otherwise a changed password is newer than the token that is out, and a confirmation may
replace it by that token's. `AdminsRemain` assumes that there is an admin; `AdminInv` adds that whoever a toggle or a deletion aims at, another admin is
active, because the one who sent it is, and that no admin is a test user.

**The preview.** `BatchesAddUp`, in OperationsProofs, for any list of samples:
`PreviewInv` says that a preview has tried the samples asked for up to where it
stands (`next`), that the two counts together are their number, and that what has
landed are as many of them as the count of what was sent.

**Liveness.** The prover reasons with the fairness conditions, but ENABLED and a
temporal induction over numbers are out of its reach. Two things follow.

First, every theorem on liveness takes from ENABLED one fact as its hypothesis, named
where it is used: that a statement whose guard holds can be executed
(`DeletesCanRun`, `RequestsCanRun`, `CompletionsCanRun`, `LoopCanGoOn`, `PipeCanGoOn`,
`SeedsCanGoOn`). Each says of every reachable state what the actions show at a glance:
that a guard's cases are all provided for. None narrows what the environment does, and
TLC, which computes ENABLED, finds the properties below to hold without them.

* `SpentTokensLeave` (PasswordRecoveryProofs) is `SpentTokenLeaves` without crashes: a
  token that has set a password and is still there is held by the worker that set it, at
  its last statement (`SpentInv`), and nobody can put it back.
* `MailsArrive` and `CompletionsArrive` (AccountServiceProofs) are `MailArrives`, for a
  mail server that takes every message, and `CompletionArrives`, for one worker and any
  number of accounts. `SerialInv` carries both: a request that stands on the very rows of
  the tables goes from each statement to the one after it, and never to a 500.

Second, where what ends does so because a number runs out, the theorems show that it
runs out, and TLC that it ends:

* `EveryRoundCounts` and `DiligenceAdvances` (TaskLoopProofs) for `Terminates` and
  `DiligentCompletes`: the triple of quota phrases, tasks and stalls goes down its
  lexicographic order in every iteration once nobody adds tasks; with a diligent agent the
  number of tasks goes down.
* `PipelineDrains` (TaskRunProofs) for `PipelineEnds`. `Left` counts the lines that three
  processes have yet to read and the processes that have yet to end. Once the agent has
  ended somebody can always go on - a full pipe has a reader behind it, an empty one a
  writer that has ended (`NobodyStuck`) -, and whoever does lowers `Left` (`FlowDrains`).
* Three theorems for `SeedsEnd` (OperationsProofs), on processes that wait for each
  other's rows. `RunsNeverGoBack`: of its at most `2 * LastItem + 4` places a run never
  takes one again. `OnlyWaitingHalts`: with its turns a run can only stop where it waits
  for one that is further on, which is then at a halt as well or gets past. And
  `SeedsNeverDeadlock`, the invariant: while a run is under way, some run can go on.
  `QueueInv` adds to `SeedInv` that the rows a run has written are those of items it has
  left behind (`BehindIt`); a row that another waits for is that of the item at which
  the other stands, so every wait leads forward (`WaitsAhead`), and the run that is
  furthest on waits for nobody.

**Model-checked only:** the step from these to `Terminates`, `DiligentCompletes`,
`PipelineEnds` and `SeedsEnd`, an induction over the numbers that run out. Every
invariant and every action property of the runs that pass is a theorem.

## 7. Not modelled

* The pages of allauth (`allauth.urls`, `auth_api/urls.py:33`), which change and reset
  passwords by forms of its own, and the sessions that they use: what is said of
  passwords, `OneWorkerConfirmsOnly` above all, is said of the modelled routes.
* Login, logout and the tokens of JWT, which leave the modelled columns alone.
* `list` and `retrieve`, which read; the `EmailAddress` row of superusers;
  `X-Forwarded-For`.
* Database errors, except for the switch, whose code handles them; the lock timeouts
  of sqlite.
* What `format-stream.py` prints, and `pretty-log.sh`, which replays a saved log
  through it.
* The deployment steps of external services (task definitions, rollbacks, SSH), the
  CI checks and the container files.
* `check_api_schema.py` and `openapi.py`: pure functions over syntax trees and lists
  of endpoints without state, whose reference definition would be their text again.
* `NoPutViewSetMixin` and `get_serializer_class`, which read class attributes that
  nothing changes.
* Validators, upload names, pagination, random strings: pure functions of the
  utilities. Admin configuration, the allauth adapter, list filters, settings,
  templates: declarations.

## 8. Plan

Done: the core in the order Accounts, PasswordRecovery, UserAccounts,
AccountService; Throttle, Maintenance, PermissionDispatch, TaskLoop; then the
password change, the abstract specifications `AccountPromise` and `RateLimit` with
their refinements, the pipeline of the loop, the seed, the preview and the
deployments; the proofs of section 6, those on liveness included as far as they go.
Left: lock timeouts of the database under seeds, which never wait in a circle among
themselves (`SeedsNeverDeadlock`) but may wait too long, and workers that are replaced
while their caches fill in `AccountService`.
