---------------------------- MODULE Maintenance ----------------------------
(***************************************************************************)
(* The maintenance switch: IsSystemUpMiddleware reads the one row of       *)
(* SystemStatus (platform_configurations) before a request reaches its     *)
(* handler.  The middleware reads first and the handler runs afterwards,   *)
(* while operators move the switch and a first deployment creates it.  The *)
(* endpoint that reports the switch, itself exempt, calls get_status too,  *)
(* and so may create the row.                                              *)
(***************************************************************************)
CONSTANTS
  Workers,   \* the gunicorn worker processes
  Debug,     \* settings.DEBUG, without which the seed command refuses
  DbFails    \* may a query raise OperationalError?

ASSUME FlagsAssumption == Debug \in BOOLEAN /\ DbFails \in BOOLEAN

VARIABLES
  status,   \* the row with pk=1: "up" or "down"; "empty" without the row,
            \* "missing" while the table has not been migrated
  req,      \* req[w]: where worker w stands, and for whom
  reply     \* reply[w]: how its last request ended

vars == <<status, req, reply>>

(* What a request is aimed at: the health check, is-system-up under        *)
(* /api/system-status/, another path of DEFAULT_EXEMPT_PATHS, or any other *)
(* path.                                                                   *)
Paths == {"health", "status", "exempt", "api"}

(* Who sends it.  Superusers come with a session cookie, from the admin    *)
(* site, or with a JWT, from the frontend.                                 *)
Visitors == {"member", "session_superuser", "jwt_superuser"}

Idle == [at |-> "idle", path |-> "health", visitor |-> "member"]

Rows == {"up", "down"}

At(w, at) == req[w].at = at

Goto(w, at) ==
  /\ req' = [req EXCEPT ![w] = [@ EXCEPT !.at = at]]
  /\ UNCHANGED reply

Answer(w, r) ==
  /\ req' = [req EXCEPT ![w] = Idle]
  /\ reply' = [reply EXCEPT ![w] = r]

(* The middleware asks the row whether the handler runs, or answers 503.   *)
Gate(w, row) ==
  IF row = "up" THEN Goto(w, "handler") ELSE Answer(w, "unavailable")

(* get_status has returned the row: the endpoint shows it, up or down.     *)
Found(w, row) ==
  IF req[w].path = "status" THEN Answer(w, "ok") ELSE Gate(w, row)

(* get_status has raised.  The middleware catches that and goes on, and    *)
(* the endpoint does not: a 500.                                           *)
Raised(w, at) ==
  IF req[w].path = "status" THEN Answer(w, "error") ELSE Goto(w, at)

-----------------------------------------------------------------------------
(* request.user comes from AuthenticationMiddleware, that is, from the     *)
(* session.  Tokens are read later, by the REST framework in the view.     *)
SuperuserInMiddleware(visitor) == visitor = "session_superuser"

Exempt(path, visitor) ==
  path \in {"status", "exempt"} \/ SuperuserInMiddleware(visitor)

(* The handler of an exempt request comes next, which for the endpoint is  *)
(* get_status, as the middleware's check is for everybody else.            *)
Entered(path, visitor) ==
  [at |-> IF Exempt(path, visitor) /\ path /= "status" THEN "handler" ELSE "get",
   path |-> path, visitor |-> visitor]

(* Mutant: the health check comes after the switch.                        *)
Arrive_LateHealthCheck(w) ==
  /\ At(w, "idle")
  /\ \E path \in Paths, visitor \in Visitors :
       req' = [req EXCEPT ![w] = Entered(path, visitor)]
  /\ UNCHANGED <<status, reply>>

(* HealthCheckMiddleware stands first and answers by itself; then          *)
(* _is_exempt lets a request through without a look at the row.            *)
Arrive(w) ==
  /\ At(w, "idle")
  /\ \E path \in Paths, visitor \in Visitors :
       \/ path = "health" /\ Answer(w, "ok")
       \/ /\ path /= "health"
          /\ req' = [req EXCEPT ![w] = Entered(path, visitor)]
          /\ reply' = [reply EXCEPT ![w] = "none"]
  /\ UNCHANGED status

(* get_or_create(pk=1) looks for the row.  Without the table that raises   *)
(* ProgrammingError: caught in the middleware, the request passes.         *)
GetStatus(w) ==
  /\ At(w, "get")
  /\ \/ status = "missing" /\ Raised(w, "handler")
     \/ status = "empty" /\ Goto(w, "create")
     \/ status \in Rows /\ Found(w, status)
  /\ UNCHANGED status

(* Mutant: a duplicate key passes for the default row.                     *)
CreateStatus_Unread(w) ==
  /\ At(w, "create")
  /\ Found(w, "up")
  /\ status' = IF status = "empty" THEN "up" ELSE status

(* Mutant: update_or_create with the default.                              *)
CreateStatus_Overwrites(w) ==
  /\ At(w, "create")
  /\ Found(w, "up")
  /\ status' = "up"

(* ... and inserts it, with is_operational's default.  When somebody else  *)
(* has inserted it meanwhile, the key is a duplicate and the row is read.  *)
CreateStatus(w) ==
  /\ At(w, "create")
  /\ \/ status = "empty" /\ status' = "up" /\ Found(w, "up")
     \/ status \in Rows /\ Found(w, status) /\ UNCHANGED status

(* Either statement may raise OperationalError for another reason, a lost  *)
(* connection or a lock timeout: the except clause of the middleware       *)
(* cannot tell, and the request passes unchecked.                          *)
QueryFails(w) ==
  /\ DbFails
  /\ At(w, "get") \/ At(w, "create")
  /\ Raised(w, "unchecked")
  /\ UNCHANGED status

(* get_response: any other handler, none of which writes the row.  The     *)
(* admin site and the seed command do, on their own below.                 *)
Handle(w) ==
  /\ At(w, "handler") \/ At(w, "unchecked")
  /\ Answer(w, "handled")
  /\ UNCHANGED status

-----------------------------------------------------------------------------
(* Migration 0001 creates the table and 0002, in a transaction of its own, *)
(* the row; a duplicate makes it fail.                                     *)
Migrate ==
  /\ \/ status = "missing" /\ status' = "empty"
     \/ status = "empty" /\ status' = "up"
  /\ UNCHANGED <<req, reply>>

(* The change form of the admin site, which can neither add nor delete the *)
(* row, or the shell.                                                      *)
SetStatus ==
  /\ status \in Rows
  /\ status' \in Rows
  /\ UNCHANGED <<req, reply>>

(* platform_configurations/seeds.py, in the transaction of the command:    *)
(* the row is created if need be, and put back to operational.             *)
Seed ==
  /\ Debug
  /\ status /= "missing"
  /\ status' = "up"
  /\ UNCHANGED <<req, reply>>

Serve(w) == GetStatus(w) \/ CreateStatus(w) \/ QueryFails(w) \/ Handle(w)

Next == (\E w \in Workers : Arrive(w) \/ Serve(w)) \/ Migrate \/ SetStatus \/ Seed

Init ==
  /\ status \in {"missing", "up"}
  /\ req = [w \in Workers |-> Idle]
  /\ reply = [w \in Workers |-> "none"]

Spec == Init /\ [][Next]_vars

-----------------------------------------------------------------------------
TypeOK ==
  /\ status \in {"missing", "empty"} \cup Rows
  /\ req \in [Workers -> [at : {"idle", "get", "create", "handler", "unchecked"},
                          path : Paths, visitor : Visitors]]
  /\ reply \in [Workers -> {"none", "ok", "handled", "unavailable", "error"}]
  /\ \A w \in Workers :
       At(w, "handler") => req[w].path \notin {"health", "status"}

(* The switch, as it was read, let somebody without the superuser's        *)
(* exemption through to the handler of a path under it.                    *)
Guarded(w) == At(w, "handler") /\ ~ Exempt(req[w].path, req[w].visitor)

(* Under maintenance and with the requests that had passed the gate ended. *)
Drained == status = "down" /\ \A w \in Workers : ~ Guarded(w)

(* docs/auth.md:124, under maintenance "all non-exempt paths return 503".  *)
(* The switch is read once per request, so handlers that had passed it run *)
(* on; once they have ended, the switch lets nobody through until the      *)
(* maintenance is lifted, a request between get and create included.  (A   *)
(* query that fails still opens the gate, which is "unchecked" here.)      *)
DrainedStaysDrained == [][Drained => Drained' \/ status' = "up"]_vars

(* No request lifts a maintenance, neither one that is checked nor one to  *)
(* is-system-up, which reaches get_status under maintenance too            *)
(* (views.py:22): get_or_create inserts an operational row only where      *)
(* there is none, also when the row appears and goes down between its two  *)
(* statements.                                                             *)
OnlyOperatorsLift ==
  [][status = "down" /\ status' = "up" => SetStatus \/ Seed]_vars
=============================================================================
