------------------------- MODULE MaintenanceProofs -------------------------
(***************************************************************************)
(* The maintenance switch for any number of workers, with queries that     *)
(* fail or not, and a seed command that runs or refuses.                   *)
(***************************************************************************)
EXTENDS Maintenance, TLAPS

Requests == [at : {"idle", "get", "create", "handler", "unchecked"},
             path : Paths, visitor : Visitors]

Replies == {"none", "ok", "handled", "unavailable", "error"}

(* HealthCheckMiddleware answers by itself: no request for the health      *)
(* check is under way anywhere.  One for is-system-up stands at one of the *)
(* statements of get_status.                                               *)
NoHealthCheck ==
  \A w \in Workers :
    \/ At(w, "idle")
    \/ /\ req[w].path /= "health"
       /\ req[w].path = "status" => At(w, "get") \/ At(w, "create")

SwitchInv == TypeOK /\ NoHealthCheck

-----------------------------------------------------------------------------
LEMMA InitSwitch == Init => SwitchInv
  BY DEF Init, SwitchInv, TypeOK, NoHealthCheck, At, Idle, Rows, Paths, Visitors

(* What a step may make of req and reply.                                  *)
Served == /\ req' \in [Workers -> Requests]
          /\ reply' \in [Workers -> Replies]
          /\ NoHealthCheck'

LEMMA GotoServes ==
  ASSUME SwitchInv, NEW w \in Workers, NEW at \in {"handler", "create", "unchecked"},
         ~ At(w, "idle"), at = "create" \/ req[w].path /= "status", Goto(w, at)
  PROVE  /\ Served /\ req'[w].at = at
         /\ req'[w].path = req[w].path /\ req'[w].visitor = req[w].visitor
         /\ \A v \in Workers : v /= w => req'[v] = req[v]
  <1>1. req' = [req EXCEPT ![w] = [req[w] EXCEPT !.at = at]] /\ reply' = reply
    BY DEF Goto
  <1>2. req \in [Workers -> Requests]
    BY DEF SwitchInv, TypeOK, Requests
  <1>3. req'[w] = [at |-> at, path |-> req[w].path, visitor |-> req[w].visitor]
    BY <1>1, <1>2 DEF Requests
  <1>4. \A v \in Workers : v /= w => req'[v] = req[v]
    BY <1>1, <1>2
  <1>5. req' \in [Workers -> Requests]
    BY <1>1, <1>2, <1>3 DEF Requests
  <1>6. NoHealthCheck'
    BY <1>3, <1>4 DEF SwitchInv, NoHealthCheck, At
  <1> QED BY <1>1, <1>3, <1>4, <1>5, <1>6 DEF SwitchInv, TypeOK, Served, Replies

LEMMA AnswerServes ==
  ASSUME SwitchInv, NEW w \in Workers, NEW r \in Replies, Answer(w, r)
  PROVE  /\ Served /\ req'[w].at = "idle"
         /\ \A v \in Workers : v /= w => req'[v] = req[v]
  <1>1. Idle \in Requests
    BY DEF Idle, Requests, Paths, Visitors
  <1>2. req \in [Workers -> Requests] /\ reply \in [Workers -> Replies]
    BY DEF SwitchInv, TypeOK, Requests, Replies
  <1>3. req'[w] = Idle /\ \A v \in Workers : v /= w => req'[v] = req[v]
    BY <1>2 DEF Answer
  <1>4. NoHealthCheck'
    BY <1>3 DEF SwitchInv, NoHealthCheck, At, Idle
  <1> QED BY <1>1, <1>2, <1>3, <1>4 DEF Answer, Served, Idle

(* A request that has just arrived.                                        *)
LEMMA ArriveServes ==
  ASSUME SwitchInv, NEW w \in Workers, Arrive(w)
  PROVE  /\ Served /\ status' = status
         /\ \/ req'[w].at \in {"idle", "get"}
            \/ Exempt(req'[w].path, req'[w].visitor)
         /\ \A v \in Workers : v /= w => req'[v] = req[v]
  <1>1. PICK path \in Paths, visitor \in Visitors :
          \/ path = "health" /\ Answer(w, "ok")
          \/ /\ path /= "health"
             /\ req' = [req EXCEPT ![w] = Entered(path, visitor)]
             /\ reply' = [reply EXCEPT ![w] = "none"]
    BY DEF Arrive
  <1>2. status' = status
    BY DEF Arrive
  <1>3. CASE path = "health" /\ Answer(w, "ok")
    BY <1>2, <1>3, AnswerServes DEF Replies
  <1>4. CASE path /= "health"
    <2> DEFINE r == Entered(path, visitor)
    <2>1. r \in Requests /\ r.path = path /\ r.visitor = visitor
          /\ (r.at = "get" \/ Exempt(path, visitor))
          /\ (path = "status" => r.at = "get")
      BY DEF Requests, Entered
    <2> HIDE DEF r
    <2>2. req' = [req EXCEPT ![w] = r] /\ reply' = [reply EXCEPT ![w] = "none"]
      BY <1>1, <1>4 DEF r
    <2>3. req \in [Workers -> Requests]
          /\ reply \in [Workers -> Replies]
      BY DEF SwitchInv, TypeOK, Requests, Replies
    <2>4. req'[w] = r /\ \A v \in Workers : v /= w => req'[v] = req[v]
      BY <2>2, <2>3
    <2>5. NoHealthCheck'
      BY <1>4, <2>1, <2>4 DEF SwitchInv, NoHealthCheck, At
    <2> QED BY <1>2, <2>1, <2>2, <2>3, <2>4, <2>5 DEF Served, Replies
  <1> QED BY <1>1, <1>3, <1>4

(* A worker that goes on.                                                  *)
LEMMA ServeServes ==
  ASSUME SwitchInv, NEW w \in Workers, Serve(w)
  PROVE  /\ Served /\ status' \in {"missing", "empty"} \cup Rows
         /\ status = "down" => status' = "down" /\ req'[w].at \in {"idle", "unchecked"}
         /\ \A v \in Workers : v /= w => req'[v] = req[v]
  <1>1. ASSUME NEW at \in {"handler", "unchecked"}, Raised(w, at), ~ At(w, "idle")
        PROVE  /\ Served /\ req'[w].at \in {"idle", at}
               /\ \A v \in Workers : v /= w => req'[v] = req[v]
    BY <1>1, GotoServes, AnswerServes DEF Raised, Replies
  <1>2. ASSUME NEW row \in Rows, Found(w, row), ~ At(w, "idle")
        PROVE  /\ Served /\ (row = "down" => req'[w].at = "idle")
               /\ \A v \in Workers : v /= w => req'[v] = req[v]
    <2>1. \/ row /= "down" /\ req[w].path /= "status" /\ Goto(w, "handler")
          \/ \E r \in Replies : Answer(w, r)
      BY <1>2 DEF Found, Gate, Rows, Replies
    <2> QED BY <1>2, <2>1, GotoServes, AnswerServes
  <1>3. CASE GetStatus(w)
    <2>1. status' = status /\ ~ At(w, "idle") /\ status \in {"missing", "empty"} \cup Rows
      BY <1>3 DEF GetStatus, At, SwitchInv, TypeOK
    <2>2. CASE status = "missing" /\ Raised(w, "handler")
      BY <1>1, <2>1, <2>2
    <2>3. CASE status = "empty" /\ Goto(w, "create")
      BY <2>1, <2>3, GotoServes
    <2>4. CASE status \in Rows /\ Found(w, status)
      BY <1>2, <2>1, <2>4
    <2> QED BY <1>3, <2>2, <2>3, <2>4 DEF GetStatus
  <1>4. CASE CreateStatus(w)
    <2>1. ~ At(w, "idle")
      BY <1>4 DEF CreateStatus, At
    <2>2. CASE status = "empty" /\ status' = "up" /\ Found(w, "up")
      BY <1>2, <2>1, <2>2 DEF Rows
    <2>3. CASE status \in Rows /\ Found(w, status) /\ UNCHANGED status
      BY <1>2, <2>1, <2>3 DEF Rows
    <2> QED BY <1>4, <2>2, <2>3 DEF CreateStatus
  <1>5. CASE QueryFails(w)
    <2>1. ~ At(w, "idle") /\ status' = status /\ Raised(w, "unchecked")
      BY <1>5 DEF QueryFails, At
    <2> QED BY <1>1, <2>1 DEF SwitchInv, TypeOK
  <1>6. CASE Handle(w)
    <2>1. status' = status /\ Answer(w, "handled")
      BY <1>6 DEF Handle
    <2> QED BY <2>1, AnswerServes DEF SwitchInv, TypeOK, Replies
  <1> QED BY <1>3, <1>4, <1>5, <1>6 DEF Serve

LEMMA NextSwitch == SwitchInv /\ [Next]_vars => SwitchInv'
  <1> SUFFICES ASSUME SwitchInv, [Next]_vars PROVE SwitchInv'
    OBVIOUS
  <1>1. ASSUME Served, status' \in {"missing", "empty"} \cup Rows
        PROVE  SwitchInv'
    BY <1>1 DEF Served, SwitchInv, TypeOK, NoHealthCheck, At, Requests, Replies
  <1>2. ASSUME NEW w \in Workers, Arrive(w) \/ Serve(w) PROVE SwitchInv'
    BY <1>1, <1>2, ArriveServes, ServeServes DEF SwitchInv, TypeOK
  <1>3. CASE Migrate \/ SetStatus \/ Seed \/ UNCHANGED vars
    <2>1. UNCHANGED <<req, reply>> /\ status' \in {"missing", "empty"} \cup Rows
      BY <1>3 DEF Migrate, SetStatus, Seed, vars, Rows, SwitchInv, TypeOK
    <2> QED BY <2>1 DEF SwitchInv, TypeOK, NoHealthCheck, At
  <1> QED BY <1>2, <1>3 DEF Next

(* A request is always somewhere in the chain of middlewares, none for the *)
(* health check is behind the first of them, and none for is-system-up at  *)
(* the handler of another path.                                            *)
THEOREM SwitchTypes == Spec => []TypeOK
  <1>1. SwitchInv => TypeOK
    BY DEF SwitchInv
  <1> QED BY <1>1, InitSwitch, NextSwitch, PTL DEF Spec

LEMMA SwitchSafe == Spec => []SwitchInv
  BY InitSwitch, NextSwitch, PTL DEF Spec

-----------------------------------------------------------------------------
(* No request ends a maintenance, whatever it finds or fails to find, that *)
(* for is-system-up included, whose get_status may insert the row: only an *)
(* operator and the seed command do.                                       *)
THEOREM OnlyOperatorsMayLift == Spec => OnlyOperatorsLift
  <1>1. SwitchInv /\ [Next]_vars
          => [status = "down" /\ status' = "up" => SetStatus \/ Seed]_vars
    <2> SUFFICES ASSUME SwitchInv, Next, status = "down", status' = "up",
                        ~ SetStatus, ~ Seed
                 PROVE  FALSE
      OBVIOUS
    <2>1. ASSUME NEW w \in Workers, Arrive(w) \/ Serve(w) PROVE FALSE
      BY <2>1, ArriveServes, ServeServes
    <2>2. ~ Migrate
      BY DEF Migrate
    <2> QED BY <2>1, <2>2 DEF Next
  <1> QED BY <1>1, SwitchSafe, PTL DEF Spec, OnlyOperatorsLift

(* docs/auth.md:124.  Once the requests that had passed the switch before  *)
(* a maintenance have ended, the switch lets nobody through until it is    *)
(* lifted, with any number of requests between its two statements.         *)
THEOREM MaintenanceHolds == Spec => DrainedStaysDrained
  <1>1. SwitchInv /\ [Next]_vars => [Drained => Drained' \/ status' = "up"]_vars
    <2> SUFFICES ASSUME SwitchInv, Next, Drained, status' /= "up"
                 PROVE  Drained'
      OBVIOUS
    <2>1. status = "down" /\ \A w \in Workers : ~ Guarded(w)
      BY DEF Drained
    <2>2. status' = "down"
      <3>1. ASSUME NEW w \in Workers, Arrive(w) \/ Serve(w) PROVE status' = "down"
        BY <2>1, <3>1, ArriveServes, ServeServes
      <3>2. CASE Migrate \/ SetStatus \/ Seed
        BY <2>1, <3>2 DEF Migrate, SetStatus, Seed, Rows
      <3> QED BY <3>1, <3>2 DEF Next
    <2>3. ASSUME NEW w \in Workers PROVE ~ Guarded(w)'
      <3>1. CASE req'[w] = req[w]
        BY <2>1, <3>1 DEF Guarded, At
      <3>2. CASE Arrive(w)
        BY <3>2, ArriveServes DEF Guarded, At
      <3>3. CASE Serve(w)
        BY <2>1, <3>3, ServeServes DEF Guarded, At
      <3>4. ASSUME NEW v \in Workers, v /= w, Arrive(v) \/ Serve(v)
            PROVE  req'[w] = req[w]
        BY <3>4, ArriveServes, ServeServes
      <3>5. CASE Migrate \/ SetStatus \/ Seed
        BY <3>1, <3>5 DEF Migrate, SetStatus, Seed
      <3> QED BY <3>1, <3>2, <3>3, <3>4, <3>5 DEF Next
    <2> QED BY <2>2, <2>3 DEF Drained
  <1> QED BY <1>1, SwitchSafe, PTL DEF Spec, DrainedStaysDrained
=============================================================================
