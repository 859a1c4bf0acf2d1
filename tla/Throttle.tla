------------------------------ MODULE Throttle ------------------------------
(***************************************************************************)
(* The throttles of REST_FRAMEWORK: by address for the anonymous, by user, *)
(* and the scope "password_recovery" that the endpoints of                 *)
(* PasswordRecoveryViewSet share.  A request passes the checks of all that *)
(* concern it, one after the other, each with a key, a rate and a window   *)
(* of its own.  The settings name no CACHES, so Django's default applies:  *)
(* the history under a key is kept in the memory of the worker process     *)
(* that served the request, and entrypoint.sh starts three of those.       *)
(*                                                                         *)
(* A request goes to whichever worker takes it off the socket.  A worker   *)
(* serves one request at a time, so that the check and the update of its   *)
(* history are one step; between the checks of two throttles the clock may *)
(* move.  What another throttle refuses stays counted here.                *)
(***************************************************************************)
EXTENDS Integers, FiniteSets

CONSTANTS
  Clients,      \* cache keys: a throttle with an address or a user
  Processes,    \* identities of gunicorn's worker processes
  WorkerCount,  \* how many of them run at a time
  Rate,         \* Rate[c]: 60, 300 or 5 requests...
  Duration,     \* Duration[c]: ...in a minute, a minute or an hour
  CacheSize,    \* MAX_ENTRIES of the local-memory cache: 300
  MaxTime,      \* bound: the clock stops there
  MaxRequests   \* bound: admitted requests

ASSUME ThrottleAssumption ==
  /\ IsFiniteSet(Processes)
  /\ WorkerCount \in Nat /\ CacheSize \in Nat
  /\ Rate \in [Clients -> Nat] /\ Duration \in [Clients -> Nat]
  /\ MaxTime \in Nat /\ MaxRequests \in Nat

VARIABLES
  now,       \* the clock of the throttle
  running,   \* the worker processes
  started,   \* history: the processes that have been started so far
  history,   \* history[p]: the admissions in the cache of process p
  admitted,  \* history: every admission there was
  forgotten  \* history: the <<process, key>> pairs whose entries a full
             \* cache has thrown out

vars == <<now, running, started, history, admitted, forgotten>>

(* Two requests may be admitted at the same instant: "id" tells them apart.*)
Admission == [id : Nat, client : Clients, process : Processes, at : Nat]

(* allow_request drops the entries that are a whole Duration old.          *)
Recent(entries, c) ==
  {a \in entries : a.client = c /\ a.at > now - Duration[c]}

Others(entries, c) == {a \in entries : a.client /= c}

KeysOf(entries) == {a.client : a \in entries}

Entry(p, c) == [id |-> Cardinality(admitted), client |-> c, process |-> p, at |-> now]

(* Mutant: one request too many.                                           *)
HasRoom_OneMore(p, c) ==
  /\ p \in running
  /\ Cardinality(admitted) < MaxRequests
  /\ Cardinality(Recent(history[p], c)) <= Rate[c]

(* A throttle consults the history under key c in the cache of process p.  *)
HasRoom(p, c) ==
  /\ p \in running
  /\ Cardinality(admitted) < MaxRequests
  /\ Cardinality(Recent(history[p], c)) < Rate[c]

(* A cache that is full when a key is written throws out those that were   *)
(* used longest ago; which these are is left open.                         *)
Culled(p, c) ==
  IF Cardinality(KeysOf(history[p])) < CacheSize THEN {{}}
  ELSE SUBSET (Clients \ {c})

(* With fewer entries left than the rate the throttle lets the request     *)
(* pass and records it.                                                    *)
Allow(p, c) ==
  /\ HasRoom(p, c)
  /\ \E culled \in Culled(p, c) :
       /\ history' = [history EXCEPT ![p] =
            {a \in Others(@, c) : a.client \notin culled}
              \cup Recent(@, c) \cup {Entry(p, c)}]
       /\ forgotten' = forgotten \cup ({p} \X culled)
  /\ admitted' = admitted \cup {Entry(p, c)}
  /\ UNCHANGED <<now, running, started>>

(* Mutant: the successor finds the cache of its predecessor.               *)
Replace_Inherits(p) ==
  \E q \in Processes \ started :
    /\ p \in running
    /\ running' = (running \ {p}) \cup {q}
    /\ started' = started \cup {q}
    /\ history' = [history EXCEPT ![p] = {}, ![q] = history[p]]
    /\ UNCHANGED <<now, admitted, forgotten>>

(* gunicorn replaces a worker that has exceeded its timeout: the cache     *)
(* goes with the process.                                                  *)
Replace(p) ==
  \E q \in Processes \ started :
    /\ p \in running
    /\ running' = (running \ {p}) \cup {q}
    /\ started' = started \cup {q}
    /\ history' = [history EXCEPT ![p] = {}]
    /\ UNCHANGED <<now, admitted, forgotten>>

Tick ==
  /\ now < MaxTime
  /\ now' = now + 1
  /\ UNCHANGED <<running, started, history, admitted, forgotten>>

Next ==
  \/ \E p \in Processes, c \in Clients : Allow(p, c)
  \/ \E p \in Processes : Replace(p)
  \/ Tick

Init ==
  /\ now = 0
  /\ running \in SUBSET Processes /\ Cardinality(running) = WorkerCount
  /\ started = running
  /\ history = [p \in Processes |-> {}]
  /\ admitted = {} /\ forgotten = {}

Spec == Init /\ [][Next]_vars

-----------------------------------------------------------------------------
(* Types, and what a cache holds are admissions of its own process.        *)
TypeOK ==
  /\ now \in Nat
  /\ running \subseteq started /\ started \subseteq Processes
  /\ history \in [Processes -> SUBSET Admission]
  /\ admitted \subseteq Admission /\ forgotten \subseteq Processes \X Clients
  /\ \A p \in Processes : history[p] \subseteq {a \in admitted : a.process = p}

(* What client c got through process p in the window that ends now.        *)
Through(p, c) == {a \in Recent(admitted, c) : a.process = p}

(* No client gets more than its rate through one process in a window of    *)
(* its length, wherever the window begins, as long as the process has not  *)
(* had to forget it: 300 other keys in the same cache are what it takes.   *)
WindowPerProcess ==
  \A p \in Processes, c \in Clients :
    <<p, c>> \notin forgotten => Cardinality(Through(p, c)) <= Rate[c]

Remembered(c) == \A p \in Processes : <<p, c>> \notin forgotten

(* So a client gets at most its rate for every process there has           *)
(* been: what this deployment limits a client to, three times the rate     *)
(* with the workers of entrypoint.sh and more with every one replaced.     *)
WindowBounded ==
  \A c \in Clients : Remembered(c) =>
    Cardinality(Recent(admitted, c)) <= Cardinality(started) * Rate[c]

(* The deployment seen as one limiter.                                     *)
Deployment == INSTANCE RateLimit WITH
  Keys <- Clients,
  Limit <- [c \in Clients |-> Cardinality(Processes) * Rate[c]],
  passed <- admitted,
  exempt <- {c \in Clients : ~ Remembered(c)}

(* For all clients together the workers are a single sliding window, with  *)
(* the rate times the processes that there are in its lifetime for limit.  *)
OneLimiter == Deployment!Spec
=============================================================================
