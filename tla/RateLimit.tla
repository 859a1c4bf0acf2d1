------------------------------ MODULE RateLimit ------------------------------
(***************************************************************************)
(* One limiter for the whole deployment, as a client sees it: a sliding    *)
(* window per key, in which at most Limit[k] requests pass, unless the     *)
(* limiter has had to forget the key.  Throttle implements it.             *)
(***************************************************************************)
EXTENDS Integers, FiniteSets

CONSTANTS Keys, Limit, Duration

VARIABLES
  now,     \* the clock
  passed,  \* the requests that have passed
  exempt   \* the keys that are limited no longer

limitVars == <<now, passed, exempt>>

Window(k) == {r \in passed : r.client = k /\ r.at > now - Duration[k]}

(* A request passes; the window that it closes is within the limit.        *)
Pass(k) ==
  \E r \in passed' :
    /\ r \notin passed /\ r.client = k /\ r.at = now
    /\ passed' = passed \cup {r}
    /\ exempt \subseteq exempt'
    /\ k \in exempt' \/ Cardinality(Window(k)') <= Limit[k]
    /\ UNCHANGED now

Pause ==
  /\ now' = now + 1
  /\ UNCHANGED <<passed, exempt>>

Init == now = 0 /\ passed = {} /\ exempt = {}

Next == Pause \/ \E k \in Keys : Pass(k)

Spec == Init /\ [][Next]_limitVars
=============================================================================
