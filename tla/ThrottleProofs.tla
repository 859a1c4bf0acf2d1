--------------------------- MODULE ThrottleProofs ---------------------------
(***************************************************************************)
(* What the recovery throttle limits a client to, for every rate, window   *)
(* length and number of worker processes.                                  *)
(***************************************************************************)
EXTENDS Throttle, FiniteSetTheorems, FunctionTheorems, TLAPS

(* A process that runs has in its cache all that it admitted in the window *)
(* that ends now, but for what it has had to forget; one that was never    *)
(* started has admitted nothing.                                           *)
CacheComplete ==
  /\ \A p \in running, c \in Clients :
       <<p, c>> \notin forgotten => Through(p, c) \subseteq history[p]
  /\ \A a \in admitted : a.process \in started
  /\ \A p \in Processes : IsFiniteSet(history[p])
  /\ IsFiniteSet(admitted)

WindowInv == TypeOK /\ CacheComplete /\ WindowPerProcess

-----------------------------------------------------------------------------
LEMMA InitTypes == Init => TypeOK
  BY DEF Init, TypeOK

(* What an admission does, whatever a full cache throws out.               *)
LEMMA AllowEffect ==
  ASSUME TypeOK, IsFiniteSet(admitted),
         NEW p \in Processes, NEW c \in Clients, Allow(p, c)
  PROVE  LET a == Entry(p, c) IN
         /\ a \in Admission /\ a.process = p /\ a.client = c /\ a.at = now
         /\ p \in running /\ Cardinality(Recent(history[p], c)) < Rate[c]
         /\ admitted' = admitted \cup {a}
         /\ now' = now /\ running' = running /\ started' = started
         /\ forgotten \subseteq forgotten'
         /\ forgotten' \subseteq Processes \X Clients
         /\ \A q \in Processes : q /= p => history'[q] = history[q]
         /\ history'[p] \subseteq history[p] \cup {a}
         /\ a \in history'[p]
         /\ \A b \in history[p] :
              \/ b \in history'[p]
              \/ b.client = c /\ ~ (b.at > now - Duration[c])
              \/ b.client /= c /\ (b.client \in Clients => <<p, b.client>> \in forgotten')
         /\ history' = [history EXCEPT ![p] = history'[p]]
  <1> DEFINE a == Entry(p, c)
             h(culled) == {b \in Others(history[p], c) : b.client \notin culled}
                            \cup Recent(history[p], c) \cup {a}
  <1>1. PICK culled \in Culled(p, c) :
          /\ history' = [history EXCEPT ![p] = h(culled)]
          /\ forgotten' = forgotten \cup ({p} \X culled)
    BY DEF Allow
  <1>2. /\ p \in running /\ Cardinality(Recent(history[p], c)) < Rate[c]
        /\ admitted' = admitted \cup {a}
        /\ now' = now /\ running' = running /\ started' = started
    BY DEF Allow, HasRoom
  <1>3. a \in Admission /\ a.process = p /\ a.client = c /\ a.at = now
    BY FS_CardinalityType DEF Entry, Admission, TypeOK
  <1>4. culled \subseteq Clients
    BY DEF Culled
  <1>5. /\ forgotten \subseteq forgotten'
        /\ forgotten' \subseteq Processes \X Clients
    BY <1>1, <1>4 DEF TypeOK
  <1>6. /\ history'[p] = h(culled)
        /\ \A q \in Processes : q /= p => history'[q] = history[q]
    BY <1>1 DEF TypeOK
  <1>7. h(culled) \subseteq history[p] \cup {a} /\ a \in h(culled)
    BY DEF Others, Recent
  <1>8. ASSUME NEW b \in history[p]
        PROVE  \/ b \in h(culled)
               \/ b.client = c /\ ~ (b.at > now - Duration[c])
               \/ b.client /= c /\ b.client \in culled
    BY DEF Others, Recent
  <1>9. \A k \in culled : <<p, k>> \in forgotten'
    BY <1>1
  <1> HIDE DEF a, h
  <1> QED BY <1>1, <1>2, <1>3, <1>5, <1>6, <1>7, <1>8, <1>9 DEF a

LEMMA AllowTypes ==
  ASSUME TypeOK, IsFiniteSet(admitted),
         NEW p \in Processes, NEW c \in Clients, Allow(p, c)
  PROVE  TypeOK'
  <1> DEFINE a == Entry(p, c)
  <1>1. /\ a \in Admission /\ a.process = p
        /\ admitted' = admitted \cup {a}
        /\ now' = now /\ running' = running /\ started' = started
        /\ forgotten' \subseteq Processes \X Clients
        /\ \A q \in Processes : q /= p => history'[q] = history[q]
        /\ history'[p] \subseteq history[p] \cup {a}
        /\ history' = [history EXCEPT ![p] = history'[p]]
    BY AllowEffect
  <1> HIDE DEF a
  <1>2. history[p] \subseteq {b \in admitted : b.process = p}
        /\ history[p] \subseteq Admission
    BY DEF TypeOK
  <1>3. history'[p] \subseteq Admission
    BY <1>1, <1>2
  <1>4. history' \in [Processes -> SUBSET Admission]
    BY <1>1, <1>3 DEF TypeOK
  <1>5. ASSUME NEW q \in Processes
        PROVE  history'[q] \subseteq {b \in admitted' : b.process = q}
    <2>1. CASE q = p
      BY <1>1, <1>2, <2>1
    <2>2. CASE q /= p
      BY <1>1, <2>2 DEF TypeOK
    <2> QED BY <2>1, <2>2
  <1> QED BY <1>1, <1>4, <1>5 DEF TypeOK

LEMMA ReplaceTypes ==
  ASSUME TypeOK, NEW p \in Processes, Replace(p)
  PROVE  TypeOK'
  <1>1. PICK q \in Processes \ started :
          /\ running' = (running \ {p}) \cup {q}
          /\ started' = started \cup {q}
          /\ history' = [history EXCEPT ![p] = {}]
          /\ now' = now /\ admitted' = admitted /\ forgotten' = forgotten
    BY DEF Replace
  <1>2. \A r \in Processes : history'[r] \subseteq history[r]
    BY <1>1 DEF TypeOK
  <1> QED BY <1>1, <1>2 DEF TypeOK

LEMMA TickTypes ==
  ASSUME TypeOK, Tick
  PROVE  TypeOK'
  BY DEF TypeOK, Tick

-----------------------------------------------------------------------------
(* Admitting a request keeps every process within the rate: what p         *)
(* admitted to c before is in its cache, which allow_request found not     *)
(* full.                                                                   *)
LEMMA AllowWindow ==
  ASSUME WindowInv, NEW p \in Processes, NEW c \in Clients, Allow(p, c)
  PROVE  CacheComplete' /\ WindowPerProcess'
  <1> DEFINE a == Entry(p, c)
             h == history'[p]
  <1>1. /\ p \in running
        /\ Cardinality(Recent(history[p], c)) < Rate[c]
        /\ admitted' = admitted \cup {a}
        /\ now' = now /\ running' = running /\ started' = started
        /\ forgotten \subseteq forgotten'
    BY AllowEffect DEF WindowInv, CacheComplete
  <1>2. a.process = p /\ a.client = c /\ a.id = Cardinality(admitted)
    BY DEF Entry
  <1>3. h \subseteq history[p] \cup {a} /\ a \in h
    BY AllowEffect DEF WindowInv, CacheComplete
  <1>4. \A b \in history[p] :
          \/ b \in h
          \/ b.client = c /\ ~ (b.at > now - Duration[c])
          \/ b.client /= c /\ (b.client \in Clients => <<p, b.client>> \in forgotten')
    BY AllowEffect DEF WindowInv, CacheComplete
  <1>6. /\ history'[p] = h
        /\ \A q \in Processes : q /= p => history'[q] = history[q]
    BY AllowEffect DEF WindowInv, CacheComplete
  <1> HIDE DEF a, h
  <1>7. ASSUME NEW q \in Processes, NEW d \in Clients
        PROVE  /\ Through(q, d)' \subseteq Through(q, d) \cup {a}
               /\ q /= p \/ d /= c => Through(q, d)' = Through(q, d)
    BY <1>1, <1>2 DEF Through, Recent
  <1>8. ASSUME NEW q \in running', NEW d \in Clients, <<q, d>> \notin forgotten'
        PROVE  Through(q, d)' \subseteq history'[q]
    <2>1. q \in running /\ q \in Processes
      BY <1>1 DEF WindowInv, TypeOK
    <2>2. Through(q, d) \subseteq history[q]
      BY <1>1, <1>8, <2>1 DEF WindowInv, CacheComplete
    <2>3. CASE q /= p
      BY <1>6, <1>7, <2>1, <2>2, <2>3
    <2>4. CASE q = p
      <3>1. Through(p, d) \subseteq h
        <4> SUFFICES ASSUME NEW b \in Through(p, d) PROVE b \in h
          OBVIOUS
        <4>1. b.client = d /\ b.at > now - Duration[d]
          BY DEF Through, Recent
        <4>2. b \in history[p]
          BY <2>2, <2>4
        <4> QED BY <4>1, <4>2, <1>4, <1>8, <2>4
      <3> QED BY <3>1, <1>3, <1>6, <1>7, <2>1, <2>4
    <2> QED BY <2>3, <2>4
  <1>9. IsFiniteSet(h)
    <2>1. IsFiniteSet(history[p] \cup {a})
      BY FS_AddElement DEF WindowInv, CacheComplete
    <2> QED BY <2>1, <1>3, FS_Subset
  <1>10. CacheComplete'
    <2>1. IsFiniteSet(admitted')
      BY <1>1, FS_AddElement DEF WindowInv, CacheComplete
    <2>2. \A q \in Processes : IsFiniteSet(history'[q])
      BY <1>6, <1>9 DEF WindowInv, CacheComplete
    <2>3. \A b \in admitted' : b.process \in started'
      BY <1>1, <1>2 DEF WindowInv, CacheComplete, TypeOK
    <2> QED BY <1>8, <2>1, <2>2, <2>3 DEF CacheComplete
  <1>11. ASSUME NEW q \in Processes, NEW d \in Clients, <<q, d>> \notin forgotten'
         PROVE  Cardinality(Through(q, d)') <= Rate[d]
    <2>1. CASE q /= p \/ d /= c
      BY <1>1, <1>7, <1>11, <2>1 DEF WindowInv, WindowPerProcess
    <2>2. CASE q = p /\ d = c
      <3>1. Through(p, c) \subseteq Recent(history[p], c)
        <4>1. Through(p, c) \subseteq history[p]
          BY <1>1, <1>11, <2>2 DEF WindowInv, CacheComplete
        <4> QED BY <4>1 DEF Through, Recent
      <3>2. IsFiniteSet(Recent(history[p], c))
        <4>1. IsFiniteSet(history[p]) /\ Recent(history[p], c) \in SUBSET history[p]
          BY DEF WindowInv, CacheComplete, Recent
        <4> QED BY <4>1, FS_Subset
      <3>3. /\ IsFiniteSet(Through(p, c))
            /\ Cardinality(Through(p, c)) <= Cardinality(Recent(history[p], c))
        BY <3>1, <3>2, FS_Subset
      <3>4. /\ IsFiniteSet(Through(p, c) \cup {a})
            /\ Cardinality(Through(p, c) \cup {a}) <= Cardinality(Through(p, c)) + 1
        <4> DEFINE S == Through(p, c)
        <4>1. IsFiniteSet(S)
          BY <3>3
        <4>2. Cardinality(S) \in Nat
          BY <4>1, FS_CardinalityType
        <4> HIDE DEF S
        <4>3. /\ IsFiniteSet(S \cup {a})
              /\ Cardinality(S \cup {a}) =
                   IF a \in S THEN Cardinality(S) ELSE Cardinality(S) + 1
          BY <4>1, FS_AddElement
        <4>4. Cardinality(S \cup {a}) <= Cardinality(S) + 1
          BY <4>2, <4>3
        <4> QED BY <4>3, <4>4 DEF S
      <3>5. Cardinality(Through(p, c)') <= Cardinality(Through(p, c) \cup {a})
        <4>1. Through(p, c)' \subseteq Through(p, c) \cup {a}
          BY <1>7
        <4> QED BY <3>4, <4>1, FS_Subset
      <3>6. /\ Cardinality(Through(p, c)) \in Nat
            /\ Cardinality(Recent(history[p], c)) \in Nat
            /\ Cardinality(Through(p, c) \cup {a}) \in Nat
        BY <3>2, <3>3, <3>4, FS_CardinalityType
      <3>7. Cardinality(Through(p, c)') \in Nat
        <4>1. IsFiniteSet(Through(p, c)')
          <5>1. Through(p, c)' \subseteq Through(p, c) \cup {a}
            BY <1>7
          <5> QED BY <3>4, <5>1, FS_Subset
        <4> QED BY <4>1, FS_CardinalityType
      <3> QED BY <1>1, <2>2, <3>3, <3>4, <3>5, <3>6, <3>7, ThrottleAssumption
    <2> QED BY <2>1, <2>2
  <1>12. WindowPerProcess'
    BY <1>11 DEF WindowPerProcess
  <1> QED BY <1>10, <1>12

(* A new process has admitted nothing, so that its empty cache is right.   *)
LEMMA ReplaceWindow ==
  ASSUME WindowInv, NEW p \in Processes, Replace(p)
  PROVE  CacheComplete' /\ WindowPerProcess'
  <1>1. PICK q \in Processes \ started :
          /\ running' = (running \ {p}) \cup {q}
          /\ started' = started \cup {q}
          /\ history' = [history EXCEPT ![p] = {}]
          /\ now' = now /\ admitted' = admitted /\ forgotten' = forgotten
    BY DEF Replace
  <1>2. \A r, c : Through(r, c)' = Through(r, c)
    BY <1>1 DEF Through, Recent
  <1>3. \A c \in Clients : Through(q, c) = {}
    BY DEF Through, Recent, WindowInv, CacheComplete
  <1>4. ASSUME NEW r \in running', NEW c \in Clients, <<r, c>> \notin forgotten'
        PROVE  Through(r, c)' \subseteq history'[r]
    <2>1. CASE r = q
      BY <1>2, <1>3, <2>1
    <2>2. CASE r \in running /\ r /= p
      <3>1. history'[r] = history[r]
        BY <1>1, <2>2 DEF WindowInv, TypeOK
      <3> QED BY <3>1, <1>1, <1>2, <1>4, <2>2 DEF WindowInv, CacheComplete
    <2> QED BY <1>1, <2>1, <2>2
  <1>5. \A r \in Processes : IsFiniteSet(history'[r])
    <2>1. \A r \in Processes : history'[r] = history[r] \/ history'[r] = {}
      BY <1>1 DEF WindowInv, TypeOK
    <2> QED BY <2>1, FS_EmptySet DEF WindowInv, CacheComplete
  <1>6. WindowPerProcess'
    BY <1>1, <1>2 DEF WindowInv, WindowPerProcess
  <1> QED BY <1>1, <1>4, <1>5, <1>6 DEF WindowInv, CacheComplete

(* Time only moves admissions out of the window.                           *)
LEMMA TickWindow ==
  ASSUME WindowInv, Tick
  PROVE  CacheComplete' /\ WindowPerProcess'
  <1>1. /\ now' = now + 1 /\ running' = running /\ started' = started
        /\ history' = history /\ admitted' = admitted
        /\ forgotten' = forgotten
    BY DEF Tick
  <1>2. ASSUME NEW p \in Processes, NEW c \in Clients
        PROVE  /\ Through(p, c)' \subseteq Through(p, c)
               /\ <<p, c>> \notin forgotten => Cardinality(Through(p, c)') <= Rate[c]
    <2>1. Through(p, c)' \subseteq Through(p, c)
      <3> SUFFICES ASSUME NEW b \in Through(p, c)' PROVE b \in Through(p, c)
        OBVIOUS
      <3>1. /\ b \in admitted /\ b.client = c /\ b.process = p
            /\ b.at > (now + 1) - Duration[c]
        BY <1>1 DEF Through, Recent
      <3>2. b.at \in Nat /\ now \in Nat /\ Duration[c] \in Nat
        BY <3>1, ThrottleAssumption DEF WindowInv, TypeOK, Admission
      <3>3. b.at > now - Duration[c]
        BY <3>1, <3>2
      <3> QED BY <3>1, <3>3 DEF Through, Recent
    <2>2. IsFiniteSet(Through(p, c))
      <3>1. IsFiniteSet(admitted) /\ Through(p, c) \in SUBSET admitted
        BY DEF WindowInv, CacheComplete, Through, Recent
      <3> QED BY <3>1, FS_Subset
    <2>3. /\ IsFiniteSet(Through(p, c)')
          /\ Cardinality(Through(p, c)') <= Cardinality(Through(p, c))
      BY <2>1, <2>2, FS_Subset
    <2>4. Cardinality(Through(p, c)) \in Nat /\ Cardinality(Through(p, c)') \in Nat
      BY <2>2, <2>3, FS_CardinalityType
    <2>5. <<p, c>> \notin forgotten => Cardinality(Through(p, c)) <= Rate[c]
      BY DEF WindowInv, WindowPerProcess
    <2>6. Rate[c] \in Nat
      BY ThrottleAssumption
    <2> QED BY <2>1, <2>3, <2>4, <2>5, <2>6
  <1>3. \A p \in running', c \in Clients :
          <<p, c>> \notin forgotten' => Through(p, c)' \subseteq history'[p]
    BY <1>1, <1>2 DEF WindowInv, CacheComplete, TypeOK
  <1>4. WindowPerProcess'
    BY <1>1, <1>2 DEF WindowPerProcess
  <1> QED BY <1>1, <1>3, <1>4 DEF WindowInv, CacheComplete

LEMMA InitWindow == Init => WindowInv
  <1> SUFFICES ASSUME Init PROVE WindowInv
    OBVIOUS
  <1>1. \A p, c : Through(p, c) = {}
    BY DEF Init, Through, Recent
  <1>2. \A c \in Clients : Cardinality({}) <= Rate[c]
    BY FS_EmptySet, ThrottleAssumption
  <1>3. CacheComplete
    BY <1>1, FS_EmptySet DEF Init, CacheComplete
  <1>4. WindowPerProcess
    BY <1>1, <1>2 DEF WindowPerProcess
  <1> QED BY <1>3, <1>4, InitTypes DEF WindowInv

LEMMA NextWindow == WindowInv /\ [Next]_vars => WindowInv'
  <1> SUFFICES ASSUME WindowInv, [Next]_vars PROVE WindowInv'
    OBVIOUS
  <1>1. ASSUME NEW p \in Processes, NEW c \in Clients, Allow(p, c)
        PROVE  WindowInv'
    BY <1>1, AllowTypes, AllowWindow DEF WindowInv, CacheComplete
  <1>2. ASSUME NEW p \in Processes, Replace(p)
        PROVE  WindowInv'
    BY <1>2, ReplaceTypes, ReplaceWindow DEF WindowInv
  <1>3. CASE Tick
    BY <1>3, TickTypes, TickWindow DEF WindowInv
  <1>4. CASE UNCHANGED vars
    <2>1. \A p, c : Through(p, c)' = Through(p, c)
      BY <1>4 DEF vars, Through, Recent
    <2> QED BY <1>4, <2>1
         DEF vars, WindowInv, TypeOK, CacheComplete, WindowPerProcess
  <1> QED BY <1>1, <1>2, <1>3, <1>4 DEF Next

(* The caches are well-typed, and each holds admissions of its process.    *)
THEOREM TypesHold == Spec => []TypeOK
  <1>1. WindowInv => TypeOK
    BY DEF WindowInv
  <1> QED BY <1>1, InitWindow, NextWindow, PTL DEF Spec

(* Through one worker process no client exceeds the rate, in any window.   *)
THEOREM ProcessKeepsRate == Spec => []WindowPerProcess
  <1>1. WindowInv => WindowPerProcess
    BY DEF WindowInv
  <1> QED BY <1>1, InitWindow, NextWindow, PTL DEF Spec

-----------------------------------------------------------------------------
(* Each admission of a window is told apart by its process and its place   *)
(* among the at most Rate that this process admitted.                      *)
LEMMA WindowOfProcesses ==
  ASSUME WindowInv, NEW c \in Clients, Remembered(c)
  PROVE  Cardinality(Recent(admitted, c)) <= Cardinality(started) * Rate[c]
  <1> DEFINE R == Recent(admitted, c)
             T == started \X (1 .. Rate[c])
             n(p) == Cardinality(Through(p, c))
             rank == [p \in started |->
                        CHOOSE f \in Injection(Through(p, c), 1 .. Rate[c]) : TRUE]
             place == [a \in R |-> <<a.process, rank[a.process][a]>>]
  <1>1. ASSUME NEW p \in started
        PROVE  rank[p] \in Injection(Through(p, c), 1 .. Rate[c])
    <2>1. p \in Processes
      BY DEF WindowInv, TypeOK
    <2>2. IsFiniteSet(Through(p, c))
      <3>1. IsFiniteSet(admitted) /\ Through(p, c) \in SUBSET admitted
        BY DEF WindowInv, CacheComplete, Through, Recent
      <3> QED BY <3>1, FS_Subset
    <2>3. n(p) \in Nat /\ n(p) <= Rate[c] /\ ExistsBijection(1 .. n(p), Through(p, c))
      BY <2>1, <2>2, FS_CardinalityType DEF WindowInv, WindowPerProcess, Remembered
    <2>4. PICK f \in Bijection(Through(p, c), 1 .. n(p)) : TRUE
      BY <2>3, Fun_ExistsBijSymmetric, Fun_ExistsBij
    <2>5. 1 .. n(p) \subseteq 1 .. Rate[c]
      BY <2>3, ThrottleAssumption
    <2>6. f \in Injection(Through(p, c), 1 .. Rate[c])
      <3>1. f \in [Through(p, c) -> 1 .. n(p)] /\ IsInjective(f)
        BY <2>4 DEF Bijection, Injection
      <3>2. f \in [Through(p, c) -> 1 .. Rate[c]]
        BY <3>1, <2>5
      <3> QED BY <3>1, <3>2 DEF Injection
    <2> QED BY <2>6
  <1> HIDE DEF rank
  <1>2. ASSUME NEW a \in R
        PROVE  a.process \in started /\ a \in Through(a.process, c)
    BY DEF WindowInv, CacheComplete, Through, Recent
  <1>3. place \in [R -> T]
    <2> SUFFICES ASSUME NEW a \in R
                 PROVE  <<a.process, rank[a.process][a]>> \in T
      OBVIOUS
    <2>1. rank[a.process] \in [Through(a.process, c) -> 1 .. Rate[c]]
      BY <1>1, <1>2 DEF Injection
    <2> QED BY <1>2, <2>1
  <1>4. ASSUME NEW a \in R, NEW b \in R, place[a] = place[b]
        PROVE  a = b
    <2>1. a.process = b.process /\ rank[a.process][a] = rank[a.process][b]
      BY <1>4
    <2>2. /\ rank[a.process] \in [Through(a.process, c) -> 1 .. Rate[c]]
          /\ IsInjective(rank[a.process])
      BY <1>1, <1>2 DEF Injection
    <2>3. a \in Through(a.process, c) /\ b \in Through(a.process, c)
      BY <1>2, <2>1
    <2> QED BY <2>1, <2>2, <2>3 DEF IsInjective
  <1> HIDE DEF place, R, T
  <1>5. place \in Injection(R, T)
    BY <1>3, <1>4 DEF Injection, IsInjective
  <1>6. IsFiniteSet(started)
    BY ThrottleAssumption, FS_Subset DEF WindowInv, TypeOK
  <1>7. IsFiniteSet(1 .. Rate[c]) /\ Cardinality(1 .. Rate[c]) = Rate[c]
    BY FS_Interval, ThrottleAssumption
  <1>8. IsFiniteSet(T) /\ Cardinality(T) = Cardinality(started) * Rate[c]
    BY <1>6, <1>7, FS_Product DEF T
  <1>9. Cardinality(R) <= Cardinality(T)
    BY <1>5, <1>8, FS_Injection
  <1> QED BY <1>8, <1>9 DEF R

(* A client gets at most Rate requests per process that has been started,  *)
(* in any window: 5 for each of the workers of entrypoint.sh.              *)
THEOREM DeploymentKeepsRate == Spec => []WindowBounded
  <1>1. WindowInv => WindowBounded
    BY WindowOfProcesses DEF WindowBounded
  <1> QED BY <1>1, InitWindow, NextWindow, PTL DEF Spec

-----------------------------------------------------------------------------
(* Admissions are numbered, so that the next one is new.                   *)
Numbered == \A a \in admitted : a.id < Cardinality(admitted)

LEMMA AllowNumbered ==
  ASSUME WindowInv, Numbered, NEW p \in Processes, NEW c \in Clients, Allow(p, c)
  PROVE  Numbered' /\ Entry(p, c) \notin admitted
  <1> DEFINE a == Entry(p, c)
  <1>1. admitted' = admitted \cup {a}
    BY DEF Allow
  <1>2. IsFiniteSet(admitted) /\ Cardinality(admitted) \in Nat
    BY FS_CardinalityType DEF WindowInv, CacheComplete
  <1>3. a.id = Cardinality(admitted)
    BY DEF Entry
  <1> HIDE DEF a
  <1>4. a \notin admitted
    BY <1>2, <1>3 DEF Numbered
  <1>5. Cardinality(admitted') = Cardinality(admitted) + 1
    BY <1>1, <1>2, <1>4, FS_AddElement
  <1>6. \A b \in admitted : b.id \in Nat
    BY DEF WindowInv, TypeOK, Admission
  <1>7. Numbered'
    BY <1>1, <1>2, <1>3, <1>5, <1>6 DEF Numbered
  <1> QED BY <1>4, <1>7 DEF a

LEMMA NextNumbered ==
  ASSUME WindowInv, Numbered, [Next]_vars
  PROVE  Numbered'
  <1>1. ASSUME NEW p \in Processes, NEW c \in Clients, Allow(p, c)
        PROVE  Numbered'
    BY <1>1, AllowNumbered
  <1>2. CASE admitted' = admitted
    BY <1>2 DEF Numbered
  <1> QED BY <1>1, <1>2 DEF Next, Replace, Tick, vars

LEMMA InvBounded == WindowInv => WindowBounded
  BY WindowOfProcesses DEF WindowBounded

LEMMA InvBoundedNext == WindowInv' => WindowBounded'
  BY InvBounded, PTL

(* RateLimit counts with the same Cardinality.                             *)
LEMMA SameCardinality == \A S : Deployment!Cardinality(S) = Cardinality(S)
  BY Zenon DEF Deployment!Cardinality, Cardinality

(* Every admission is one that the single limiter may make, as all the     *)
(* processes together keep within its limit.                               *)
LEMMA AllowPasses ==
  ASSUME WindowInv, WindowInv', Numbered,
         NEW p \in Processes, NEW c \in Clients, Allow(p, c)
  PROVE  Deployment!Pass(c)
  <1> DEFINE a == Entry(p, c)
             limit == [k \in Clients |-> Cardinality(Processes) * Rate[k]]
  <1>1. /\ a.client = c /\ a.at = now /\ now' = now
        /\ admitted' = admitted \cup {a}
        /\ forgotten \subseteq forgotten'
    BY AllowEffect DEF WindowInv, CacheComplete
  <1>2. a \notin admitted
    BY AllowNumbered
  <1> HIDE DEF a
  <1>3. {k \in Clients : ~ Remembered(k)} \subseteq {k \in Clients : ~ Remembered(k)}'
    BY <1>1 DEF Remembered
  <1>4. ASSUME Remembered(c)'
        PROVE  Cardinality(Recent(admitted, c)') <= limit[c]
    <2>1. Cardinality(Recent(admitted, c)') <= Cardinality(started)' * Rate[c]
      BY <1>4, InvBoundedNext DEF WindowBounded
    <2>2. /\ Cardinality(started') \in Nat /\ Cardinality(Processes) \in Nat
          /\ Cardinality(started') <= Cardinality(Processes)
      <3>1. IsFiniteSet(Processes) /\ started' \in SUBSET Processes
        BY ThrottleAssumption DEF WindowInv, TypeOK
      <3> QED BY <3>1, FS_Subset, FS_CardinalityType
    <2>3. Rate[c] \in Nat
      BY ThrottleAssumption
    <2>4. \A x, y, z \in Nat : x <= y => x * z <= y * z
      OBVIOUS
    <2>5. Cardinality(started') * Rate[c] <= Cardinality(Processes) * Rate[c]
      BY <2>2, <2>3, <2>4
    <2>6. Cardinality(Recent(admitted, c)') \in Nat
      <3>1. IsFiniteSet(admitted') /\ Recent(admitted, c)' \in SUBSET admitted'
        BY DEF WindowInv, CacheComplete, Recent
      <3> QED BY <3>1, FS_Subset, FS_CardinalityType
    <2>7. Cardinality(started') * Rate[c] \in Nat /\ limit[c] = Cardinality(Processes) * Rate[c]
      BY <2>2, <2>3
    <2>8. limit[c] \in Nat
      BY <2>2, <2>3, <2>7
    <2> HIDE DEF limit
    <2> QED BY <2>1, <2>5, <2>6, <2>7, <2>8
  <1>5. Deployment!Window(c)' = Recent(admitted, c)'
    BY DEF Deployment!Window, Recent
  <1> HIDE DEF limit
  <1>6. c \in {k \in Clients : ~ Remembered(k)}'
          \/ Deployment!Cardinality(Deployment!Window(c)') <= limit[c]
    BY <1>4, <1>5, SameCardinality
  <1> QED BY <1>1, <1>2, <1>3, <1>6 DEF Deployment!Pass, limit

LEMMA StepOneLimiter ==
  WindowInv /\ WindowInv' /\ Numbered /\ [Next]_vars
    => [Deployment!Next]_Deployment!limitVars
  <1> SUFFICES ASSUME WindowInv, WindowInv', Numbered, [Next]_vars
               PROVE  Deployment!Next \/ UNCHANGED Deployment!limitVars
    OBVIOUS
  <1>1. ASSUME NEW p \in Processes, NEW c \in Clients, Allow(p, c)
        PROVE  Deployment!Next
    BY <1>1, AllowPasses DEF Deployment!Next
  <1>2. ASSUME forgotten' = forgotten
        PROVE  {c \in Clients : ~ Remembered(c)}' = {c \in Clients : ~ Remembered(c)}
    BY <1>2 DEF Remembered
  <1>3. CASE Tick
    BY <1>2, <1>3 DEF Tick, Deployment!Next, Deployment!Pause
  <1>4. ASSUME NEW p \in Processes, Replace(p)
        PROVE  UNCHANGED Deployment!limitVars
    BY <1>2, <1>4 DEF Replace, Deployment!limitVars
  <1>5. CASE UNCHANGED vars
    BY <1>2, <1>5 DEF vars, Deployment!limitVars
  <1> QED BY <1>1, <1>3, <1>4, <1>5 DEF Next

(* Together the processes are one limiter, with the rate times the number  *)
(* of processes for limit: Throttle implements RateLimit.                  *)
THEOREM ImplementsOneLimiter == Spec => OneLimiter
  <1>1. Init => Deployment!Init
    BY DEF Init, Deployment!Init, Remembered
  <1>2. Init => Numbered
    BY DEF Init, Numbered
  <1>3. WindowInv /\ Numbered /\ [Next]_vars => Numbered'
    BY NextNumbered
  <1> QED BY <1>1, <1>2, <1>3, InitWindow, NextWindow, StepOneLimiter, PTL
       DEF Spec, OneLimiter, Deployment!Spec
=============================================================================
