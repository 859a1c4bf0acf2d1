-------------------------- MODULE PermissionProofs --------------------------
(***************************************************************************)
(* The growing lists of ViewSetPermissionMixin, for all classes, lists and *)
(* extra permissions, however many requests a process has served.          *)
(***************************************************************************)
EXTENDS PermissionDispatch, TLAPS

LEMMA ToSetOfConcat ==
  ASSUME NEW S, NEW s \in Seq(S), NEW t \in Seq(S)
  PROVE  ToSet(s \o t) = ToSet(s) \cup ToSet(t)
  <1>1. /\ s \o t \in Seq(S) /\ Len(s \o t) = Len(s) + Len(t)
        /\ Len(s) \in Nat /\ Len(t) \in Nat
        /\ DOMAIN s = 1 .. Len(s) /\ DOMAIN t = 1 .. Len(t)
        /\ DOMAIN (s \o t) = 1 .. Len(s) + Len(t)
    OBVIOUS
  <1>2. \A i \in 1 .. Len(s) : (s \o t)[i] = s[i]
    OBVIOUS
  <1>3. \A i \in 1 .. Len(t) : (s \o t)[Len(s) + i] = t[i]
    OBVIOUS
  <1>4. ASSUME NEW i \in 1 .. Len(s) + Len(t)
        PROVE  (s \o t)[i] \in ToSet(s) \cup ToSet(t)
    <2>1. CASE i <= Len(s)
      BY <1>1, <1>2, <2>1 DEF ToSet
    <2>2. CASE ~ (i <= Len(s))
      <3>1. i - Len(s) \in 1 .. Len(t) /\ i = Len(s) + (i - Len(s))
        BY <1>1, <2>2
      <3> QED BY <1>1, <1>3, <3>1 DEF ToSet
    <2> QED BY <2>1, <2>2
  <1>5. ToSet(s \o t) \subseteq ToSet(s) \cup ToSet(t)
    BY <1>1, <1>4 DEF ToSet
  <1>6. ToSet(s) \subseteq ToSet(s \o t)
    BY <1>1, <1>2 DEF ToSet
  <1>7. ASSUME NEW i \in 1 .. Len(t) PROVE t[i] \in ToSet(s \o t)
    <2>1. Len(s) + i \in DOMAIN (s \o t)
      BY <1>1
    <2> QED BY <1>3, <2>1 DEF ToSet
  <1>8. ToSet(t) \subseteq ToSet(s \o t)
    BY <1>1, <1>7 DEF ToSet
  <1> QED BY <1>5, <1>6, <1>8

(* A list has what its class body declares, and nothing that no class that *)
(* uses it adds: the list itself says less than what it is used for.       *)
ListsBetween ==
  /\ lists \in [Lists -> Seq(STRING)]
  /\ \A l \in Lists :
       /\ ToSet(Declared[l]) \subseteq ToSet(lists[l])
       /\ ToSet(lists[l]) \subseteq ToSet(Declared[l]) \cup Additions(l)

LEMMA AddedByView ==
  ASSUME NEW v \in Views, NEW a \in Actions
  PROVE  ToSet(Extra[v]) \subseteq Additions(ListOf[v][a])
  BY DEF Additions

LEMMA DispatchBetween ==
  ASSUME ListsBetween, NEW v \in Views, NEW a \in Actions, Dispatch(v, a)
  PROVE  ListsBetween' /\ RequiredAsDeclared'
  <1> DEFINE l == ListOf[v][a]
             classes == lists[l] \o Extra[v]
  <1>1. l \in Lists /\ lists[l] \in Seq(STRING) /\ Extra[v] \in Seq(STRING)
    BY DispatchAssumption DEF ListsBetween
  <1>2. classes \in Seq(STRING) /\ ToSet(classes) = ToSet(lists[l]) \cup ToSet(Extra[v])
    BY <1>1, ToSetOfConcat
  <1>3. /\ lists' = [lists EXCEPT ![l] = classes]
        /\ last' = IF classes = <<>> THEN None
                   ELSE [view |-> v, action |-> a, classes |-> classes]
    BY DEF Dispatch
  <1>4. ToSet(Extra[v]) \subseteq Additions(l)
    BY AddedByView
  <1>5. /\ ToSet(Declared[l]) \subseteq ToSet(lists[l])
        /\ ToSet(lists[l]) \subseteq ToSet(Declared[l]) \cup Additions(l)
    BY <1>1 DEF ListsBetween
  <1>6. ListsBetween'
    <2>1. lists' \in [Lists -> Seq(STRING)]
      BY <1>1, <1>2, <1>3 DEF ListsBetween
    <2>2. lists'[l] = classes /\ \A k \in Lists : k /= l => lists'[k] = lists[k]
      BY <1>1, <1>3 DEF ListsBetween
    <2>3. ASSUME NEW k \in Lists
          PROVE  /\ ToSet(Declared[k]) \subseteq ToSet(lists'[k])
                 /\ ToSet(lists'[k]) \subseteq ToSet(Declared[k]) \cup Additions(k)
      <3> HIDE DEF l, classes
      <3>1. CASE k = l
        BY <1>2, <1>4, <1>5, <2>2, <3>1
      <3>2. CASE k /= l
        BY <2>2, <3>2 DEF ListsBetween
      <3> QED BY <3>1, <3>2
    <2> QED BY <2>1, <2>3 DEF ListsBetween
  <1>7. RequiredAsDeclared'
    <2>1. /\ ToSet(Declared[l]) \cup ToSet(Extra[v]) \subseteq ToSet(classes)
          /\ ToSet(classes) \subseteq ToSet(Declared[l]) \cup ToSet(Extra[v]) \cup Additions(l)
      <3> HIDE DEF l, classes
      <3> QED BY <1>2, <1>4, <1>5
    <2>2. CASE last' = None
      BY <2>2 DEF RequiredAsDeclared
    <2>3. CASE last' = [view |-> v, action |-> a, classes |-> classes]
      <3>1. last'.view = v /\ last'.action = a /\ last'.classes = classes
        BY <2>3
      <3> QED BY <2>1, <3>1 DEF RequiredAsDeclared
    <2> QED BY <1>3, <2>2, <2>3
  <1> QED BY <1>6, <1>7

(* docs/conventions.md:115.  Whatever a process has served before, a       *)
(* request is held to the declared permissions of its action and the extra *)
(* ones of its view, and beyond them only to what classes with the same    *)
(* list add: exactly to what is declared where a list is one class's own.  *)
THEOREM HeldToWhatIsDeclared == Spec => []RequiredAsDeclared
  <1>1. Init => ListsBetween /\ RequiredAsDeclared
    BY DispatchAssumption DEF Init, ListsBetween, RequiredAsDeclared
  <1>2. ListsBetween /\ RequiredAsDeclared /\ [Next]_vars
          => ListsBetween' /\ RequiredAsDeclared'
    <2> SUFFICES ASSUME ListsBetween, RequiredAsDeclared, [Next]_vars
                 PROVE  ListsBetween' /\ RequiredAsDeclared'
      OBVIOUS
    <2>1. CASE Restart
      BY <2>1, DispatchAssumption DEF Restart, ListsBetween, RequiredAsDeclared
    <2>2. CASE UNCHANGED vars
      BY <2>2 DEF vars, ListsBetween, RequiredAsDeclared
    <2> QED BY <2>1, <2>2, DispatchBetween DEF Next
  <1> QED BY <1>1, <1>2, PTL DEF Spec
=============================================================================
