------------------------- MODULE PermissionDispatch -------------------------
(***************************************************************************)
(* ViewSetPermissionMixin.get_permissions of base_viewsets.py, in one      *)
(* worker process.  The lists of a viewset's "permissions" are objects of  *)
(* its class, alive for as long as the process: `permission_classes +=     *)
(* self.extra_permissions` appends to such a list in place.  A subclass    *)
(* that declares no "permissions" has the very lists of its base.          *)
(***************************************************************************)
EXTENDS Naturals, Sequences, SequencesExt

CONSTANTS
  Views,     \* viewset classes
  Actions,   \* actions of a viewset
  Lists,     \* list objects
  ListOf,    \* ListOf[v][a]: self.permissions.get(a, self.permissions["default"])
  Declared,  \* Declared[l]: what the class body puts into list l
  Extra,     \* Extra[v]: extra_permissions of class v
  None,      \* no request has been dispatched
  MaxLength  \* bound: the lists grow no further

ASSUME DispatchAssumption ==
  /\ ListOf \in [Views -> [Actions -> Lists]]
  /\ Declared \in [Lists -> Seq(STRING)] /\ Extra \in [Views -> Seq(STRING)]
  /\ MaxLength \in Nat

VARIABLES
  lists,   \* lists[l]: the present content of list l
  last     \* the last request and the permission classes it was held to

vars == <<lists, last>>

(* Mutant: a copy that starts from the extra permissions alone.            *)
Dispatch_OnlyExtra(v, a) ==
  LET classes == IF Extra[v] = <<>> THEN lists[ListOf[v][a]] ELSE Extra[v] IN
  /\ last' = [view |-> v, action |-> a, classes |-> classes]
  /\ UNCHANGED lists

(* A request is held to the list of its action after the extension.  An    *)
(* empty one raises AssertionError; the extension by nothing stays.        *)
Dispatch(v, a) ==
  LET l == ListOf[v][a]
      classes == lists[l] \o Extra[v] IN
  /\ Len(classes) <= MaxLength
  /\ lists' = [lists EXCEPT ![l] = classes]
  /\ last' = IF classes = <<>> THEN None
             ELSE [view |-> v, action |-> a, classes |-> classes]

(* A new worker process imports the classes afresh.                        *)
Restart ==
  /\ lists' = Declared
  /\ last' = None

Next == (\E v \in Views, a \in Actions : Dispatch(v, a)) \/ Restart

Init == lists = Declared /\ last = None

Spec == Init /\ [][Next]_vars

-----------------------------------------------------------------------------
(* What the classes that have list l in common add to it.                  *)
Additions(l) ==
  UNION {ToSet(Extra[v]) : v \in {v \in Views : \E a \in Actions : ListOf[v][a] = l}}

(* docs/conventions.md:115, extra_permissions are "appended to whichever   *)
(* action runs": a request is held to the declared permissions of its      *)
(* action and the extra ones of its view.  What it may be held to besides, *)
(* by the requests that its process has served before, is what other       *)
(* classes add to the same list; nothing where the list is its own.        *)
RequiredAsDeclared ==
  last /= None =>
    LET l == ListOf[last.view][last.action]
        required == ToSet(Declared[l]) \cup ToSet(Extra[last.view]) IN
    /\ required \subseteq ToSet(last.classes)
    /\ ToSet(last.classes) \subseteq required \cup Additions(l)
=============================================================================
