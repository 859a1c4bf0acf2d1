------------------------ MODULE MCPermissionDispatch ------------------------
(* PermissionDispatch for a base viewset that is public, one that inherits *)
(* its permissions and adds one, one with a list of its own for "list",    *)
(* and one that declares nothing at all.                                   *)
EXTENDS PermissionDispatch

MCViews == {"base", "derived", "strict", "other"}
MCActions == {"list", "default"}
MCLists == {"base_default", "strict_list", "strict_default", "other_default"}

MCListOf ==
  [base    |-> [list |-> "base_default", default |-> "base_default"],
   derived |-> [list |-> "base_default", default |-> "base_default"],
   strict  |-> [list |-> "strict_list", default |-> "strict_default"],
   other   |-> [list |-> "other_default", default |-> "other_default"]]

MCDeclared ==
  [base_default   |-> <<"AllowAny">>,
   strict_list    |-> <<"IsAdminUser">>,
   strict_default |-> <<"IsAuthenticated">>,
   other_default  |-> <<>>]

MCExtra ==
  [base |-> <<>>, derived |-> <<"RegisterComplete">>,
   strict |-> <<"RegisterComplete">>, other |-> <<"Owner", "Open">>]
=============================================================================
