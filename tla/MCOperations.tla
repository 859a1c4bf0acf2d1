----------------------------- MODULE MCOperations -----------------------------
(***************************************************************************)
(* Two processes seed a persona and a bulk user; two samples; three pushes.*)
(***************************************************************************)
EXTENDS Operations

MCPersonas == << [verified |-> FALSE, complete |-> FALSE, active |-> FALSE] >>

MCSamples == <<"email_confirmation", "password_recovery">>
=============================================================================
