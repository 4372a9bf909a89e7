----------------------------- MODULE MCAccounts -----------------------------
(***************************************************************************)
(* Instances of Accounts for TLC.                                          *)
(***************************************************************************)
EXTENDS Accounts

\* The seeded administrator and somebody who may register.
Two == {"admin", "ann"}
Passwords == {"p", "q"}

\* Keys with and without an end.
Lives == {0, 1}

\* A user is demoted, and disabled or enabled.
Changes == {<<FALSE, FALSE>>, <<FALSE, TRUE>>}
=============================================================================
