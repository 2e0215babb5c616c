------------------------------ MODULE Results ------------------------------
(***************************************************************************)
(* Result and Option values: {} where the code returns an error or None,   *)
(* {value} where it returns one.                                           *)
(***************************************************************************)
Refused == {}
Ok(value) == {value}
The(result) == CHOOSE v \in result : TRUE
=============================================================================
