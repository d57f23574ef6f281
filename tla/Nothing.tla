------------------------------- MODULE Nothing -------------------------------
(***************************************************************************)
(* The value of an id, a name or a time that is not there, the same in all *)
(* components that are composed into one specification.                    *)
(***************************************************************************)
CONSTANT None
=============================================================================
