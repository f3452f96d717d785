------------------------------ MODULE JsonValues ------------------------------
(***************************************************************************)
(* The values of JavaScript and of JSON that stand beside the data.        *)
(***************************************************************************)
CONSTANTS
  Undefined,  \* a field that is not there
  Null,       \* null in JSON
  Threw       \* the outcome of a conversion that threw
=============================================================================
