------------------------------ MODULE Exchange ------------------------------
(***************************************************************************)
(* One side writes a value and the other reads it; on the way it may be    *)
(* altered as a writer built from another version of the protocol would    *)
(* have written it.                                                        *)
(***************************************************************************)
EXTENDS JsonValues

CONSTANTS
  Texts,        \* the texts of fields and labels
  MaxAltered    \* at most so many changes on the way

ASSUME TextsAssumption == "" \in Texts

VARIABLES
  path,      \* "binary" | "json" | "audit"
  sent,      \* what the writer holds
  carried,   \* its encoded form, Undefined before it is written
  altered,   \* the changes made on the way, in order
  received   \* what the reader made of it, Undefined before it reads

exchangeVars == <<path, sent, carried, altered, received>>

NothingWritten ==
  /\ carried = Undefined
  /\ altered = <<>>
  /\ received = Undefined

OnItsWay == carried # Undefined /\ received = Undefined
=============================================================================
