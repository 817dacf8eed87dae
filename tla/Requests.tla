------------------------------- MODULE Requests -------------------------------
(***************************************************************************)
(* The requests the API serves at once.  Each has a database session: it   *)
(* loads rows, and a COMMIT writes the columns it changed and the rows it  *)
(* added over what other sessions have committed since.                    *)
(***************************************************************************)
EXTENDS Naturals, FiniteSets

CONSTANT Session

NoTx == [op |-> "none"]

\* x if the session left it as it was loaded, and y, the value it assigned, otherwise.
WrittenOver(stored, seen, new) == IF new = seen THEN stored ELSE new
=============================================================================
