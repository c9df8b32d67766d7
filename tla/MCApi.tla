--------------------------------- MODULE MCApi ---------------------------------
(***************************************************************************)
(* ApiServer with two local connections and a remote one.                  *)
(***************************************************************************)
EXTENDS ApiServer

CONSTANTS a, b, r, pidA, pidB, session

\* Both local connections belong to one process.
OneProcess == [c \in Conn |-> IF c = r THEN session ELSE pidA]

\* Every connection has a process of its own.
TwoProcesses ==
    [c \in Conn |-> CASE c = a -> pidA [] c = b -> pidB [] c = r -> session]
=============================================================================
