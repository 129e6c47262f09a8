--------------------------- MODULE MCToolExecution ---------------------------
(***************************************************************************)
(* Every level, set of permissions, approval, endpoint and state of the    *)
(* disk; the two registries change whenever the call waits.  "*" covers    *)
(* everything, "q*" what begins with q.                                    *)
(***************************************************************************)
EXTENDS ToolExecution

MCAction == {"query", "list"}
MCPermission == {"query", "q*", "*"}
MCWildcard == {"q*", "*"}
MCCovers == [p \in MCPermission |->
    CASE p = "*" -> MCPermission \cup MCAction
      [] p = "q*" -> {"query", "q*"}
      [] OTHER -> {p}]

\* A tool without a schema; one that needs an integer; one with an unknown type.
MCSchemas == {
    [required |-> {}, properties |-> <<>>],
    [required |-> {"n"}, properties |-> [n |-> "integer"]],
    [required |-> {}, properties |-> [n |-> "any"]]}
MCArguments == {[n |-> "str"]}
=============================================================================
