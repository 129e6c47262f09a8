------------------------------ MODULE LocalTools ------------------------------
(***************************************************************************)
(* How LocalToolRegistry.call (tools/local_tools.py) checks the arguments  *)
(* of a call against the schema of the tool.  Of an argument only its type *)
(* matters; TRUE and FALSE are integers, as in Python.                     *)
(***************************************************************************)
CONSTANTS
    Schemas,    \* parameters_schema of the tools: required and properties
    Arguments   \* the arguments of calls: a type for each name

ASSUME SchemasAssumption ==
    \A schema \in Schemas : DOMAIN schema = {"required", "properties"}

\* The types a JSON type stands for; another type is not checked.
TypeMap == [
    string  |-> {"str"},
    integer |-> {"int", "bool"},
    number  |-> {"int", "bool", "float"},
    boolean |-> {"bool"},
    array   |-> {"list"},
    object  |-> {"dict"}]

CheckType(type, expected) == expected \in DOMAIN TypeMap => type \in TypeMap[expected]

Fits(args, schema) ==
    /\ schema.required \subseteq DOMAIN args
    /\ \A name \in DOMAIN args \cap DOMAIN schema.properties :
          CheckType(args[name], schema.properties[name])
=============================================================================
