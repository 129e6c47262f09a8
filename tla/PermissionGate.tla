---------------------------- MODULE PermissionGate ----------------------------
(***************************************************************************)
(* How PermissionGate (security/permission_gate.py) matches an action with *)
(* permissions, and what remains of the permissions of an agent that acts  *)
(* on behalf of a user.                                                    *)
(*                                                                         *)
(* A permission is the name of an action or a pattern with a star.  What   *)
(* fnmatch matches is given by Covers; permissions with the other special  *)
(* characters of fnmatch, which no policy file has, are left out.          *)
(***************************************************************************)

CONSTANTS
    Action,      \* the actions that are asked for
    Permission,  \* permissions of agents and users
    Wildcard,    \* those with a star
    Covers       \* the actions, and the permissions, that a permission matches

\* A star matches whatever a star inside of what it matches does.
ASSUME CoversAssumption ==
    /\ Wildcard \subseteq Permission
    /\ Covers \in [Permission -> SUBSET (Action \cup Permission)]
    /\ \A p \in Permission \ Wildcard : Covers[p] = {p}
    /\ \A p \in Wildcard :
          \A q \in Covers[p] \cap Permission : Covers[q] \subseteq Covers[p]

IsActionAllowed(action, permissions) == \E p \in permissions : action \in Covers[p]

\* Variant: the pattern remains, and not what it matches.
CoveringPatterns(permissions, others) ==
    {w \in others \cap Wildcard : \E p \in permissions : p \in Covers[w]}

\* Those of the one side that a pattern of the other side matches.
CoveredBy(permissions, others) ==
    {p \in permissions : \E w \in others \cap Wildcard : p \in Covers[w]}

\* _compute_effective_permissions: what both have, and what one has and a pattern
\* of the other matches.
Effective(agent, user) ==
    (agent \cap user) \cup CoveredBy(user, agent) \cup CoveredBy(agent, user)
=============================================================================
