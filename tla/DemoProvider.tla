----------------------------- MODULE DemoProvider -----------------------------
(***************************************************************************)
(* DemoProvider (llm/demo.py), the provider of a program without API keys: *)
(* keywords of the request stand for skills, and the answer to whatever is *)
(* asked is a plan that runs the skills mentioned one after the other.     *)
(*                                                                         *)
(* A keyword is abstracted to the skill it stands for.                     *)
(***************************************************************************)
EXTENDS Naturals, Sequences

\* The skills in the order of _SKILL_MAP, which is that of the plan.
SkillMap == <<"monitoring", "troubleshooting", "change_management">>

Skill == {SkillMap[i] : i \in DOMAIN SkillMap}

MatchedSkills(mentioned) ==
    IF mentioned = {} THEN <<"monitoring">>
    ELSE SelectSeq(SkillMap, LAMBDA s : s \in mentioned)

\* _decompose, for a request that mentions these skills.  The ids of the tasks,
\* "t1" to "t3", are the same in every answer.
DemoDecompose(mentioned, ids) ==
    [i \in DOMAIN MatchedSkills(mentioned) |->
        [id |-> ids[i], dependencies |-> IF i = 1 THEN {} ELSE {ids[i - 1]}]]

DemoPlans(ids) == {DemoDecompose(mentioned, ids) : mentioned \in SUBSET Skill}
=============================================================================
