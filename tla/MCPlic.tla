------------------------------- MODULE MCPlic -------------------------------
(* The instances of Plic that TLC checks.                                    *)
EXTENDS Plic

EnableWrites(sets) ==
  [kind : {"enable"}, target : Target, set : sets]
PriorityWrites(id, value) ==
  [kind : {"priority"}, id : {id}, value : {value}]
(* Both sources on for each context and off again for context 0; source 1    *)
(* gets the higher priority, and context 1 masks the lower one and again not.*)
MixedSettings ==
  EnableWrites({Src})
    \cup [kind : {"enable"}, target : {0}, set : {{}}]
    \cup PriorityWrites(1, 2) \cup PriorityWrites(2, 1)
    \cup [kind : {"threshold"}, target : {1}, value : {0, 1}]
=============================================================================
