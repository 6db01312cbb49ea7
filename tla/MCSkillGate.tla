---------------------------- MODULE MCSkillGate ----------------------------
(* Values for the checks of SkillGate. *)
EXTENDS SkillGate, TLC

\* The skills are interchangeable.
MCSymmetry == Permutations(Skills)
=============================================================================
