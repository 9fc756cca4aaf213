---------------------------- MODULE MC_StdioAgent ----------------------------
EXTENDS StdioAgent, TLC

(* All prompts of the instances go to one session.                           *)
CONSTANT s

OneSession == {s}
AllInOne == [p \in Prompt |-> s]

Symmetry == Permutations(Prompt)

=============================================================================
