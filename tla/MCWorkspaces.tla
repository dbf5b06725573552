---------------------------- MODULE MCWorkspaces -----------------------------
(* Workspaces and the jailoc processes that serve them are interchangeable. *)
EXTENDS Workspaces, TLC

Symmetry == Permutations(Workspace) \cup Permutations(Command)
==============================================================================
