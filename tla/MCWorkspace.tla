---------------------------- MODULE MCWorkspace ----------------------------
(* An employee who works privately and a colleague in the chats. *)
EXTENDS Workspace, TLC

CONSTANTS u1, u2, a, b

Shared == [u \in People |-> IF u = u1 THEN {"answer", "return", "revise", "edit", "reject"}
                                      ELSE {"answer"}]

Symmetry == Permutations({a, b})
=============================================================================
