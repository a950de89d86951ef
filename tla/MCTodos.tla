------------------------------ MODULE MCTodos ------------------------------
(* Three requests that are alike. *)
EXTENDS Todos, TLC

AnyRequest == Permutations(Requests)
=============================================================================
