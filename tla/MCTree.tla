------------------------------- MODULE MCTree -------------------------------
(***************************************************************************)
(* Two instances of MetadataTree: threads that look up and create paths    *)
(* until the blocks run out, and a thread that edits paths.  part says     *)
(* which one a behaviour is about; the other stays in its initial state.   *)
(***************************************************************************)
EXTENDS MetadataTree, TLC

ThreadSymmetry == Permutations(Threads)

CONSTANT Editor

VARIABLES
    part, e_mG, e_head, e_node, e_made, e_next_block, e_index, e_nodeblock, e_pc, e_segs,
    e_parent, e_cur, e_want, e_result, e_got, e_calls

Edit == INSTANCE MetadataTree WITH
          Threads <- {Editor}, nodes_per_block <- 5, num_blocks <- 4, MaxCalls <- 3,
          Ops <- Ops \cup {"get_path_nodes", "remove_first_in_path", "replace_first_in_path",
                           "replace_all_in_path"},
          mG <- e_mG, head <- e_head, node <- e_node, made <- e_made, next_block <- e_next_block,
          index <- e_index, m_nodeblock <- e_nodeblock, pc <- e_pc, segs <- e_segs,
          parent <- e_parent, cur <- e_cur, want <- e_want, result <- e_result, got <- e_got,
          calls <- e_calls

edit_vars == <<e_mG, e_head, e_node, e_made, e_next_block, e_index, e_nodeblock, e_pc, e_segs,
               e_parent, e_cur, e_want, e_result, e_got, e_calls>>

TreeInit == part \in {"race", "edit"} /\ Init /\ Edit!Init

TreeNext ==
    \/ part = "race" /\ Next /\ UNCHANGED <<part, edit_vars>>
    \/ part = "edit" /\ Edit!Next /\ UNCHANGED <<part, vars>>

TreeSpec == TreeInit /\ [][TreeNext]_<<part, vars, edit_vars>>

(* A call returns a node with exactly the path that was asked for, while    *)
(* other threads extend that path, and an edit one whose path is the given  *)
(* one with the entries of the attribute removed or replaced and the rest   *)
(* in order; they fail only when all blocks have been handed out (get_path, *)
(* get_child, remove_first_in_path, replace_first_in_path,                  *)
(* replace_all_in_path).                                                    *)
PathsExact == PathExact /\ Edit!PathExact
=============================================================================
