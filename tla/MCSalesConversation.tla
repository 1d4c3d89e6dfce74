-------------------------- MODULE MCSalesConversation --------------------------
(* Two conversations and two messages at a time, all alike.                    *)
EXTENDS SalesConversation, TLC
Symmetry == Permutations(Convs) \cup Permutations(Turns) \cup Permutations(Phones)
=============================================================================
