---------------------------- MODULE MCJsonlStore ----------------------------
(* Events are interchangeable; only sets of items and of queue items are put *)
(* in an order (SetToSeq).                                                    *)
EXTENDS JsonlStore
Symmetry == Permutations(Event)
=============================================================================
