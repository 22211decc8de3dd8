------------------------- MODULE MCEntityInspector -------------------------
(* EntityInspector on a small instance. *)
EXTENDS EntityInspector, TLC

(* The entities are interchangeable: only behaviours that select the same   *)
(* one first are explored, every other is one of them with names swapped.   *)
FirstEntity == CHOOSE e \in Entities : TRUE
FirstSelected == ran > 0 => of[1] = FirstEntity
=============================================================================
