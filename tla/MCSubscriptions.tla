-------------------------- MODULE MCSubscriptions --------------------------
(* Model-checking instances of Subscriptions. *)
EXTENDS Subscriptions, TLC
CONSTANTS v, w

ASSUME v \in Values /\ w \in Values

(* The contents to start from: the fields of an object differ, so that a    *)
(* mix-up of two shows. The thread is scheduled as Fairness says.          *)
FirstField == CHOOSE f \in Fields : TRUE
MCInit == Init /\ mem = [o \in Objects |-> [f \in Fields |-> IF f = FirstField THEN v ELSE w]]
MCFairSpec == MCInit /\ [][Next]_vars /\ Fairness
=============================================================================
