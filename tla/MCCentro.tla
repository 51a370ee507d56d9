------------------------------ MODULE MCCentro ------------------------------
(* Instance of CentroMensajes for TLC.                                       *)
EXTENDS CentroMensajes, TLC

CONSTANTS m1, m2, w1, w2, h1, h2

Types == {"delivered", "bounced", "unknown"}
MCCallerRef == [m \in Msg |-> NoCallerRef]
Symmetry == Permutations(Worker) \cup Permutations(Handler)
=============================================================================
