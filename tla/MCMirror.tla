------------------------------ MODULE MCMirror ------------------------------
(* Bounds for the model-checked instances of Mirror. *)
EXTENDS Mirror

RevsTwoOne == <<2, 1>>
=============================================================================
