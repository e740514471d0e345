------------------------------ MODULE MCCamera ------------------------------
(* Small instances of Camera for TLC. *)
EXTENDS Camera
=============================================================================
