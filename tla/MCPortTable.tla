------------------------------ MODULE MCPortTable ------------------------------
(* Two listening ports, two or three ports to lend, two roles.               *)
EXTENDS PortTable
=============================================================================
