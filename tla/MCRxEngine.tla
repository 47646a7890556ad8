------------------------------ MODULE MCRxEngine ------------------------------
(* The receive pipeline with a few short segments and FIFOs that fill up.     *)
EXTENDS RxEngine
=============================================================================
