------------------------------ MODULE MCPortal ------------------------------
(* Two tabs of one browser.                                                 *)
EXTENDS Portal
CONSTANTS t1, t2, b1
=============================================================================
