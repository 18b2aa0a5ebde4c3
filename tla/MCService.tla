------------------------------ MODULE MCService ------------------------------
(* Instances of the request service: provider generations and the requests   *)
(* over them.                                                                *)
EXTENDS RequestLifetime, TLC

CONSTANTS r1, o1, p1, a1
==============================================================================
