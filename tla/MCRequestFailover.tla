--------------------------- MODULE MCRequestFailover ---------------------------
(* An instance of RequestFailover for TLC.                                 *)
EXTENDS RequestFailover, TLC

CONSTANTS s1, s2, q1, q2

(* The continuation of a tool call, alone.                                 *)
MCMixes == {q1 :> "toolResult" @@ q2 :> "none"}
=============================================================================
