---------------------------- MODULE MCDeployment ----------------------------
(***************************************************************************)
(* Small instances of Deployment.                                          *)
(***************************************************************************)
EXTENDS Deployment

CONSTANTS r1, w1, w2, srl1, other

(* Leader election among the workers only.                                 *)
WorkersElect == [p \in Proc |-> p \in Worker]

(* Leader election wherever the flag exists.                               *)
AllElect == [p \in Proc |-> TRUE]
=============================================================================
