---------------------------- MODULE MCTaskStore ----------------------------
(* Instances of the task store for TLC. *)
EXTENDS TaskStoreProperties, TLC

CONSTANTS t1, t2, p1, p2, w1, w2

(* Which task each tasks/result request names, and whose request it is. *)
BothOnFirst == w1 :> t1 @@ w2 :> t1
SamePeer == w1 :> p1 @@ w2 :> p1
TwoPeers == w1 :> p1 @@ w2 :> p2
=============================================================================
