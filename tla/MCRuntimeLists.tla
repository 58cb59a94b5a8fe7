--------------------------- MODULE MCRuntimeLists ---------------------------
(* Instances of the runtime's lists for TLC. *)
EXTENDS RuntimeListsProperties, TLC

CONSTANTS boot, next, k1, k2, r1, r2, x1, x2, d1, d2

Callers == Reload \cup Refresher \cup Flusher

(* The next configuration lists other tools and prompts. *)
Lists == [c \in Config |-> [f \in Feature |-> IF c = next THEN 1 ELSE 0]]

AllNotified == [c \in Config |-> Feature]

(* A reload may switch the notifications of the prompts off. *)
SomeNotified ==
  [c \in Config |-> IF c = next THEN Feature \ {"prompts"} ELSE Feature]
=============================================================================
