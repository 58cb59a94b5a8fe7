--------------------------- MODULE MCHttpSessions ---------------------------
(* Instances of the session hardening for TLC. *)
EXTENDS HttpSessions, TLC

CONSTANTS c1, c2, c3, a1, a2, s1, s2, s3

(* One token, refilled every second tick: Second = 2. *)
Slow == [capacity |-> 1, refill |-> 1]

(* A burst of two, refilled by three tokens every second tick. *)
Burst == [capacity |-> 2, refill |-> 3]

Rates ==
  {[global |-> Slow, per_ip |-> Burst, key_source |-> "x_forwarded_for"],
   [global |-> Slow, per_ip |-> NoSpec, key_source |-> "peer_addr"],
   [global |-> NoSpec, per_ip |-> Slow, key_source |-> "peer_addr"]}

Unlimited == {[global |-> Burst, per_ip |-> NoSpec, key_source |-> "peer_addr"]}

Interchangeable ==
  Permutations(Creator) \cup Permutations(Session) \cup Permutations(Address)
=============================================================================
