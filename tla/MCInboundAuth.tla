---------------------------- MODULE MCInboundAuth ----------------------------
(* Finite instances of InboundAuth. *)
EXTENDS InboundAuth, TLC

CONSTANTS r1, r2

Jwks(issuer, url) ==
  [type |-> "jwks", issuer |-> issuer, jwksUrl |-> url, candidates |-> TRUE,
   names |-> "a"]
Other(type, issuer) ==
  [type |-> type, issuer |-> issuer, jwksUrl |-> FALSE,
   candidates |-> issuer # None, names |-> "b"]

(* Keys found by discovery before a plugin, a list of every other kind, and *)
(* one that needs no resource.                                              *)
Lists ==
  {<<Jwks(None, FALSE), Other("plugin", None)>>,
   <<Other("plugin", None)>>,
   <<Other("bearer", None), Other("introspection", "b"), Jwks("a", TRUE)>>}

Fits == [claims |-> TRUE, audiences |-> "all", scopes |-> TRUE]

JwtOf(iss, keys) ==
  [bearer |-> FALSE, jwt |-> TRUE, iss |-> iss, keys |-> [after |-> keys]] @@ Fits
Opaque(bearer) ==
  [bearer |-> bearer, jwt |-> FALSE, iss |-> None, keys |-> [after |-> 0]] @@ Fits

(* A token of the old keys and one of the new; tokens that are no JWT. *)
Tokens ==
  (r1 :> {JwtOf("a", 0), [JwtOf("b", 0) EXCEPT !.audiences = "some"], Opaque(TRUE), None} @@
   r2 :> {[JwtOf("a", 1) EXCEPT !.scopes = FALSE],
          [JwtOf(None, 0) EXCEPT !.claims = FALSE], Opaque(FALSE)})
=============================================================================
