--------------------------- MODULE MCHttpToolCalls ---------------------------
(* An instance of the outbound calls for TLC: a call that may be repeated, *)
(* and one that may not and cannot be cancelled, made by tools or plugins. *)
EXTENDS HttpToolCalls, TLC

CONSTANTS get1, post1

AnyRetried == {"unauthorized", "status", "network"}

Refreshing(again) ==
  [grant |-> "refresh_token", bootstrap |-> TRUE, retryOn401 |-> again]

Credentials ==
  [grant |-> "client_credentials", bootstrap |-> FALSE, retryOn401 |-> TRUE]

Policies == {Refreshing(TRUE), Refreshing(FALSE), Credentials}

MadeBy(g, p) == [c \in {get1, post1} |-> IF c = get1 THEN g ELSE p]

Tool1(auth) == [by |-> "tool", auth |-> auth]
Send1(auth) == [by |-> "send", auth |-> auth]
Helper == [by |-> "helper", auth |-> "oauth"]

Makers ==
  {MadeBy(Tool1("oauth"), Tool1("oauth")), MadeBy(Send1("oauth"), Send1("own")),
   MadeBy(Send1("other"), Helper), MadeBy(Tool1("own"), Tool1("other"))}

(* expires_in: good for a tick (Skew = 1), not said, too long. *)
Lifetimes == {2, Never, TooLong}
=============================================================================
