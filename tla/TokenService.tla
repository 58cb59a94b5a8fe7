---------------------------- MODULE TokenService ----------------------------
(***************************************************************************)
(* What the token manager promises the calls that ask it for one key,      *)
(* whatever its looks at the cache, its lock and the endpoint do in        *)
(* between.  A call that does not insist on a new token is given the       *)
(* cached one if that is fresh by the time it has last looked at the       *)
(* clock.  Otherwise a token is exchanged for it: for one call at a time,  *)
(* for one that does not insist only while nothing fresh is cached, and    *)
(* what comes of it is newer than all that any call has been given before. *)
(* Only such an exchange changes what is cached.  OutboundTokens           *)
(* implements this module.                                                 *)
(***************************************************************************)
EXTENDS Naturals

CONSTANTS
  Call,
  Token,       \* tokens are numbers, the later the larger
  NoToken,
  NoEntry,     \* nothing is cached
  Never,       \* when a token without expiry expires
  Skew         \* a token is not used so shortly before it expires

VARIABLES
  now,
  cached,      \* what has been exchanged last, and when it expires
  caller       \* caller[c] : where c is, and what it was given

serviceVars == <<now, cached, caller>>

(* since : when a call that waits has last looked at the clock. *)
Away == [at |-> "away", insists |-> FALSE, since |-> 0, token |-> NoToken]
Waiting(insists, since) ==
  [at |-> "waits", insists |-> insists, since |-> since, token |-> NoToken]
Exchanging == [at |-> "exchanges", insists |-> FALSE, since |-> 0, token |-> NoToken]
Given(token) == [at |-> "given", insists |-> FALSE, since |-> 0, token |-> token]

Init ==
  /\ now = 0
  /\ cached = NoEntry
  /\ caller = [c \in Call |-> Away]

FreshAt(time) ==
  /\ cached # NoEntry
  /\ cached.expires # Never => time + Skew < cached.expires

Becomes(c, phase) == caller' = [caller EXCEPT ![c] = phase]

Waits(c) == caller[c].at = "waits"

Tick ==
  /\ now' = now + 1
  /\ UNCHANGED <<cached, caller>>

(* A call asks; it may be told at once that there is no token for it. *)
Ask(c) ==
  /\ caller[c].at = "away"
  /\ \/ Becomes(c, Given(NoToken))
     \/ \E insists \in BOOLEAN : Becomes(c, Waiting(insists, now))
  /\ UNCHANGED <<now, cached>>

(* A call that has waited looks at the clock again. *)
Look(c) ==
  /\ Waits(c)
  /\ Becomes(c, Waiting(caller[c].insists, now))
  /\ UNCHANGED <<now, cached>>

Share(c) ==
  /\ Waits(c)
  /\ ~caller[c].insists
  /\ FreshAt(caller[c].since)
  /\ Becomes(c, Given(cached.access))
  /\ UNCHANGED <<now, cached>>

Exchange(c) ==
  /\ Waits(c)
  /\ \A d \in Call : caller[d].at # "exchanges"
  /\ caller[c].insists \/ ~FreshAt(now)
  /\ Becomes(c, Exchanging)
  /\ UNCHANGED <<now, cached>>

(* A token is replaced by a newer one only. *)
Newer(token) == cached # NoEntry => token > cached.access

Renew(c) ==
  /\ caller[c].at = "exchanges"
  /\ cached' \in [access : {t \in Token : Newer(t)}, expires : Nat \cup {Never}]
  /\ Becomes(c, Given(cached'.access))
  /\ UNCHANGED now

Fail(c) ==
  /\ caller[c].at = "exchanges"
  /\ Becomes(c, Given(NoToken))
  /\ UNCHANGED <<now, cached>>

(* The call takes what it was given, or is dropped wherever it is. *)
Leave(c) ==
  /\ Becomes(c, Away)
  /\ UNCHANGED <<now, cached>>

Next ==
  \/ Tick
  \/ \E c \in Call :
       \/ Ask(c) \/ Look(c) \/ Share(c) \/ Exchange(c) \/ Renew(c) \/ Fail(c) \/ Leave(c)

Spec == Init /\ [][Next]_serviceVars
=============================================================================
