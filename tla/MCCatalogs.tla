----------------------------- MODULE MCCatalogs -----------------------------
(* Instances of the catalogs for TLC. *)
EXTENDS Catalogs

CONSTANTS k1, k2, k3, inline, stock, verse, x1, x2, c1

(* The plugin stock lists a duplicate of the inline resource, and changes  *)
(* its list; the plugin verse lists a prompt, then one that is refused.    *)
Configured ==
  [f \in Feature |-> IF f = "prompts" THEN <<verse>> ELSE <<inline, stock>>]

Data ==
  [p \in Provider |-> [v \in 0..MaxVersion |->
     CASE p = inline -> <<k1>>
       [] p = stock -> IF v = 0 THEN <<k1, k2>> ELSE <<k2>>
       [] p = verse -> IF v = 0 THEN <<k1>> ELSE <<k1, k2>>]]

Validity == [p \in Provider |-> [v \in 0..MaxVersion |-> p # verse \/ v = 0]]

(* The last template refuses what the first one takes. *)
Templates ==
  <<[provider |-> stock, matches |-> {k2, k3}, accepts |-> {k2, k3}],
    [provider |-> inline, matches |-> {k3}, accepts |-> {}]>>
=============================================================================
