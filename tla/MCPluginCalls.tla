--------------------------- MODULE MCPluginCalls ---------------------------
(* Instances of the plugin calls for TLC. *)
EXTENDS PluginCalls, TLC

CONSTANTS c1, c2, r1, r2, r3

(* Two tasks share the context of c1; the plugin of c2 reports alone. *)
TwoOnFirst == r1 :> c1 @@ r2 :> c1 @@ r3 :> c2
=============================================================================
