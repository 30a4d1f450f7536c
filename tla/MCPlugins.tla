----------------------------- MODULE MCPlugins -----------------------------
(* One extension that one of two native modules needs, and one Lua module. *)
EXTENDS PluginsProperties

CONSTANTS e1, n1, n2, l1

MCNeeds == [m \in {n1, n2} |-> IF m = n1 THEN {e1} ELSE {}]
=============================================================================
