----------------------------- MODULE MCStartPlan -----------------------------
(***************************************************************************)
(* Instance of StartPlan: one scope with an external plugin, an official    *)
(* row that the user's patch file also mentions, and an embedded row; and   *)
(* one scope without external plugins.                                      *)
(***************************************************************************)
EXTENDS StartPlan

CONSTANTS web, plain

Row(id, from, official) == [id |-> id, from |-> from, officialName |-> official]

Plugin == Row("plugin", "external", FALSE)
Core == Row("core", "official", TRUE)
Patched == Row("core", "external", FALSE)
Embedded == Row("embedded-client", "external", FALSE)
Nameless == Row("nameless", "unknown", FALSE)

MCScopes == {web, plain}
MCRows == {Plugin, Core, Patched, Embedded, Nameless}
MCFullRows == [c \in MCScopes |-> IF c = web THEN {Plugin, Core, Embedded}
                                             ELSE {Core, Embedded, Nameless}]
MCDefaultRows == [c \in MCScopes |-> {Core, Embedded}]
MCUserRows == [c \in MCScopes |-> IF c = web THEN {Plugin, Patched} ELSE {}]
MCEmbeddedIds == {"embedded-client"}
=============================================================================
