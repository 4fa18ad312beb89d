---------------------------- MODULE MCAgentWakes ----------------------------
(***************************************************************************)
(* Two agents under a human-driven root, for TLC.                          *)
(***************************************************************************)
EXTENDS AgentWakes, TLC

CONSTANTS a1, a2

\* A chain: a2 reports to a1, whose results wake nobody.
MCParent == (a1 :> Root) @@ (a2 :> a1)
MCAncestors == (a1 :> {Root}) @@ (a2 :> {Root, a1})

\* Two children of the root: no settlement needs a further wake, so that two
\* tasks can compete for the dispatcher within two wakes.
FlatParent == (a1 :> Root) @@ (a2 :> Root)
FlatAncestors == (a1 :> {Root}) @@ (a2 :> {Root})

=============================================================================
