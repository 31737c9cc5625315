------------------------------- MODULE RplJoin -------------------------------
(* What joining promises, without timers, buffers or state objects: a node   *)
(* searches, adopts one advertised root, announces itself to that root and   *)
(* becomes a member under it.  It never changes its root and never goes back *)
(* except by starting again from nothing.                                    *)
CONSTANT Root       \* the roots that may be advertised

VARIABLES phase,    \* "searching", "announcing" or "member"
          root      \* the adopted root: {} or a singleton

joinVars == <<phase, root>>

JoinTypeOK ==
    /\ phase \in {"searching", "announcing", "member"}
    /\ root \in {{}} \cup {{r} : r \in Root}
    /\ phase = "searching" <=> root = {}

JoinInit == phase = "searching" /\ root = {}

Adopt(r) ==
    /\ phase = "searching"
    /\ phase' = "announcing"
    /\ root' = {r}

Admit ==
    /\ phase = "announcing"
    /\ phase' = "member"
    /\ root' = root

StartAgain ==
    /\ phase = "announcing"
    /\ phase' = "searching"
    /\ root' = {}

JoinNext == (\E r \in Root : Adopt(r)) \/ Admit \/ StartAgain

JoinSpec == JoinInit /\ [][JoinNext]_joinVars
=============================================================================
