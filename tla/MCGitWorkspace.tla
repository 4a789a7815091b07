--------------------------- MODULE MCGitWorkspace ---------------------------
(* Two events of one pull request and one of another repository, whose     *)
(* App installation differs; a fourth event carries no installation.       *)
EXTENDS GitWorkspace

CONSTANTS e1, e2, e3, e4, k1, k2, k3, i1, i2

MCEvents == {e1, e2, e3, e4}
OwnEvents == {e1, e2}
MCKeys == {k1, k2, k3}
MCInstallations == {i1, i2}
MCKeyOf == [e \in Events |-> CASE e = e3 -> k2 [] e = e4 -> k3 [] OTHER -> k1]
MCInstallationOf ==
    [k \in MCKeys |-> CASE k = k1 -> i1 [] k = k2 -> i2 [] OTHER -> NoInstallation]

\* Everything is over.
Over ==
    /\ \A e \in Events : stage[e] \in {"rejected", "done"}
    /\ clock = MaxClock
    /\ git = <<>>
    /\ UNCHANGED allVars

MCSpec == GitInit /\ [][GitNext \/ Over]_allVars
=============================================================================
