----------------------------- MODULE MCMembership -----------------------------
(***************************************************************************)
(* Two servers, of which each may be started twice and which together lose *)
(* their connection to ZooKeeper once: enough for a restarted server, a    *)
(* resumed session, an expired one, and znodes of both servers.  The       *)
(* liveness is checked with one server that loses it three times.          *)
(***************************************************************************)
EXTENDS Membership

CONSTANTS s1, s2

MCServer == {s1, s2}
MCOneServer == {s1}
Symmetry == Permutations(MCServer)
=============================================================================
