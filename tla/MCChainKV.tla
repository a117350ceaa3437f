------------------------------ MODULE MCChainKV ------------------------------
(***************************************************************************)
(* Two servers, started twice together, and one client, which sends one    *)
(* request and may look its server up at any time: a process may end, be   *)
(* started again or lose its session between any two steps of the lookup.  *)
(***************************************************************************)
EXTENDS ChainKV

CONSTANTS s1, s2, c1, v1

MCServer == {s1, s2}
MCClient == {c1}
MCKey    == {1}
MCValue  == {v1}
MCHash   == [k \in MCKey |-> 0]
MCPut    == {"put"}
MCPutTable == {"put", "gettable"}
Symmetry == Permutations(MCServer)
=============================================================================
