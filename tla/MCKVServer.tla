------------------------------ MODULE MCKVServer ------------------------------
(***************************************************************************)
(* Two clients of one server.  Keys 1 and 2 share the only list, so that a *)
(* removal meets lists with no, with one and with another node.            *)
(***************************************************************************)
EXTENDS KVServer

CONSTANTS s1, c1, c2, v1

MCServer == {s1}
MCNoServer == {}
MCClient == {c1, c2}
MCKey    == {1, 2}
MCOneKey == {1}
MCValue  == {v1}
MCHash   == [k \in MCKey |-> 0]
MCOneKeyHash == [k \in MCOneKey |-> 0]
MCPutDel == {"put", "del"}
MCPutKeys == {"put", "getkeys"}
MCPut    == {"put"}
Symmetry == Permutations(MCClient)
=============================================================================
