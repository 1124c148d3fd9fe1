----------------------------- MODULE MCNodeMgr -----------------------------
(* An antenna switch behind node 1 and an ATU behind node 2.                 *)
EXTENDS NodeMgr

MCNodeType == [n \in Nodes |-> IF n = 1 THEN "antenna_switch" ELSE "other"]
MCDevType == <<"AntennaSwitch", "unknown", "ATU">>
MCDevNodes == << <<1>>, <<1>>, <<2>> >>

Frame(n, k, v) == [src |-> n, kind |-> k, value |-> v]
Info == Frame(1, "NODE_INFO", 0)
Select(v) == Frame(1, "REG_VALUE", v)
Bulk == Frame(2, "BROADCAST0", 0)
MCScripts == {<<Info, Select(1), Select(0)>>, <<Bulk, Select(1), Info>>}
=============================================================================
