----------------------------- MODULE MCNodeDesc -----------------------------
(* Two versions of a description file, of a type that two nodes may have or  *)
(* another node type.                                                        *)
EXTENDS NodeDesc

Byte8(type) == RegisterDsc(type, 8, TRUE, TRUE)
MCFile == [t \in {5} |-> [r \in {9, 10, 11} |-> Byte8("uint")]]
MCNewFile == [t \in {5, 12} |-> [r \in {10, 12} |-> Byte8("bool")]]
MCFiles == {MCFile, MCNewFile, Unreadable}
MCInfos == {[type |-> 5, version |-> 1], [type |-> 12, version |-> 1]}
=============================================================================
