---------------------------- MODULE NodeRegister ----------------------------
(***************************************************************************)
(* What Node (src/h9d/node.cc) makes of a JSON value and of a node's       *)
(* answer: set_register, get_register, set_register_bit and                *)
(* clear_register_bit without the wait, which is RawNode's, and the table  *)
(* of registers every node has (src/common/node_desc_loader.cc).           *)
(*                                                                         *)
(* A JSON value is [json, value]: the number of an integer, the four bytes *)
(* of a float in the node's order, the characters of a string, the bytes   *)
(* of an array, each as a sequence; an error has its name in json.         *)
(***************************************************************************)
EXTENDS H9Frame

CONSTANT Unreadable   \* a description file that cannot be read

Json(kind, value) == [json |-> kind, value |-> value]
Error(name) == Json(name, <<>>)
Integer(n) == Json("integer", <<n>>)

RegisterDsc(type, size, readable, writable) ==
  [type |-> type, size |-> size, readable |-> readable, writable |-> writable]

DescType == [type : {"uint", "int", "float", "str", "char", "bool"}, size : 1..56,
             readable : BOOLEAN, writable : BOOLEAN]

\* NodeDescLoader::std_register. The numbers come from h9def.h of the h9can
\* library; these are the ones VirtualPyNode answers under. The other five (8 and
\* 32 bits, read only) are left out.
std_register ==
  [r \in 1..5 |->
     CASE r = 1 -> RegisterDsc("uint", 16, TRUE, FALSE)   \* node type
       [] r = 2 -> RegisterDsc("uint", 48, TRUE, FALSE)   \* node version
       [] r = 3 -> RegisterDsc("str", 48, TRUE, FALSE)    \* build metadata
       [] r = 4 -> RegisterDsc("uint", 8, TRUE, TRUE)     \* node id
       [] r = 5 -> RegisterDsc("uint", 8, TRUE, FALSE)]   \* MCU type

\* Mutant: registers of any number are taken.
load_fileAll(f) == IF f = Unreadable THEN <<>> ELSE f

\* NodeDescLoader::load_file into an empty table: a file, type -> registers, that
\* cannot be read leaves it empty; only the registers 10 to 255 are taken.
load_file(f) ==
  IF f = Unreadable THEN <<>>
  ELSE [t \in DOMAIN f |-> [r \in {q \in DOMAIN f[t] : q >= 10 /\ q <= 255} |-> f[t][r]]]

get_node_register_by_type(ts, t) == IF t \in DOMAIN ts THEN ts[t] ELSE <<>>

\* Node::load_description: the registers of a node of type t.
load_description(ts, t) ==
  LET described == get_node_register_by_type(ts, t)
  IN [r \in DOMAIN std_register \cup DOMAIN described |->
        IF r \in DOMAIN described THEN described[r] ELSE std_register[r]]

\* ntohs, ntohl.
Number(bytes) ==
  CASE Len(bytes) = 1 -> bytes[1]
    [] Len(bytes) = 2 -> bytes[1] * 256 + bytes[2]
    [] Len(bytes) = 4 -> ((bytes[1] * 256 + bytes[2]) * 256 + bytes[3]) * 256 + bytes[4]

Width(d) == IF d.size <= 8 THEN 1 ELSE IF d.size <= 16 THEN 2 ELSE 4
Length(d) == (d.size + 7) \div 8

\* v & ((1 << size) - 1). For 32 bits the shift is undefined: the mask comes
\* out empty or full.
Masked(d, v) == IF d.size < 32 THEN {Low(v, d.size)} ELSE {0, v}

UpTo(s, n) == SubSeq(s, 1, IF Len(s) < n THEN Len(s) ELSE n)
\* A char* read as a string.
CString(s) == SubSeq(s, 1, IF \E i \in DOMAIN s : s[i] = 0
                           THEN (CHOOSE i \in DOMAIN s : s[i] = 0 /\ \A j \in 1..(i - 1) : s[j] # 0) - 1
                           ELSE Len(s))

\* How a value travels in SET_REG: "integer", "float", "string", "array", or
\* "none" when set_register refuses the conversion. An integer for a float
\* register is sent as an integer.
Conversion(d, v) ==
  CASE v.json = "integer" /\ d.type # "str" /\ d.size <= 32 -> "integer"
    [] v.json = "float" /\ d.type = "float"                 -> "float"
    [] v.json = "string" /\ d.type = "str"                  -> "string"
    [] v.json = "array" /\ Len(v.value) = Length(d)         -> "array"
    [] OTHER                                                -> "none"

\* The bytes set_register hands to set_reg, one choice of them for each result
\* of the mask.
SetBytes(d, v) ==
  CASE Conversion(d, v) = "integer" -> {BigEndian(m, Width(d)) : m \in Masked(d, v.value[1])}
    [] Conversion(d, v) = "string"  -> {UpTo(v.value, d.size \div 8)}
    [] OTHER                        -> {v.value}

\* The exception set_register throws before anything is sent, or "none".
SetRefused(regs, r, v) ==
  IF r \notin DOMAIN regs THEN "REGISTER_IS_NOT_EXIST"
  ELSE IF ~regs[r].writable THEN "REGISTER_IS_NOT_WRITABLE"
  ELSE IF Conversion(regs[r], v) = "none" THEN "UNSUPPORTED_REGISTER_DATA_CONVERSION"
  ELSE "none"
GetRefused(regs, r) ==
  IF r \notin DOMAIN regs THEN "REGISTER_IS_NOT_EXIST"
  ELSE IF ~regs[r].readable THEN "REGISTER_IS_NOT_READABLE"
  ELSE "none"
BitRefused(regs, r) ==
  IF r \notin DOMAIN regs THEN "REGISTER_IS_NOT_EXIST"
  ELSE IF ~regs[r].writable THEN "REGISTER_IS_NOT_WRITABLE"
  ELSE IF regs[r].type = "str" THEN "UNSUPPORTED_REGISTER_DATA_CONVERSION"
  ELSE "none"

\* What the end of RawNode::set_reg, get_reg and bit_operation makes of the
\* answer: the bytes after the register's number, or the exception that Node
\* throws for the negative result.
Answer(f) ==
  CASE f.type = REG_VALUE /\ f.dlc > 1     -> Json("bytes", SubSeq(f.data, 2, f.dlc))
    [] f.type = COMMAND_ERROR /\ f.dlc = 1 -> Json("NodeException", <<f.data[1]>>)
    [] OTHER                               -> Error("MALFORMED_FRAME")

\* The answer as a value of kind json, if it has exactly n bytes.
Exactly(bytes, n, value) == IF Len(bytes) = n THEN value ELSE Error("FRAME_SIZE_MISMATCH")

SetResult(d, v, f) ==
  LET a == Answer(f)
  IN IF a.json # "bytes" THEN a
     ELSE CASE Conversion(d, v) = "integer" -> Exactly(a.value, Width(d), Integer(Number(UpTo(a.value, Width(d)))))
            [] Conversion(d, v) = "float"   -> Exactly(a.value, 4, Json("float", a.value))
            [] Conversion(d, v) = "string"  -> Json("string", CString(a.value))
            [] Conversion(d, v) = "array"   -> Exactly(a.value, Length(d), Json("array", a.value))

\* Mutant: ntohs is forgotten.
GetResultHostOrder(d, f) ==
  LET a == Answer(f)
  IN IF a.json = "bytes" /\ d.type # "str" /\ Width(d) = 2 /\ Len(a.value) = 2
     THEN Integer(a.value[2] * 256 + a.value[1])
     ELSE IF a.json # "bytes" THEN a
     ELSE IF d.type = "str" THEN Json("string", CString(a.value))
     ELSE IF d.size = 32 THEN Exactly(a.value, 4, Json("float", a.value))
     ELSE IF d.size > 32 THEN Exactly(a.value, Length(d), Json("array", a.value))
     ELSE Exactly(a.value, Width(d), Integer(Number(UpTo(a.value, Width(d)))))

\* get_register: whatever is not a string and has 32 bits is read as a float.
GetResult(d, f) ==
  LET a == Answer(f)
  IN IF a.json # "bytes" THEN a
     ELSE IF d.type = "str" THEN Json("string", CString(a.value))
     ELSE IF d.size = 32 THEN Exactly(a.value, 4, Json("float", a.value))
     ELSE IF d.size > 32 THEN Exactly(a.value, Length(d), Json("array", a.value))
     ELSE Exactly(a.value, Width(d), Integer(Number(UpTo(a.value, Width(d)))))

\* set_register_bit and clear_register_bit: the bytes, whatever their number.
BitResult(f) ==
  LET a == Answer(f)
  IN IF a.json = "bytes" THEN Json("array", a.value) ELSE a

\* get_reg_value_from_frame, for the devices: as get_register, but 32 bits are a
\* number and longer registers may be cut short.
RegValueFromFrame(regs, f) ==
  LET r == f.data[1]
      bytes == SubSeq(f.data, 2, f.dlc)
      d == regs[r]
  IN IF f.dlc < 2 THEN Error("MALFORMED_FRAME")
     ELSE IF r \notin DOMAIN regs THEN Error("REGISTER_IS_NOT_EXIST")
     ELSE IF d.type # "str" /\ d.size <= 32
     THEN Exactly(bytes, Width(d), Integer(Number(UpTo(bytes, Width(d)))))
     ELSE IF Len(bytes) > Length(d) THEN Error("FRAME_SIZE_MISMATCH")
     ELSE IF d.type = "str" THEN Json("string", CString(bytes)) ELSE Json("array", bytes)
=============================================================================
