---------------------------- MODULE H9Frame_proof ----------------------------
(***************************************************************************)
(* The codecs of H9Frame, for every frame: whatever form a driver gives to *)
(* a frame, and whatever the object held into which it is read, the frame  *)
(* that is read means what was sent.                                       *)
(***************************************************************************)
EXTENDS H9Frame, SequenceTheorems, TLAPS

Drivers == {"SLCAN", "SocketCAN", "h9d"} \cup Datagram

\* The widths, as numbers.
LEMMA Powers ==
  /\ 2^3 = 8 /\ 2^5 = 32 /\ 2^8 = 256 /\ 2^13 = 8192 /\ 2^16 = 65536 /\ 2^24 = 16777216
  BY SMT

\* Quotient and remainder, for each shift.
LEMMA Parts ==
  ASSUME NEW q \in Nat, NEW r \in Nat
  PROVE  /\ r < 8 => (q * 8 + r) \div 8 = q /\ (q * 8 + r) % 8 = r
         /\ r < 32 => (q * 32 + r) \div 32 = q /\ (q * 32 + r) % 32 = r
         /\ r < 256 => (q * 256 + r) \div 256 = q /\ (q * 256 + r) % 256 = r
         /\ r < 8192 => (q * 8192 + r) \div 8192 = q
         /\ r < 65536 => (q * 65536 + r) \div 65536 = q /\ (q * 65536 + r) % 65536 = r
         /\ r < 16777216 => (q * 16777216 + r) \div 16777216 = q
  BY SMT

\* The identifier of a unicast, and of a broadcast whose group has the bytes hi and lo.
UnicastOf(t, src, fl, dst, n) == (((t * 256 + src) * 8 + fl) * 256 + dst) * 32 + n
BroadcastOf(t, src, hi, lo) == (t * 256 + src) * 65536 + (hi * 256 + lo)

\* What is found in an identifier, field by field and byte by byte.
UnicastParts(id, t, src, fl, dst, n) ==
  /\ id \div 16777216 = t /\ (id \div 65536) % 256 = src /\ (id \div 8192) % 8 = fl
  /\ (id \div 32) % 256 = dst /\ id % 32 = n
  /\ (id \div 256) % 256 = fl * 32 + (dst \div 8) /\ id % 256 = (dst % 8) * 32 + n
BroadcastParts(id, t, src, hi, lo) ==
  /\ id \div 16777216 = t /\ (id \div 65536) % 256 = src /\ id % 65536 = hi * 256 + lo
  /\ (id \div 256) % 256 = hi /\ id % 256 = lo

\* The fields of an identifier do not overlap: a unicast.
LEMMA UnicastId ==
  ASSUME NEW t \in 0..31, NEW src \in 0..255, NEW fl \in 0..7, NEW dst \in 0..255, NEW n \in 0..31,
         NEW id, id = UnicastOf(t, src, fl, dst, n)
  PROVE  UnicastParts(id, t, src, fl, dst, n)
<1> USE DEF UnicastOf
<1>0. PICK head \in Nat : head = t * 256 + src
  BY SMT
<1>1. id = t * 16777216 + (src * 65536 + fl * 8192 + dst * 32 + n)
      /\ src * 65536 + fl * 8192 + dst * 32 + n < 16777216
  BY SMT
<1>2. id = head * 65536 + (fl * 8192 + dst * 32 + n) /\ fl * 8192 + dst * 32 + n < 65536
  BY <1>0, SMT
<1>3. id = (head * 8 + fl) * 8192 + (dst * 32 + n) /\ dst * 32 + n < 8192
  BY <1>0, SMT
<1>4. PICK hi \in 0..31, lo \in 0..7 : dst = hi * 8 + lo /\ hi = dst \div 8 /\ lo = dst % 8
  BY SMT
<1>5. /\ id = (head * 256 + (fl * 32 + hi)) * 256 + (lo * 32 + n)
      /\ lo * 32 + n \in 0..255 /\ fl * 32 + hi \in 0..255
  BY <1>0, <1>4, SMT
<1>6. id \div 16777216 = t
  BY <1>1, Parts, SMT
<1>7. id \div 65536 = head /\ head % 256 = src
  BY <1>0, <1>2, Parts, SMT
<1>8. id \div 8192 = head * 8 + fl /\ (head * 8 + fl) % 8 = fl
  BY <1>3, Parts, SMT
<1>9. id \div 32 = (head * 8 + fl) * 256 + dst /\ ((head * 8 + fl) * 256 + dst) % 256 = dst
      /\ id % 32 = n
  BY <1>0, Parts, SMT
<1>10. (id \div 256) % 256 = fl * 32 + hi /\ id % 256 = lo * 32 + n
  <2>0. PICK b \in 0..255, c \in 0..255 : b = fl * 32 + hi /\ c = lo * 32 + n
    BY <1>5
  <2>1. PICK p \in Nat : p = head * 256 + b
    BY SMT
  <2>2. p % 256 = b
    BY <2>1, Parts, SMT
  <2>3. id = p * 256 + c
    BY <1>5, <2>0, <2>1, SMT
  <2>4. \A x, y \in Nat : y < 256 /\ id = x * 256 + y => id \div 256 = x /\ id % 256 = y
    BY Parts, SMT
  <2>5. id \div 256 = p /\ id % 256 = c
    BY <2>3, <2>4, SMT
  <2> QED BY <2>0, <2>2, <2>5
<1> QED BY <1>4, <1>6, <1>7, <1>8, <1>9, <1>10 DEF UnicastParts

\* The same for a broadcast.
LEMMA BroadcastId ==
  ASSUME NEW t \in 0..31, NEW src \in 0..255, NEW hi \in 0..255, NEW lo \in 0..255,
         NEW id, id = BroadcastOf(t, src, hi, lo)
  PROVE  BroadcastParts(id, t, src, hi, lo)
<1> USE DEF BroadcastOf
<1>0. PICK head \in Nat : head = t * 256 + src
  BY SMT
<1>1. id = t * 16777216 + (src * 65536 + hi * 256 + lo) /\ src * 65536 + hi * 256 + lo < 16777216
  BY SMT
<1>2. id = head * 65536 + (hi * 256 + lo) /\ hi * 256 + lo < 65536
  BY <1>0, SMT
<1>3. id = (head * 256 + hi) * 256 + lo
  BY <1>2, SMT
<1>4. id \div 16777216 = t
  BY <1>1, Parts, SMT
<1>5. id \div 65536 = head /\ head % 256 = src /\ id % 65536 = hi * 256 + lo
  BY <1>0, <1>2, Parts, SMT
<1>6. (id \div 256) % 256 = hi /\ id % 256 = lo
  <2>1. PICK p \in Nat : p = head * 256 + hi
    BY SMT
  <2>2. p % 256 = hi
    BY <2>1, Parts, SMT
  <2>3. id = p * 256 + lo
    BY <1>3, <2>1
  <2>4. id \div 256 = p /\ id % 256 = lo
    BY <2>3, Parts, SMT
  <2> QED BY <2>2, <2>4
<1> QED BY <1>4, <1>5, <1>6 DEF BroadcastParts

-----------------------------------------------------------------------------
(* Fields and meaning. *)

\* g says what f says.
Same(g, f) ==
  /\ g.type = f.type /\ g.source_id = f.source_id /\ g.dlc = f.dlc
  /\ is_unicast(f) => /\ g.flags % 8 = f.flags % 8 /\ g.destination_id = f.destination_id
                      /\ g.seqnum = f.seqnum
  /\ ~is_unicast(f) => g.group = f.group
  /\ \A i \in 1..f.dlc : g.data[i] = f.data[i]

\* The types of the fields, one by one.
LEMMA Fields ==
  ASSUME NEW f \in H9Frames
  PROVE  /\ f.type \in 0..255 /\ f.source_id \in 0..255 /\ f.flags \in 0..255
         /\ f.destination_id \in 0..255 /\ f.seqnum \in 0..255 /\ f.group \in Word
         /\ f.dlc \in 0..255 /\ f.data \in [1..8 -> 0..255]
<1>1. /\ f.type \in Byte /\ f.source_id \in Byte /\ f.flags \in Byte
      /\ f.destination_id \in Byte /\ f.seqnum \in Byte /\ f.group \in Word
      /\ f.dlc \in Byte /\ f.data \in [1..8 -> Byte]
  BY DEF H9Frames, MAX_DATA_LENGTH
<1> QED BY <1>1, Zenon DEF Byte

\* 16 bits, and their bytes.
LEMMA Words ==
  ASSUME NEW g \in Word
  PROVE  /\ g \in Nat /\ g < 65536 /\ g % 65536 = g
         /\ g \div 256 \in 0..255 /\ g % 256 \in 0..255 /\ g = (g \div 256) * 256 + (g % 256)
<1>1. g \in Nat /\ g < 65536
  <2>1. g \in Nat /\ g < 2^16
    BY SMT DEF Word
  <2> QED BY <2>1, Powers, SMT
<1>2. g % 65536 = g
  BY <1>1, SMT
<1>3. g = (g \div 256) * 256 + (g % 256) /\ g % 256 \in 0..255
  BY <1>1, SMT
<1>4. g \div 256 \in 0..255
  BY <1>1, SMT
<1> QED BY <1>1, <1>2, <1>3, <1>4, SMT

LEMMA GroupBytes ==
  ASSUME NEW g \in Word
  PROVE  g \div 256 \in 0..255 /\ g % 256 \in 0..255 /\ g = (g \div 256) * 256 + (g % 256)
  BY Words, SMT

\* The fields of a frame that fits.
LEMMA Fitting ==
  ASSUME NEW f \in FitFrames
  PROVE  /\ f \in H9Frames /\ f.type \in 0..31 /\ f.dlc \in 0..8
         /\ is_unicast(f) => f.seqnum \in 0..31
<1>1. f \in H9Frames /\ f.type < 32 /\ f.dlc <= 8 /\ (is_unicast(f) => f.seqnum < 32)
  BY DEF FitFrames, MAX_DATA_LENGTH
<1>2. f.type \in 0..255 /\ f.dlc \in 0..255 /\ f.seqnum \in 0..255
  BY <1>1, Fields, Zenon
<1> QED BY <1>1, <1>2, SMT

\* The bytes a frame carries.
LEMMA SameBytes ==
  ASSUME NEW a \in [1..8 -> 0..255], NEW b \in [1..8 -> 0..255], NEW n \in 0..8,
         \A i \in 1..n : a[i] = b[i]
  PROVE  SubSeq(a, 1, n) = SubSeq(b, 1, n)
<1>1. SubSeq(a, 1, n) = [i \in 1..n |-> a[i]] /\ SubSeq(b, 1, n) = [i \in 1..n |-> b[i]]
  BY SMT
<1> QED BY <1>1

LEMMA SameMeaning ==
  ASSUME NEW f \in FitFrames, NEW g \in H9Frames, Same(g, f)
  PROVE  g \in FitFrames /\ Meaning(g) = Meaning(f)
<1>1. g \in FitFrames
  <2>1. /\ f.type < 32 /\ f.dlc <= MAX_DATA_LENGTH /\ (is_unicast(f) => f.seqnum < 32)
    BY DEF FitFrames
  <2>2. g.type < 32 /\ g.dlc <= MAX_DATA_LENGTH /\ (is_unicast(g) => g.seqnum < 32)
    BY <2>1, Zenon DEF Same, is_unicast
  <2> QED BY <2>2, Zenon DEF FitFrames
<1>2. SubSeq(g.data, 1, g.dlc) = SubSeq(f.data, 1, f.dlc)
  <2>1. f \in H9Frames /\ f.dlc \in 0..8
    BY Fitting, Zenon
  <2>2. f.data \in [1..8 -> 0..255] /\ g.data \in [1..8 -> 0..255]
    BY <2>1, Fields, Zenon
  <2>3. g.dlc = f.dlc /\ \A i \in 1..f.dlc : g.data[i] = f.data[i]
    BY Zenon DEF Same
  <2> QED BY <2>1, <2>2, <2>3, SameBytes, Zenon
<1>3. is_unicast(g) <=> is_unicast(f)
  BY DEF is_unicast, Same
<1>4. Low(g.flags, FLAGS_BITS_LENGTH) = g.flags % 8 /\ Low(f.flags, FLAGS_BITS_LENGTH) = f.flags % 8
  BY Powers, SMT DEF FLAGS_BITS_LENGTH, Low
<1>5. CASE is_unicast(f)
  <2> DEFINE M(h) == [type |-> h.type, source_id |-> h.source_id, seqnum |-> h.seqnum,
                      destination_id |-> h.destination_id, flags |-> h.flags % 8, dlc |-> h.dlc,
                      data |-> SubSeq(h.data, 1, h.dlc)]
  <2>1. Meaning(g) = M(g) /\ Meaning(f) = M(f)
    BY <1>3, <1>4, <1>5 DEF Meaning, to_json
  <2>2. /\ g.type = f.type /\ g.source_id = f.source_id /\ g.dlc = f.dlc
        /\ g.flags % 8 = f.flags % 8 /\ g.destination_id = f.destination_id /\ g.seqnum = f.seqnum
    BY <1>5 DEF Same
  <2> QED BY <1>1, <1>2, <2>1, <2>2, Zenon
<1>6. CASE ~is_unicast(f)
  <2>1. /\ g.type = f.type /\ g.source_id = f.source_id /\ g.dlc = f.dlc /\ g.group = f.group
    BY <1>6 DEF Same
  <2> QED BY <1>1, <1>2, <1>3, <1>6, <2>1, Zenon DEF Meaning, to_json
<1> QED BY <1>1, <1>5, <1>6

-----------------------------------------------------------------------------
(* The identifier. *)

\* can_id() puts the fields side by side.
LEMMA CanId ==
  ASSUME NEW f \in FitFrames
  PROVE  /\ is_unicast(f) => can_id(f) =
              (((f.type * 256 + f.source_id) * 8 + (f.flags % 8)) * 256 + f.destination_id) * 32
                + f.seqnum
         /\ ~is_unicast(f) => can_id(f) = (f.type * 256 + f.source_id) * 65536 + f.group
<1>1. /\ Low(f.type, TYPE_BIT_LENGTH) = f.type /\ Low(f.source_id, ID_BIT_LENGTH) = f.source_id
      /\ Low(f.flags, FLAGS_BITS_LENGTH) = f.flags % 8
      /\ Low(f.destination_id, ID_BIT_LENGTH) = f.destination_id
      /\ is_unicast(f) => Low(f.seqnum, SEQNUM_BIT_LENGTH) = f.seqnum
      /\ Low(f.group, BROADCAST_GROUP_BIT_LENGTH) = f.group
  <2>1. /\ f.type \in 0..31 /\ f.source_id \in 0..255 /\ f.flags \in Int /\ f.destination_id \in 0..255
        /\ f.seqnum \in Int /\ f.group \in Int /\ f.group % 65536 = f.group
        /\ is_unicast(f) => f.seqnum \in 0..31
    <3>1. /\ f.type \in 0..31 /\ f.source_id \in 0..255 /\ f.flags \in 0..255
          /\ f.destination_id \in 0..255 /\ f.seqnum \in 0..255 /\ f.group \in Word
          /\ is_unicast(f) => f.seqnum \in 0..31
      <4>1. f \in H9Frames
        BY Fitting
      <4>2. f.type \in 0..31 /\ (is_unicast(f) => f.seqnum \in 0..31)
        BY Fitting, Zenon
      <4>3. /\ f.source_id \in 0..255 /\ f.flags \in 0..255
            /\ f.destination_id \in 0..255 /\ f.seqnum \in 0..255 /\ f.group \in Word
        BY <4>1, Fields, ZenonT(60)
      <4> QED BY <4>2, <4>3, Zenon
    <3> QED BY <3>1, Words, SMT
  <2>2. /\ Low(f.type, 5) = f.type % 32 /\ Low(f.source_id, 8) = f.source_id % 256
        /\ Low(f.flags, 3) = f.flags % 8 /\ Low(f.destination_id, 8) = f.destination_id % 256
        /\ Low(f.seqnum, 5) = f.seqnum % 32 /\ Low(f.group, 16) = f.group % 65536
    BY Powers, SMT DEF Low
  <2> QED BY <2>1, <2>2, SMT DEF TYPE_BIT_LENGTH, ID_BIT_LENGTH, FLAGS_BITS_LENGTH,
     SEQNUM_BIT_LENGTH, BROADCAST_GROUP_BIT_LENGTH
<1>2. /\ 2^ID_BIT_LENGTH = 256 /\ 2^FLAGS_BITS_LENGTH = 8 /\ 2^SEQNUM_BIT_LENGTH = 32
      /\ 2^BROADCAST_GROUP_BIT_LENGTH = 65536
  BY Powers, SMT DEF ID_BIT_LENGTH, FLAGS_BITS_LENGTH, SEQNUM_BIT_LENGTH, BROADCAST_GROUP_BIT_LENGTH
<1> QED BY <1>1, <1>2, SMT DEF can_id

\* What is found in the identifier of a frame, by can_id(id) and in the bytes of serialize().
LEMMA IdFields ==
  ASSUME NEW f \in FitFrames, NEW id, id = can_id(f)
  PROVE  /\ Low(Shr(id, ID_BIT_LENGTH + FLAGS_BITS_LENGTH + ID_BIT_LENGTH + SEQNUM_BIT_LENGTH),
                TYPE_BIT_LENGTH) = f.type
         /\ Low(Shr(id, FLAGS_BITS_LENGTH + ID_BIT_LENGTH + SEQNUM_BIT_LENGTH), ID_BIT_LENGTH)
              = f.source_id
         /\ Low(Shr(id, 24), 8) = f.type /\ Low(Shr(id, 16), 8) = f.source_id
         /\ is_unicast(f) =>
              /\ Low(Shr(id, ID_BIT_LENGTH + SEQNUM_BIT_LENGTH), FLAGS_BITS_LENGTH) = f.flags % 8
              /\ Low(Shr(id, SEQNUM_BIT_LENGTH), ID_BIT_LENGTH) = f.destination_id
              /\ Low(id, SEQNUM_BIT_LENGTH) = f.seqnum
              /\ Low(Shr(id, 8), 8) = (f.flags % 8) * 32 + (f.destination_id \div 8)
              /\ Low(id, 8) = (f.destination_id % 8) * 32 + f.seqnum
         /\ ~is_unicast(f) =>
              /\ Low(id, BROADCAST_GROUP_BIT_LENGTH) = f.group
              /\ Low(Shr(id, 8), 8) = f.group \div 256 /\ Low(id, 8) = f.group % 256
<1>1. /\ ID_BIT_LENGTH + FLAGS_BITS_LENGTH + ID_BIT_LENGTH + SEQNUM_BIT_LENGTH = 24
      /\ FLAGS_BITS_LENGTH + ID_BIT_LENGTH + SEQNUM_BIT_LENGTH = 16
      /\ ID_BIT_LENGTH + SEQNUM_BIT_LENGTH = 13
      /\ SEQNUM_BIT_LENGTH = 5 /\ TYPE_BIT_LENGTH = 5 /\ ID_BIT_LENGTH = 8
      /\ FLAGS_BITS_LENGTH = 3 /\ BROADCAST_GROUP_BIT_LENGTH = 16
  BY SMT DEF ID_BIT_LENGTH, FLAGS_BITS_LENGTH, SEQNUM_BIT_LENGTH, TYPE_BIT_LENGTH,
     BROADCAST_GROUP_BIT_LENGTH
<1>2. /\ Low(Shr(id, 24), 5) = (id \div 16777216) % 32 /\ Low(Shr(id, 24), 8) = (id \div 16777216) % 256
      /\ Low(Shr(id, 16), 8) = (id \div 65536) % 256 /\ Low(Shr(id, 13), 3) = (id \div 8192) % 8
      /\ Low(Shr(id, 5), 8) = (id \div 32) % 256 /\ Low(id, 5) = id % 32
      /\ Low(id, 16) = id % 65536 /\ Low(Shr(id, 8), 8) = (id \div 256) % 256 /\ Low(id, 8) = id % 256
  BY Powers, SMT DEF Low, Shr
<1>3. /\ f.type \in 0..31 /\ f.source_id \in 0..255 /\ f.destination_id \in 0..255
      /\ f.flags % 8 \in 0..7 /\ (is_unicast(f) => f.seqnum \in 0..31) /\ f.group \in Word
  <2>1. f \in H9Frames
    BY Fitting
  <2>2. f.flags \in 0..255
    BY <2>1, Fields
  <2>3. f.flags % 8 \in 0..7
    BY <2>2, SMT
  <2> QED BY <2>1, <2>3, Fitting, Fields
<1>4. f.type % 32 = f.type /\ f.type % 256 = f.type
  BY <1>3, SMT
<1>5. CASE is_unicast(f)
  <2>1. id = (((f.type * 256 + f.source_id) * 8 + (f.flags % 8)) * 256 + f.destination_id) * 32 + f.seqnum
    BY <1>5, CanId
  <2>2. /\ id \div 16777216 = f.type /\ (id \div 65536) % 256 = f.source_id
        /\ (id \div 8192) % 8 = f.flags % 8
        /\ (id \div 32) % 256 = f.destination_id /\ id % 32 = f.seqnum
        /\ (id \div 256) % 256 = (f.flags % 8) * 32 + (f.destination_id \div 8)
        /\ id % 256 = (f.destination_id % 8) * 32 + f.seqnum
    <3>1. id = UnicastOf(f.type, f.source_id, f.flags % 8, f.destination_id, f.seqnum)
      BY <2>1, SMT DEF UnicastOf
    <3>2. UnicastParts(id, f.type, f.source_id, f.flags % 8, f.destination_id, f.seqnum)
      BY <1>3, <1>5, <3>1, UnicastId, Zenon
    <3> QED BY <3>2, SMT DEF UnicastParts
  <2> QED BY <1>1, <1>2, <1>4, <1>5, <2>2, SMT
<1>6. CASE ~is_unicast(f)
  <2>1. id = (f.type * 256 + f.source_id) * 65536 + f.group
    BY <1>6, CanId
  <2>2. f.group \div 256 \in 0..255 /\ f.group % 256 \in 0..255
        /\ f.group = (f.group \div 256) * 256 + (f.group % 256)
    BY <1>3, GroupBytes, Zenon
  <2>3. PICK hi, lo : hi = f.group \div 256 /\ lo = f.group % 256
    OBVIOUS
  <2>4. BroadcastParts(id, f.type, f.source_id, hi, lo)
    <3>1. id = BroadcastOf(f.type, f.source_id, hi, lo)
      BY <2>1, <2>2, <2>3, SMT DEF BroadcastOf
    <3>2. hi \in 0..255 /\ lo \in 0..255
      BY <2>2, <2>3
    <3>3. f.type \in 0..31 /\ f.source_id \in 0..255
      BY <1>3
    <3>4. BroadcastParts(BroadcastOf(f.type, f.source_id, hi, lo), f.type, f.source_id, hi, lo)
      BY <3>2, <3>3, BroadcastId, Zenon
    <3> QED BY <3>1, <3>4, Zenon
  <2>5. /\ id \div 16777216 = f.type /\ (id \div 65536) % 256 = f.source_id /\ id % 65536 = f.group
        /\ (id \div 256) % 256 = f.group \div 256 /\ id % 256 = f.group % 256
    BY <2>2, <2>3, <2>4, SMT DEF BroadcastParts
  <2> QED BY <1>1, <1>2, <1>4, <1>6, <2>5, SMT
<1> QED BY <1>5, <1>6

\* Reading the identifier of a frame into any object gives the fields of the frame.
LEMMA ReadId ==
  ASSUME NEW f \in FitFrames, NEW old \in H9Frames
  PROVE  FromCanId(old, can_id(f)) =
           IF is_unicast(f)
           THEN [old EXCEPT !.type = f.type, !.source_id = f.source_id, !.flags = f.flags % 8,
                            !.destination_id = f.destination_id, !.seqnum = f.seqnum]
           ELSE [old EXCEPT !.type = f.type, !.source_id = f.source_id, !.group = f.group]
<1>1. PICK id : id = can_id(f)
  OBVIOUS
<1>2. PICK t : t = Low(Shr(id, ID_BIT_LENGTH + FLAGS_BITS_LENGTH + ID_BIT_LENGTH + SEQNUM_BIT_LENGTH),
                       TYPE_BIT_LENGTH)
  OBVIOUS
<1>3. PICK s : s = Low(Shr(id, FLAGS_BITS_LENGTH + ID_BIT_LENGTH + SEQNUM_BIT_LENGTH), ID_BIT_LENGTH)
  OBVIOUS
<1>4. PICK fl : fl = Low(Shr(id, ID_BIT_LENGTH + SEQNUM_BIT_LENGTH), FLAGS_BITS_LENGTH)
  OBVIOUS
<1>5. PICK d : d = Low(Shr(id, SEQNUM_BIT_LENGTH), ID_BIT_LENGTH)
  OBVIOUS
<1>6. PICK n : n = Low(id, SEQNUM_BIT_LENGTH)
  OBVIOUS
<1>7. PICK g : g = Low(id, BROADCAST_GROUP_BIT_LENGTH)
  OBVIOUS
<1>8. FromCanId(old, id) =
           IF t < DISCOVER
           THEN [old EXCEPT !.type = t, !.source_id = s, !.flags = fl, !.destination_id = d, !.seqnum = n]
           ELSE [old EXCEPT !.type = t, !.source_id = s, !.group = g]
  <2>1. PICK head : head = [old EXCEPT !.type = t, !.source_id = s]
    OBVIOUS
  <2>2. "type" \in DOMAIN old /\ "source_id" \in DOMAIN old
    BY DEF H9Frames
  <2>3. head.type = t
    BY <2>1, <2>2
  <2>4. FromCanId(old, id) = IF is_unicast(head)
                             THEN [head EXCEPT !.flags = fl, !.destination_id = d, !.seqnum = n]
                             ELSE [head EXCEPT !.group = g]
    BY <1>2, <1>3, <1>4, <1>5, <1>6, <1>7, <2>1, Zenon DEF FromCanId
  <2> QED BY <2>1, <2>3, <2>4, Zenon DEF is_unicast
<1>9. /\ t = f.type /\ s = f.source_id
      /\ is_unicast(f) => fl = f.flags % 8 /\ d = f.destination_id /\ n = f.seqnum
      /\ ~is_unicast(f) => g = f.group
  BY <1>1, <1>2, <1>3, <1>4, <1>5, <1>6, <1>7, IdFields, Zenon
<1> QED BY <1>1, <1>8, <1>9, Zenon DEF is_unicast

-----------------------------------------------------------------------------
(* The forms. *)

\* Eight bytes, the frame's own in front.
Carries(data, f) == data \in [1..8 -> 0..255] /\ \A i \in 1..f.dlc : data[i] = f.data[i]

\* deserialize(can_id, dlc, data): SLCAN and SocketCAN.
LEMMA CanCarries ==
  ASSUME NEW f \in FitFrames, NEW old \in H9Frames, NEW data, Carries(data, f)
  PROVE  LET g == FromCan(old, can_id(f), f.dlc, data) IN g \in H9Frames /\ Same(g, f)
<1>1. PICK g : g = FromCan(old, can_id(f), f.dlc, data)
  OBVIOUS
<1>2. /\ f \in H9Frames /\ f.type \in Byte /\ f.source_id \in Byte /\ f.flags % 8 \in Byte
      /\ f.destination_id \in Byte /\ f.seqnum \in Byte /\ f.group \in Word /\ f.dlc \in Byte
      /\ data \in [1..MAX_DATA_LENGTH -> Byte]
  <2>1. f \in H9Frames
    BY Fitting
  <2>2. f.flags \in 0..255
    BY <2>1, Fields
  <2>3. f.flags % 8 \in 0..255
    BY <2>2, SMT
  <2>4. data \in [1..MAX_DATA_LENGTH -> Byte]
    BY DEF Byte, MAX_DATA_LENGTH, Carries
  <2>5. /\ f.type \in Byte /\ f.source_id \in Byte /\ f.destination_id \in Byte
        /\ f.seqnum \in Byte /\ f.group \in Word /\ f.dlc \in Byte
    BY <2>1, Fields, ZenonT(40) DEF Byte
  <2> QED BY <2>1, <2>3, <2>4, <2>5, Zenon DEF Byte
<1>3. CASE is_unicast(f)
  <2>1. g = [old EXCEPT !.type = f.type, !.source_id = f.source_id, !.flags = f.flags % 8,
                        !.destination_id = f.destination_id, !.seqnum = f.seqnum,
                        !.dlc = f.dlc, !.data = data]
    BY <1>1, <1>3, ReadId, Zenon DEF FromCan
  <2>2. /\ g \in H9Frames
        /\ g.type = f.type /\ g.source_id = f.source_id /\ g.flags = f.flags % 8
        /\ g.destination_id = f.destination_id /\ g.seqnum = f.seqnum /\ g.dlc = f.dlc /\ g.data = data
    BY <1>2, <2>1 DEF H9Frames
  <2>3. (f.flags % 8) % 8 = f.flags % 8
    <3>1. f.flags \in 0..255
      BY <1>2, Fields
    <3> QED BY <3>1, SMT
  <2>4. Same(g, f)
    BY <1>3, <2>2, <2>3, Zenon DEF Same, Carries
  <2> QED BY <1>1, <2>2, <2>4
<1>4. CASE ~is_unicast(f)
  <2>1. g = [old EXCEPT !.type = f.type, !.source_id = f.source_id, !.group = f.group,
                        !.dlc = f.dlc, !.data = data]
    BY <1>1, <1>4, ReadId, Zenon DEF FromCan
  <2>2. /\ g \in H9Frames
        /\ g.type = f.type /\ g.source_id = f.source_id /\ g.group = f.group
        /\ g.dlc = f.dlc /\ g.data = data
    BY <1>2, <2>1 DEF H9Frames
  <2>3. Same(g, f)
    BY <1>4, <2>2, Zenon DEF Same, Carries
  <2> QED BY <1>1, <2>2, <2>3
<1> QED BY <1>3, <1>4

\* A row of bytes is a sequence.
LEMMA ByteSeq ==
  ASSUME NEW n \in 0..8, NEW b \in [1..n -> 0..255]
  PROVE  b \in Seq(0..255) /\ Len(b) = n
<1>1. n \in Nat
  BY SMT
<1>2. b \in Seq(0..255)
  <2>1. b \in UNION {[1..m -> 0..255] : m \in Nat}
    BY <1>1, Zenon
  <2> QED BY <2>1, SeqDef
<1>3. Len(b) \in Nat /\ DOMAIN b = 1..Len(b) /\ DOMAIN b = 1..n
  BY <1>2, LenProperties
<1> QED BY <1>1, <1>2, <1>3, SMT

\* The bytes of a frame, and the first dlc of them.
LEMMA Bytes ==
  ASSUME NEW f \in FitFrames
  PROVE  /\ f.data \in [1..8 -> 0..255] /\ f.data \in Seq(0..255) /\ Len(f.data) = 8
         /\ SubSeq(f.data, 1, f.dlc) \in Seq(0..255) /\ Len(SubSeq(f.data, 1, f.dlc)) = f.dlc
         /\ \A i \in 1..f.dlc : SubSeq(f.data, 1, f.dlc)[i] \in 0..255
                                /\ SubSeq(f.data, 1, f.dlc)[i] = f.data[i]
<1>1. f.data \in [1..8 -> 0..255] /\ f.dlc \in 0..8
  BY Fitting, Fields
<1>2. PICK a, n, b : a = f.data /\ n = f.dlc /\ b = SubSeq(f.data, 1, f.dlc)
  OBVIOUS
<1>3. a \in [1..8 -> 0..255] /\ n \in 0..8
  BY <1>1, <1>2
<1>4. a \in Seq(0..255) /\ Len(a) = 8
  BY <1>3, ByteSeq
<1>5. b = [i \in 1..n |-> a[i]]
  BY <1>2, <1>3, <1>4, SMT
<1>6. \A i \in 1..n : a[i] \in 0..255
  BY <1>3, SMT
<1>7. b \in [1..n -> 0..255] /\ \A i \in 1..n : b[i] = a[i]
  BY <1>5, <1>6
<1>8. b \in Seq(0..255) /\ Len(b) = n
  BY <1>3, <1>7, ByteSeq
<1>9. \A i \in 1..n : b[i] \in 0..255
  BY <1>7
<1> QED BY <1>2, <1>3, <1>4, <1>7, <1>8, <1>9, Zenon

\* SLCAN: what is past dlc is not written, and is not the frame's.
LEMMA SlcanCarries ==
  ASSUME NEW f \in FitFrames, NEW old \in H9Frames
  PROVE  LET g == parse_slcan_msg(old, build_slcan_msg(f)) IN g \in H9Frames /\ Same(g, f)
<1>1. PICK b : b = SubSeq(f.data, 1, f.dlc)
  OBVIOUS
<1>2. PICK data : data = [i \in 1..MAX_DATA_LENGTH |-> IF i <= f.dlc THEN b[i] ELSE old.data[i]]
  OBVIOUS
<1>3. parse_slcan_msg(old, build_slcan_msg(f)) = FromCan(old, can_id(f), f.dlc, data)
  BY <1>1, <1>2 DEF parse_slcan_msg, build_slcan_msg
<1>4. Carries(data, f)
  <2>1. old.data \in [1..8 -> 0..255] /\ f.dlc \in 0..8
    BY Fitting, Fields
  <2>2. b \in Seq(0..255) /\ Len(b) = f.dlc /\ \A i \in 1..f.dlc : b[i] \in 0..255 /\ b[i] = f.data[i]
    BY <1>1, Bytes
  <2>3. ASSUME NEW i \in 1..8, i <= f.dlc
        PROVE  b[i] \in 0..255
    <3>1. i \in 1..f.dlc
      BY <2>1, <2>3, SMT
    <3> QED BY <2>2, <3>1, Zenon
  <2>4. ASSUME NEW i \in 1..8, ~(i <= f.dlc)
        PROVE  old.data[i] \in 0..255
    BY <2>1
  <2>5. data \in [1..8 -> 0..255]
    BY <1>2, <2>3, <2>4 DEF MAX_DATA_LENGTH
  <2>6. ASSUME NEW i \in 1..f.dlc
        PROVE  data[i] = f.data[i]
    <3>1. i \in 1..8 /\ i <= f.dlc
      BY <2>1, SMT
    <3> QED BY <1>2, <2>2, <3>1, Zenon DEF MAX_DATA_LENGTH
  <2> QED BY <2>5, <2>6 DEF Carries
<1> QED BY <1>3, <1>4, CanCarries

\* SocketCAN: the kernel's frame holds all eight bytes.
LEMMA SocketCarries ==
  ASSUME NEW f \in FitFrames, NEW old \in H9Frames
  PROVE  LET g == socketcan_recv(old, socketcan_send(f)) IN g \in H9Frames /\ Same(g, f)
<1>1. socketcan_recv(old, socketcan_send(f)) = FromCan(old, can_id(f), f.dlc, f.data)
  BY DEF socketcan_recv, socketcan_send
<1>2. Carries(f.data, f)
  BY Bytes DEF Carries
<1> QED BY <1>1, <1>2, CanCarries

\* The third and fourth byte of a unicast: flags and destination, destination and number.
Third(fl, dst) == (fl % 8) * 32 + (dst \div 8)
Fourth(dst, n) == (dst % 8) * 32 + n
Taken(b3, b4, fl, dst, n) ==
  /\ b3 \in 0..255 /\ b4 \in 0..255
  /\ (b3 \div 32) % 8 = fl % 8 /\ ((b3 * 8) % 256) + (b4 \div 32) = dst /\ b4 % 32 = n

\* They hold the flags, the destination and the number.
LEMMA UnicastBytes ==
  ASSUME NEW fl \in 0..255, NEW dst \in 0..255, NEW n \in 0..31,
         NEW b3, b3 = Third(fl, dst), NEW b4, b4 = Fourth(dst, n)
  PROVE  Taken(b3, b4, fl, dst, n)
<1>1. PICK w \in 0..7, hi \in 0..31, lo \in 0..7 :
        w = fl % 8 /\ dst = hi * 8 + lo /\ hi = dst \div 8 /\ lo = dst % 8
  BY SMT
<1>2. b3 = w * 32 + hi /\ b4 = lo * 32 + n
  BY <1>1 DEF Third, Fourth
<1>3. b3 \div 32 = w /\ w % 8 = w /\ b4 \div 32 = lo /\ b4 % 32 = n
  BY <1>2, SMT
<1>4. b3 * 8 = w * 256 + hi * 8 /\ hi * 8 \in 0..255
  BY <1>2, SMT
<1>5. (b3 * 8) % 256 = hi * 8
  BY <1>4, SMT
<1>6. b3 \in 0..255 /\ b4 \in 0..255
  BY <1>2, SMT
<1>7. (b3 \div 32) % 8 = fl % 8 /\ ((b3 * 8) % 256) + (b4 \div 32) = dst
  BY <1>1, <1>3, <1>5
<1> QED BY <1>3, <1>6, <1>7 DEF Taken

\* loop, udp, pipe, virtual: the fields are taken out of the bytes, not the identifier.
LEMMA DatagramCarries ==
  ASSUME NEW f \in FitFrames, NEW old \in H9Frames
  PROVE  LET g == deserialize(old, serialize(f)) IN g \in H9Frames /\ Same(g, f)
<1>1. PICK id : id = can_id(f)
  OBVIOUS
<1>2. PICK b1, b2, b3, b4 : /\ b1 = Low(Shr(id, 24), 8) /\ b2 = Low(Shr(id, 16), 8)
                            /\ b3 = Low(Shr(id, 8), 8) /\ b4 = Low(id, 8)
  OBVIOUS
<1>3. PICK s : s = <<b1, b2, b3, b4, f.dlc>> \o f.data
  OBVIOUS
<1>4. serialize(f) = s
  BY <1>1, <1>2, <1>3, Zenon DEF serialize
<1>5. /\ f \in H9Frames /\ f.type \in 0..31 /\ f.source_id \in 0..255 /\ f.flags \in 0..255
      /\ f.destination_id \in 0..255 /\ f.seqnum \in 0..255 /\ f.group \in Word /\ f.dlc \in 0..8
      /\ (is_unicast(f) => f.seqnum \in 0..31)
  BY Fitting, Fields
<1>6. /\ b1 = f.type /\ b2 = f.source_id
      /\ is_unicast(f) => /\ b3 = (f.flags % 8) * 32 + (f.destination_id \div 8)
                          /\ b4 = (f.destination_id % 8) * 32 + f.seqnum
      /\ ~is_unicast(f) => b3 = f.group \div 256 /\ b4 = f.group % 256
  <2>1. /\ Low(Shr(id, 24), 8) = f.type /\ Low(Shr(id, 16), 8) = f.source_id
        /\ is_unicast(f) =>
             /\ Low(Shr(id, 8), 8) = (f.flags % 8) * 32 + (f.destination_id \div 8)
             /\ Low(id, 8) = (f.destination_id % 8) * 32 + f.seqnum
        /\ ~is_unicast(f) => Low(Shr(id, 8), 8) = f.group \div 256 /\ Low(id, 8) = f.group % 256
    BY <1>1, IdFields
  <2> QED BY <1>2, <2>1, Zenon
<1>7. /\ b3 \in 0..255 /\ b4 \in 0..255
      /\ is_unicast(f) => Taken(b3, b4, f.flags, f.destination_id, f.seqnum)
  <2>1. CASE is_unicast(f)
    <3>1. b3 = Third(f.flags, f.destination_id) /\ b4 = Fourth(f.destination_id, f.seqnum)
      BY <1>6, <2>1 DEF Third, Fourth
    <3>2. Taken(b3, b4, f.flags, f.destination_id, f.seqnum)
      BY <1>5, <2>1, <3>1, UnicastBytes, Zenon
    <3> QED BY <3>2 DEF Taken
  <2>2. CASE ~is_unicast(f)
    <3>1. f.group \div 256 \in 0..255 /\ f.group % 256 \in 0..255
      BY <1>5, GroupBytes
    <3> QED BY <1>6, <2>2, <3>1
  <2> QED BY <2>1, <2>2
<1>8. /\ s[1] = b1 /\ s[2] = b2 /\ s[3] = b3 /\ s[4] = b4 /\ s[5] = f.dlc
      /\ \A i \in 1..8 : s[5 + i] = f.data[i]
  <2>1. f.data \in Seq(0..255) /\ Len(f.data) = 8
    BY Bytes
  <2>2. b1 \in 0..255 /\ b2 \in 0..255 /\ f.dlc \in 0..255
    BY <1>5, <1>6, SMT
  <2>3. PICK a : a = <<b1, b2, b3, b4, f.dlc>>
    OBVIOUS
  <2>4. /\ a \in Seq(0..255) /\ Len(a) = 5
        /\ a[1] = b1 /\ a[2] = b2 /\ a[3] = b3 /\ a[4] = b4 /\ a[5] = f.dlc
    <3>1. b3 \in 0..255 /\ b4 \in 0..255
      BY <1>7
    <3> QED BY <2>2, <2>3, <3>1
  <2>5. /\ \A i \in 1..5 : s[i] = a[i]
        /\ \A i \in 1..8 : s[5 + i] = f.data[i]
    BY <1>3, <2>1, <2>3, <2>4
  <2> QED BY <2>4, <2>5, SMT
<1>9. PICK data : data = [i \in 1..MAX_DATA_LENGTH |-> s[5 + i]]
  OBVIOUS
<1>10. data = f.data /\ f.data \in [1..MAX_DATA_LENGTH -> Byte]
  <2>1. f.data \in [1..8 -> 0..255]
    BY Bytes
  <2>2. data = [i \in 1..8 |-> f.data[i]]
    BY <1>8, <1>9, Zenon DEF MAX_DATA_LENGTH
  <2> QED BY <2>1, <2>2, Zenon DEF MAX_DATA_LENGTH, Byte
<1>11. PICK dlc : dlc = IF s[5] < 8 THEN s[5] ELSE 8
  OBVIOUS
<1>12. dlc = f.dlc /\ f.dlc \in Byte
  BY <1>5, <1>8, <1>11, SMT DEF Byte
<1>13. PICK t, src : t = Low(s[1], TYPE_BIT_LENGTH) /\ src = Low(s[2], ID_BIT_LENGTH)
  OBVIOUS
<1>14. t = f.type /\ src = f.source_id /\ f.type \in Byte /\ f.source_id \in Byte
  <2>1. b1 % 32 = b1 /\ b2 % 256 = b2
    BY <1>5, <1>6, SMT
  <2>2. t = b1 /\ src = b2
    BY <1>8, <1>13, <2>1, Powers, SMT DEF Low, TYPE_BIT_LENGTH, ID_BIT_LENGTH
  <2> QED BY <1>5, <1>6, <2>2, SMT DEF Byte
<1>15. PICK head : head = [old EXCEPT !.type = t, !.source_id = src]
  OBVIOUS
<1>16. is_unicast(head) <=> is_unicast(f)
  <2>1. head.type = t
    BY <1>15 DEF H9Frames
  <2> QED BY <1>14, <2>1, Zenon DEF is_unicast
<1>17. PICK g : g = deserialize(old, serialize(f))
  OBVIOUS
<1>18. CASE is_unicast(f)
  <2>1. PICK fl, dst, n : /\ fl = Low(Shr(s[3], 8 - FLAGS_BITS_LENGTH), FLAGS_BITS_LENGTH)
                          /\ dst = Low(s[3] * 2^FLAGS_BITS_LENGTH, 8) + Shr(s[4], SEQNUM_BIT_LENGTH)
                          /\ n = Low(s[4], SEQNUM_BIT_LENGTH)
    OBVIOUS
  <2>2. g = [head EXCEPT !.flags = fl, !.destination_id = dst, !.seqnum = n, !.dlc = dlc, !.data = data]
    BY <1>4, <1>9, <1>11, <1>13, <1>15, <1>16, <1>17, <1>18, <2>1, Zenon DEF deserialize
  <2>3. fl = (b3 \div 32) % 8 /\ dst = ((b3 * 8) % 256) + (b4 \div 32) /\ n = b4 % 32
    BY <1>8, <2>1, Powers, SMT DEF Low, Shr, FLAGS_BITS_LENGTH, SEQNUM_BIT_LENGTH
  <2>4. fl = f.flags % 8 /\ dst = f.destination_id /\ n = f.seqnum
    BY <1>7, <1>18, <2>3, Zenon DEF Taken
  <2>5. f.flags % 8 \in Byte /\ f.destination_id \in Byte /\ f.seqnum \in Byte
        /\ (f.flags % 8) % 8 = f.flags % 8
    BY <1>5, SMT DEF Byte
  <2>6. /\ g \in H9Frames
        /\ g.type = f.type /\ g.source_id = f.source_id /\ g.flags = f.flags % 8
        /\ g.destination_id = f.destination_id /\ g.seqnum = f.seqnum /\ g.dlc = f.dlc
        /\ g.data = f.data
    <3>1. head \in H9Frames /\ head.type = f.type /\ head.source_id = f.source_id
      BY <1>14, <1>15 DEF H9Frames
    <3>2. g = [head EXCEPT !.flags = f.flags % 8, !.destination_id = f.destination_id,
                           !.seqnum = f.seqnum, !.dlc = f.dlc, !.data = f.data]
      BY <1>10, <1>12, <2>2, <2>4, Zenon
    <3>3. PICK fl8 \in Byte : fl8 = f.flags % 8
      BY <2>5
    <3> QED BY <1>10, <1>12, <2>5, <3>1, <3>2, <3>3 DEF H9Frames
  <2>7. Same(g, f)
    BY <1>18, <2>5, <2>6, Zenon DEF Same
  <2> QED BY <1>17, <2>6, <2>7
<1>19. CASE ~is_unicast(f)
  <2>1. PICK gr : gr = s[3] * 256 + s[4]
    OBVIOUS
  <2>2. g = [head EXCEPT !.group = gr, !.dlc = dlc, !.data = data]
    BY <1>4, <1>9, <1>11, <1>13, <1>15, <1>16, <1>17, <1>19, <2>1, Zenon DEF deserialize
  <2>3. gr = f.group /\ f.group \in Word
    BY <1>5, <1>6, <1>8, <1>19, <2>1, GroupBytes
  <2>4. /\ g \in H9Frames
        /\ g.type = f.type /\ g.source_id = f.source_id /\ g.group = f.group /\ g.dlc = f.dlc
        /\ g.data = f.data
    BY <1>10, <1>12, <1>14, <1>15, <2>2, <2>3 DEF H9Frames
  <2>5. Same(g, f)
    BY <1>19, <2>4, Zenon DEF Same
  <2> QED BY <1>17, <2>4, <2>5
<1> QED BY <1>18, <1>19

\* data(vector) with the frame's own bytes: dlc and the bytes are the frame's.
LEMMA DataCarries ==
  ASSUME NEW f \in FitFrames, NEW h \in H9Frames
  PROVE  \E data : /\ Carries(data, f)
                   /\ WithData(h, SubSeq(f.data, 1, f.dlc)) = [h EXCEPT !.dlc = f.dlc, !.data = data]
<1>1. PICK b : b = SubSeq(f.data, 1, f.dlc)
  OBVIOUS
<1>2. b \in Seq(0..255) /\ Len(b) = f.dlc /\ \A i \in 1..f.dlc : b[i] \in 0..255 /\ b[i] = f.data[i]
  BY <1>1, Bytes
<1>3. h.data \in [1..8 -> 0..255] /\ f.dlc \in 0..8
  BY Fitting, Fields
<1>4. PICK n : n = IF Len(b) < MAX_DATA_LENGTH THEN Len(b) ELSE MAX_DATA_LENGTH
  OBVIOUS
<1>5. n = f.dlc
  BY <1>2, <1>3, <1>4, SMT DEF MAX_DATA_LENGTH
<1>6. PICK data : data = [i \in 1..MAX_DATA_LENGTH |-> IF i <= n THEN b[i] ELSE h.data[i]]
  OBVIOUS
<1>7. WithData(h, b) = [h EXCEPT !.dlc = n, !.data = data]
  BY <1>4, <1>6, Zenon DEF WithData
<1>8. Carries(data, f)
  <2>1. ASSUME NEW i \in 1..8, i <= f.dlc
        PROVE  b[i] \in 0..255
    <3>1. i \in 1..f.dlc
      BY <1>3, <2>1, SMT
    <3> QED BY <1>2, <3>1, Zenon
  <2>2. ASSUME NEW i \in 1..8, ~(i <= f.dlc)
        PROVE  h.data[i] \in 0..255
    BY <1>3
  <2>3. data \in [1..8 -> 0..255]
    BY <1>5, <1>6, <2>1, <2>2 DEF MAX_DATA_LENGTH
  <2>4. ASSUME NEW i \in 1..f.dlc
        PROVE  data[i] = f.data[i]
    <3>1. i \in 1..8 /\ i <= f.dlc
      BY <1>3, SMT
    <3> QED BY <1>2, <1>5, <1>6, <3>1, Zenon DEF MAX_DATA_LENGTH
  <2> QED BY <2>3, <2>4 DEF Carries
<1> QED BY <1>1, <1>5, <1>7, <1>8, Zenon

\* h9d: the members a kind of frame has are the ones that are read.
LEMMA JsonCarries ==
  ASSUME NEW f \in FitFrames, NEW old \in H9Frames
  PROVE  LET g == from_json(old, to_json(f)) IN g \in H9Frames /\ Same(g, f)
<1>1. PICK b : b = SubSeq(f.data, 1, f.dlc)
  OBVIOUS
<1>2. /\ f \in H9Frames /\ f.type \in Byte /\ f.source_id \in Byte /\ f.flags \in Byte
      /\ f.destination_id \in Byte /\ f.seqnum \in Byte /\ f.group \in Word /\ f.dlc \in Byte
  <2>1. f \in H9Frames
    BY Fitting
  <2> QED BY <2>1, Fields DEF Byte
<1>3. ASSUME NEW h \in H9Frames, NEW g, g = WithData(h, b),
             h.type = f.type, h.source_id = f.source_id,
             is_unicast(f) => /\ h.flags = f.flags /\ h.destination_id = f.destination_id
                              /\ h.seqnum = f.seqnum,
             ~is_unicast(f) => h.group = f.group
      PROVE  g \in H9Frames /\ Same(g, f)
  <2>1. PICK data : Carries(data, f) /\ g = [h EXCEPT !.dlc = f.dlc, !.data = data]
    BY <1>1, <1>3, DataCarries
  <2>2. data \in [1..MAX_DATA_LENGTH -> Byte]
    BY <2>1 DEF Carries, MAX_DATA_LENGTH, Byte
  <2>3. /\ g \in H9Frames /\ g.dlc = f.dlc /\ g.data = data
        /\ g.type = h.type /\ g.source_id = h.source_id /\ g.flags = h.flags
        /\ g.destination_id = h.destination_id /\ g.seqnum = h.seqnum /\ g.group = h.group
    BY <1>2, <2>1, <2>2 DEF H9Frames
  <2>4. Same(g, f)
    BY <1>3, <2>1, <2>3, Zenon DEF Same, Carries
  <2> QED BY <2>3, <2>4
<1>4. PICK g : g = from_json(old, to_json(f))
  OBVIOUS
<1>5. CASE is_unicast(f)
  <2>1. PICK j : j = [type |-> f.type, source_id |-> f.source_id, seqnum |-> f.seqnum,
           destination_id |-> f.destination_id, flags |-> f.flags, dlc |-> f.dlc, data |-> b]
    OBVIOUS
  <2>2. to_json(f) = j
    BY <1>1, <1>5, <2>1, Zenon DEF to_json
  <2>3. /\ {"type", "source_id", "seqnum", "destination_id", "flags", "dlc", "data"} = DOMAIN j
        /\ j.type = f.type /\ j.source_id = f.source_id /\ j.seqnum = f.seqnum
        /\ j.destination_id = f.destination_id /\ j.flags = f.flags /\ j.dlc = f.dlc /\ j.data = b
    BY <2>1
  <2>4. "broadcast_group" \notin DOMAIN j
    BY <2>3
  <2>5. PICK h : h = [old EXCEPT !.type = f.type, !.source_id = f.source_id, !.seqnum = f.seqnum,
                          !.destination_id = f.destination_id, !.flags = f.flags,
                          !.group = old.group, !.dlc = f.dlc]
    OBVIOUS
  <2>6. g = WithData(h, b)
    BY <1>4, <2>2, <2>3, <2>4, <2>5 DEF from_json
  <2>7. /\ h \in H9Frames /\ h.type = f.type /\ h.source_id = f.source_id
        /\ h.flags = f.flags /\ h.destination_id = f.destination_id /\ h.seqnum = f.seqnum
    BY <1>2, <2>5 DEF H9Frames
  <2> QED BY <1>3, <1>4, <1>5, <2>6, <2>7, Zenon
<1>6. CASE ~is_unicast(f)
  <2>1. PICK j : j = [type |-> f.type, source_id |-> f.source_id, broadcast_group |-> f.group,
           dlc |-> f.dlc, data |-> b]
    OBVIOUS
  <2>2. to_json(f) = j
    BY <1>1, <1>6, <2>1, Zenon DEF to_json
  <2>3. /\ {"type", "source_id", "broadcast_group", "dlc", "data"} = DOMAIN j
        /\ j.type = f.type /\ j.source_id = f.source_id /\ j.broadcast_group = f.group
        /\ j.dlc = f.dlc /\ j.data = b
    BY <2>1
  <2>4. "seqnum" \notin DOMAIN j /\ "destination_id" \notin DOMAIN j /\ "flags" \notin DOMAIN j
    BY <2>3
  <2>5. PICK h : h = [old EXCEPT !.type = f.type, !.source_id = f.source_id, !.seqnum = old.seqnum,
                          !.destination_id = old.destination_id, !.flags = old.flags,
                          !.group = f.group, !.dlc = f.dlc]
    OBVIOUS
  <2>6. g = WithData(h, b)
    BY <1>4, <2>2, <2>3, <2>4, <2>5 DEF from_json
  <2>7. /\ h \in H9Frames /\ h.type = f.type /\ h.source_id = f.source_id /\ h.group = f.group
    BY <1>2, <2>5 DEF H9Frames
  <2> QED BY <1>3, <1>4, <1>6, <2>6, <2>7, Zenon
<1> QED BY <1>5, <1>6

-----------------------------------------------------------------------------
\* Every driver carries every frame whose fields fit their bits: whatever the object
\* held into which the frame is read, the frame that comes out of the driver's form
\* (SLCAN's line, the kernel's can_frame, the 13 bytes of serialize() that
\* deserialize() takes apart without the identifier, the JSON of h9d over h9d) fits
\* again and means what was sent, the flags cut to their three bits.
THEOREM FramesCarried ==
  ASSUME NEW f \in FitFrames, NEW old \in H9Frames, NEW d \in Drivers
  PROVE  /\ Carried(d, old, f) \in FitFrames
         /\ Meaning(Carried(d, old, f)) = Meaning(f)
<1>1. PICK g : g = Carried(d, old, f)
  OBVIOUS
<1>2. \/ g = parse_slcan_msg(old, build_slcan_msg(f))
      \/ g = socketcan_recv(old, socketcan_send(f))
      \/ g = from_json(old, to_json(f))
      \/ g = deserialize(old, serialize(f))
  BY <1>1 DEF Carried, Drivers, Datagram, h9d_send, h9d_recv
<1>3. g \in H9Frames /\ Same(g, f)
  BY <1>2, SlcanCarries, SocketCarries, JsonCarries, DatagramCarries, Zenon
<1> QED BY <1>1, <1>3, SameMeaning
=============================================================================
