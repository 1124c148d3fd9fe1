--------------------------- MODULE FirmwareUpload ---------------------------
(***************************************************************************)
(* h9fwupload: the Intel HEX reader (src/h9fwupload/h9fwupload.cc) and the *)
(* reaction of FirmwareUploader::upload to one frame.  At the end of the   *)
(* file the bootloader, code of the node, as doc/bootloader.md draws it.   *)
(***************************************************************************)
EXTENDS Integers, Sequences, SequencesExt, Maps

CONSTANT
  PageSize   \* bytes of a flash page of the node

ASSUME PageAssumption == PageSize \in Nat /\ PageSize > 0 /\ PageSize % 8 = 0

ERASED == 255
SEGMENT == 65536  \* bytes that an address of a line reaches
At(fw, i) == IF i \in DOMAIN fw THEN fw[i] ELSE ERASED

\* The lines of a file, crc telling if the checksum is right.
IhexLines == [type : 0..255, address : 0..SEGMENT - 1, data : Seq(0..255), crc : BOOLEAN]
IsIhex(lines) ==
  /\ lines \in Seq(IhexLines)
  /\ \A i \in DOMAIN lines : /\ Len(lines[i].data) <= 255
                             /\ lines[i].type \in {2, 4} => Len(lines[i].data) = 2

NoData == [fw |-> <<>>, length |-> 0, extended |-> 0, stop |-> FALSE]

\* Mutant: data behind a gap is put right after the data before it.
DataAtLength(acc, address) == acc.length

\* Data goes to its address, unless the buffer is filled beyond it.
DataAt(acc, address) == IF acc.length < address THEN address ELSE acc.length

\* An extended address, by its two upper bytes.
Base(line) == (line.data[1] * 256 + line.data[2]) * SEGMENT

Placed(data, at) == [a \in at..at + Len(data) - 1 |-> data[a - at + 1]]

\* One line.  A wrong checksum empties the image and ends the reading; so does,
\* with the image kept, an extended address beyond 128 kB.
ReadLine(acc, line) ==
  LET at == DataAt(acc, acc.extended + line.address)
  IN CASE acc.stop -> acc
       [] ~acc.stop /\ line.type = 0 ->
            [acc EXCEPT !.fw = Over(Placed(line.data, at), @),
                        !.length = IF line.crc THEN at + Len(line.data) ELSE 0,
                        !.stop = ~line.crc]
       [] ~acc.stop /\ line.type = 4 ->
            [acc EXCEPT !.extended = Base(line),
                        !.length = IF line.crc THEN @ ELSE 0,
                        !.stop = ~line.crc \/ Base(line) > SEGMENT]
       [] OTHER -> acc

\* The file, line by line.
ReadLines(lines) ==
  LET read[n \in 0..Len(lines)] == IF n = 0 THEN NoData ELSE ReadLine(read[n - 1], lines[n])
  IN read
read_ihex(lines) == ReadLines(lines)[Len(lines)]

\* What the Intel HEX format says, whatever the reader does: data goes to its
\* address behind the last extended linear (04) or segment (02) address, and 01
\* ends the file.  What comes after an address beyond 128 kB is no program.
SegmentBase(line) == (line.data[1] * 256 + line.data[2]) * 16
RecordBase(line) == IF line.type = 2 THEN SegmentBase(line) ELSE Base(line)
Extended(lines, i) ==
  LET bases == {j \in 1..i : lines[j].type \in {2, 4}}
  IN IF bases = {} THEN 0 ELSE RecordBase(lines[Max(bases)])
Address(lines, i) == Extended(lines, i) + lines[i].address
Beyond(line) == \/ line.type = 4 /\ Base(line) > SEGMENT
                \/ line.type = 2 /\ SegmentBase(line) >= 2 * SEGMENT
ProgramLines(lines) ==
  {i \in DOMAIN lines : lines[i].type = 0 /\ \A j \in 1..i : ~Beyond(lines[j])}
Segmented(lines) == \E i \in DOMAIN lines : lines[i].type = 2

\* A file of the format in order of addresses, no line of which wraps around in
\* its segment; and the byte that it gives to an address.
InOrder(lines) ==
  /\ \A i \in DOMAIN lines : /\ lines[i].crc /\ lines[i].type \in 0..5
                             /\ lines[i].type = 1 => i = Len(lines)
                             /\ Segmented(lines) => lines[i].address + Len(lines[i].data) <= SEGMENT
  /\ \A i, j \in ProgramLines(lines) :
       i < j => Address(lines, i) + Len(lines[i].data) <= Address(lines, j)
ByteOf(lines, a) ==
  LET in == {i \in ProgramLines(lines) : a - Address(lines, i) \in 0..Len(lines[i].data) - 1}
  IN IF in = {} THEN ERASED
     ELSE LET i == CHOOSE i \in in : TRUE IN lines[i].data[a - Address(lines, i) + 1]

-----------------------------------------------------------------------------
(* FirmwareUploader. *)

Frame(type, source, dst, data) ==
  [type |-> type, source_id |-> source, destination_id |-> dst % 256, data |-> data]
PAGE_START(u) == Frame("PAGE_START", 0, u.node_id, <<u.page \div 256, u.page % 256>>)

NewUploader(lines, dst) ==
  LET image == read_ihex(lines)
  IN [fw |-> image.fw, fw_size |-> image.length, node_id |-> dst, fw_idx |-> 0, page |-> 0,
      frame |-> Frame("none", 0, 0, <<>>), done |-> FALSE, crashed |-> FALSE]

Fill(u) == [i \in 1..8 |-> At(u.fw, u.fw_idx + i - 1)]

Finished(u) == u.fw_idx >= u.fw_size
UINT16(n) == n % 65536

\* What one frame makes of the uploader; frame is what it sends.  The progress
\* bar divides by the size of the image.
upload(u, f) ==
  LET Sends(v, frame) == [v EXCEPT !.frame = frame]
      Restart(v) == Sends(v, PAGE_START(v))
  IN CASE f.source_id # u.node_id -> u
       [] f.source_id = u.node_id /\ f.type = "PAGE_WRITED" ->
            IF u.fw_size = 0 THEN [u EXCEPT !.crashed = TRUE]
            ELSE IF Finished(u)
            THEN [Sends(u, Frame("QUIT_BOOTLOADER", 0, u.node_id, <<>>)) EXCEPT !.done = TRUE]
            ELSE Restart([u EXCEPT !.page = UINT16(@ + 1)])
       [] f.source_id = u.node_id /\ f.type = "BOOTLOADER_TURNED_ON" -> Restart(u)
       [] f.source_id = u.node_id /\ f.type = "PAGE_FILL_NEXT" ->
            [Sends(u, Frame("PAGE_FILL", 0, u.node_id, Fill(u))) EXCEPT !.fw_idx = @ + 8]
       [] OTHER -> u

-----------------------------------------------------------------------------
(* The node: its application, and its bootloader, which fills one page at a  *)
(* time; a page number of -1 stands for none.                                *)

App == [mode |-> "app", page |-> -1, fill |-> <<>>, flash |-> <<>>]
Boot == [App EXCEPT !.mode = "boot"]

\* The node after frame f, and the type of the frame it sends, if any.
Bootloader(n, f) ==
  LET full == Len(n.fill) + 8 = PageSize
      Same(reply) == [node |-> n, reply |-> reply]
  IN CASE n.mode = "app" /\ f.type = "NODE_UPGRADE" ->
            [node |-> [Boot EXCEPT !.flash = n.flash], reply |-> "BOOTLOADER_TURNED_ON"]
       [] n.mode = "boot" /\ f.type = "PAGE_START" ->
            [node |-> [n EXCEPT !.page = f.data[1] * 256 + f.data[2], !.fill = <<>>],
             reply |-> "PAGE_FILL_NEXT"]
       [] n.mode = "boot" /\ f.type = "PAGE_FILL" /\ n.page # -1 ->
            IF full
            THEN [node |-> [n EXCEPT !.page = -1, !.fill = <<>>,
                                     !.flash = Put(@, n.page, n.fill \o f.data)],
                  reply |-> "PAGE_WRITED"]
            ELSE [node |-> [n EXCEPT !.fill = @ \o f.data], reply |-> "PAGE_FILL_NEXT"]
       [] n.mode = "boot" /\ f.type = "QUIT_BOOTLOADER" ->
            [node |-> [n EXCEPT !.mode = "app"], reply |-> "NODE_TURNED_ON"]
       [] OTHER -> Same("none")
=============================================================================
