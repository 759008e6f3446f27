------------------------------ MODULE PcapFile ------------------------------
(***************************************************************************)
(* One PCAP file and the captures that write it with ldab_pcap_create(),   *)
(* ldab_pcap_open() and ldab_pcap_write() (libdabba/pcap.c), each through  *)
(* a descriptor with an offset of its own, and what ldab_pcap_read() makes *)
(* of the result.                                                          *)
(*                                                                         *)
(* Behind the file header, which is left out, the file is a sequence of    *)
(* cells: part 0 of a record is its header, which says how many cells of   *)
(* payload follow.                                                         *)
(***************************************************************************)
EXTENDS Integers, Sequences, SequencesExt

CONSTANTS
    Captures,     \* the captures that may write the file
    MaxRecords,   \* bound: records written in all
    Damage        \* what may happen to the file: the thread is cancelled
                  \* between two writes ("cut"), a write fails ("disk"), two
                  \* captures have the file open at once ("shared")

ASSUME MaxRecordsAssumption == MaxRecords \in Nat
ASSUME DamageAssumption == Damage \subseteq {"cut", "disk", "shared"}

Records == 1..MaxRecords
CapLen(r) == 1 + (r % 2)
Cells == [rec : Records, part : 0..2]
Hole == [rec |-> 0, part |-> 0]
Closed == -1

VARIABLES
    exists,    \* whether the file was created
    content,   \* its cells
    offset,    \* the offset of each capture's descriptor, or Closed
    pending,   \* the record whose header a capture has written, or 0
    nextRec,   \* the next record
    written,   \* (history) the records written since the file was created
    damage     \* (history) what has happened to it since then

vars == <<exists, content, offset, pending, nextRec, written, damage>>

TypeOK ==
    /\ exists \in BOOLEAN
    /\ content \in Seq(Cells \cup {Hole})
    /\ offset \in [Captures -> Nat \cup {Closed}]
    /\ pending \in [Captures -> Records \cup {0}]
    /\ nextRec \in 1..(MaxRecords + 1)
    /\ written \in Seq(Records)
    /\ damage \subseteq Damage

Init ==
    /\ exists = FALSE
    /\ content = <<>>
    /\ offset = [c \in Captures |-> Closed]
    /\ pending = [c \in Captures |-> 0]
    /\ nextRec = 1
    /\ written = <<>>
    /\ damage = {}

(* write(2): the cells go where the offset is, over what is there. *)
Overwritten(off, cells) ==
    LET end == off + Len(cells)
        len == IF end > Len(content) THEN end ELSE Len(content)
    IN  [n \in 1..len |->
            IF n > off /\ n <= end THEN cells[n - off]
            ELSE IF n <= Len(content) THEN content[n] ELSE Hole]

HeaderOf(r) == <<[rec |-> r, part |-> 0]>>

PayloadOf(r) == [p \in 1..CapLen(r) |-> [rec |-> r, part |-> p]]

-----------------------------------------------------------------------------
(* A capture opens the file: it is shared when another one has it open. *)
Opens(c, off) ==
    LET sharing == {x \in {"shared"} : \E d \in Captures : offset[d] # Closed}
    IN  /\ offset[c] = Closed
        /\ sharing \subseteq Damage
        /\ offset' = [offset EXCEPT ![c] = off]
        /\ damage' = (IF content' = <<>> THEN {} ELSE damage) \cup sharing

(* ldab_pcap_create(): creat(2) truncates the file. *)
Create(c) ==
    /\ exists' = TRUE
    /\ content' = <<>>
    /\ written' = <<>>
    /\ Opens(c, 0)
    /\ UNCHANGED <<pending, nextRec>>

(* Mutant: the offset stays behind the file header that was checked. *)
OpenAtStart(c) ==
    /\ exists
    /\ UNCHANGED <<exists, content, pending, nextRec, written>>
    /\ Opens(c, 0)

(***************************************************************************)
(* ldab_pcap_open() with O_APPEND, as --append asks for: the flag is taken *)
(* away to read the file header, and instead the offset set to the end.    *)
(***************************************************************************)
OpenAppend(c) ==
    /\ exists
    /\ UNCHANGED <<exists, content, pending, nextRec, written>>
    /\ Opens(c, Len(content))

(* ldab_pcap_write(), the record header *)
WriteHeader(c) ==
    /\ offset[c] # Closed
    /\ pending[c] = 0
    /\ nextRec <= MaxRecords
    /\ content' = Overwritten(offset[c], HeaderOf(nextRec))
    /\ offset' = [offset EXCEPT ![c] = @ + 1]
    /\ pending' = [pending EXCEPT ![c] = nextRec]
    /\ nextRec' = nextRec + 1
    /\ UNCHANGED <<exists, written, damage>>

(* ldab_pcap_write(), the payload *)
WritePayload(c) ==
    /\ pending[c] # 0
    /\ content' = Overwritten(offset[c], PayloadOf(pending[c]))
    /\ offset' = [offset EXCEPT ![c] = @ + CapLen(pending[c])]
    /\ pending' = [pending EXCEPT ![c] = 0]
    /\ written' = Append(written, pending[c])
    /\ UNCHANGED <<exists, nextRec, damage>>

(***************************************************************************)
(* The disk is full: the record header is not written, or the payload only *)
(* in part.  -1 is returned, and ldab_packet_rx() does not look at it.     *)
(***************************************************************************)
WriteFails(c) ==
    /\ "disk" \in Damage
    /\ offset[c] # Closed
    /\ \/ /\ pending[c] = 0
          /\ nextRec <= MaxRecords
          /\ nextRec' = nextRec + 1
          /\ UNCHANGED <<content, offset, pending>>
       \/ /\ pending[c] # 0
          /\ \E n \in 0..(CapLen(pending[c]) - 1) :
                /\ content' = Overwritten(offset[c], SubSeq(PayloadOf(pending[c]), 1, n))
                /\ offset' = [offset EXCEPT ![c] = @ + n]
          /\ pending' = [pending EXCEPT ![c] = 0]
          /\ UNCHANGED nextRec
    /\ damage' = damage \cup {"disk"}
    /\ UNCHANGED <<exists, written>>

(***************************************************************************)
(* The capture is stopped and its descriptor closed.  The thread may be    *)
(* cancelled between the two writes: see CaptureTeardown.                  *)
(***************************************************************************)
Stop(c) ==
    LET cut == {x \in {"cut"} : pending[c] # 0}
    IN  /\ offset[c] # Closed
        /\ cut \subseteq Damage
        /\ damage' = damage \cup cut
        /\ offset' = [offset EXCEPT ![c] = Closed]
        /\ pending' = [pending EXCEPT ![c] = 0]
        /\ UNCHANGED <<exists, content, nextRec, written>>

Next ==
    \E c \in Captures :
        \/ Create(c)
        \/ OpenAppend(c)
        \/ WriteHeader(c)
        \/ WritePayload(c)
        \/ WriteFails(c)
        \/ Stop(c)

Spec == Init /\ [][Next]_vars

-----------------------------------------------------------------------------
(***************************************************************************)
(* What ldab_pcap_read() returns call after call: the records whose header *)
(* is found where one is expected; 0 stands for a packet that was never    *)
(* captured.  Reading ends at a header with no payload behind it.          *)
(***************************************************************************)
ReadBack ==
    LET read[off \in 0..Len(content)] ==
            IF off + 1 >= Len(content) THEN <<>>
            ELSE LET r == content[off + 1].rec
                     end == off + 1 + CapLen(r)
                 IN  IF content[off + 1].part # 0 \/ r = 0 \/ end > Len(content)
                     THEN <<0>>
                     ELSE <<IF SubSeq(content, off + 2, end) = PayloadOf(r)
                            THEN r ELSE 0>> \o read[end]
    IN  read[0]

(***************************************************************************)
(* "Append capture to existing pcap file" (dabba/capture.c:68): between    *)
(* two records the file reads back as what was written since it was        *)
(* created, in that order, however often it was stopped and appended to.   *)
(***************************************************************************)
AppendedFileReadsBack ==
    (\A c \in Captures : pending[c] = 0) => ReadBack = written

(* The same as long as no record was cut, no write failed and the captures *)
(* had the file one after the other.                                       *)
UndamagedFileReadsBack == damage = {} => AppendedFileReadsBack

(***************************************************************************)
(* A capture that is alone on its file never overwrites what is there: the *)
(* file only grows, whatever was cut off or failed before, until a capture *)
(* without --append creates it anew.                                       *)
(***************************************************************************)
OnlyGrows ==
    [][damage' \subseteq {"cut", "disk"} =>
          content' = <<>> \/ IsPrefix(content, content')]_vars

=============================================================================
