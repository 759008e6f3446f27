--------------------------- MODULE PcapFileProofs ---------------------------
(***************************************************************************)
(* A capture that is alone on its file only adds to it, for any number of  *)
(* captures and records, and whatever was cut off or failed before; and    *)
(* what was written without such damage reads back.                        *)
(***************************************************************************)
EXTENDS PcapFile, SequenceTheorems, WellFoundedInduction, TLAPS

File == Seq(Cells \cup {Hole})

-----------------------------------------------------------------------------
(* The invariant *)

(* A header is only ever pending on an open descriptor. *)
PendingOpen == \A c \in Captures : pending[c] # 0 => offset[c] # Closed

(* Unless the file was shared, at most one capture has it open, and its    *)
(* offset is the end of the file.                                          *)
AtEnd(c) ==
    offset[c] # Closed =>
        /\ offset[c] = Len(content)
        /\ \A d \in Captures : offset[d] # Closed => d = c
Alone == "shared" \notin damage => \A c \in Captures : AtEnd(c)

IndInv == TypeOK /\ PendingOpen /\ Alone

-----------------------------------------------------------------------------
(* write(2) *)

LEMMA CapLenType ==
    ASSUME NEW r \in Nat
    PROVE  CapLen(r) \in 1..2
  BY DEF CapLen

(* What is written are cells. *)
LEMMA WrittenTypes ==
    ASSUME NEW r \in Records
    PROVE  /\ HeaderOf(r) \in Seq(Cells) /\ Len(HeaderOf(r)) = 1
           /\ PayloadOf(r) \in Seq(Cells) /\ Len(PayloadOf(r)) = CapLen(r)
           /\ CapLen(r) \in 1..2
  <1>1. CapLen(r) \in 1..2
    BY CapLenType, MaxRecordsAssumption DEF Records
  <1>2. [rec |-> r, part |-> 0] \in Cells
    BY DEF Cells
  <1>3. \A p \in 1..CapLen(r) : [rec |-> r, part |-> p] \in Cells
    BY <1>1 DEF Cells
  <1>4. PayloadOf(r) \in [1..CapLen(r) -> Cells]
    BY <1>3 DEF PayloadOf
  <1>5. PayloadOf(r) \in Seq(Cells)
    BY <1>1, <1>4, IsASeq
  <1>6. Len(PayloadOf(r)) = CapLen(r)
    <2>1. DOMAIN PayloadOf(r) = 1..CapLen(r)
      BY DEF PayloadOf
    <2> QED BY <1>1, <1>5, <2>1, LenProperties
  <1>7. HeaderOf(r) \in Seq(Cells) /\ Len(HeaderOf(r)) = 1
    BY <1>2 DEF HeaderOf
  <1> QED BY <1>1, <1>5, <1>6, <1>7

(* A file that was written to is one, and is no shorter. *)
LEMMA OverwrittenType ==
    ASSUME content \in File, NEW off \in Nat, NEW cells \in Seq(Cells)
    PROVE  Overwritten(off, cells) \in File
  <1> DEFINE end == off + Len(cells)
             len == IF end > Len(content) THEN end ELSE Len(content)
             cell(n) == IF n > off /\ n <= end THEN cells[n - off]
                        ELSE IF n <= Len(content) THEN content[n] ELSE Hole
  <1>1. /\ Len(content) \in Nat
        /\ Len(cells) \in Nat
        /\ \A n \in 1..Len(content) : content[n] \in Cells \cup {Hole}
        /\ \A n \in 1..Len(cells) : cells[n] \in Cells
    BY LenProperties, ElementOfSeq DEF File
  <1>2. len \in Nat
    BY <1>1
  <1>3. ASSUME NEW n \in 1..len PROVE cell(n) \in Cells \cup {Hole}
    <2>1. CASE n > off /\ n <= end
      <3>1. n - off \in 1..Len(cells)
        BY <1>1, <1>2, <2>1
      <3> QED BY <1>1, <2>1, <3>1
    <2>2. CASE ~(n > off /\ n <= end) /\ n <= Len(content)
      <3>1. n \in 1..Len(content)
        BY <1>1, <1>2, <2>2
      <3> QED BY <1>1, <2>2, <3>1
    <2>3. CASE ~(n > off /\ n <= end) /\ ~(n <= Len(content))
      BY <2>3
    <2> QED BY <2>1, <2>2, <2>3
  <1>4. Overwritten(off, cells) = [n \in 1..len |-> cell(n)]
    BY DEF Overwritten
  <1>5. [n \in 1..len |-> cell(n)] \in [1..len -> Cells \cup {Hole}]
    BY <1>3
  <1> HIDE DEF len, cell
  <1> QED BY <1>2, <1>4, <1>5, IsASeq DEF File

(* Written at the end, the cells are added to the file. *)
LEMMA WrittenAtEnd ==
    ASSUME content \in File, NEW cells \in Seq(Cells)
    PROVE  /\ Len(Overwritten(Len(content), cells)) = Len(content) + Len(cells)
           /\ IsPrefix(content, Overwritten(Len(content), cells))
  <1> DEFINE old == Len(content)
             new == Overwritten(old, cells)
  <1>1. old \in Nat /\ Len(cells) \in Nat
    BY LenProperties DEF File
  <1>2. new \in File
    BY <1>1, OverwrittenType
  <1>3. DOMAIN new = 1..(old + Len(cells))
    BY <1>1 DEF Overwritten
  <1>4. Len(new) = old + Len(cells)
    <2>1. old + Len(cells) \in Nat /\ Len(new) \in Nat /\ DOMAIN new = 1..Len(new)
      BY <1>1, <1>2, LenProperties DEF File
    <2> HIDE DEF new, old
    <2> QED BY <1>3, <2>1
  <1>5. \A n \in 1..old : new[n] = content[n]
    BY <1>1 DEF Overwritten
  <1>6. SubSeq(content, 1, old) = SubSeq(new, 1, old)
    <2> HIDE DEF new, old
    <2>1. SubSeq(content, 1, old) = [n \in 1..old |-> content[n]]
      BY <1>1
    <2>2. SubSeq(new, 1, old) = [n \in 1..old |-> new[n]]
      BY <1>1
    <2> QED BY <1>5, <2>1, <2>2
  <1>7. Len(content) <= Len(new)
    BY <1>1, <1>4
  <1> QED BY <1>4, <1>6, <1>7 DEF IsPrefix

-----------------------------------------------------------------------------
(* What each call does, in the words of the invariant. *)

(* A write through a descriptor that is at the end of its file. *)
Writes(c, cells) ==
    /\ content' = Overwritten(offset[c], cells)
    /\ offset' = [offset EXCEPT ![c] = @ + Len(cells)]

LEMMA WritesType ==
    ASSUME TypeOK, NEW c \in Captures, offset[c] # Closed,
           NEW cells \in Seq(Cells), Writes(c, cells)
    PROVE  content' \in File /\ offset' \in [Captures -> Nat \cup {Closed}]
  <1>1. offset[c] \in Nat /\ Len(cells) \in Nat /\ content \in File
    BY LenProperties DEF TypeOK, File
  <1>2. content' \in File
    BY <1>1, OverwrittenType DEF Writes
  <1>3. offset[c] + Len(cells) \in Nat
    BY <1>1
  <1> QED BY <1>2, <1>3 DEF Writes, TypeOK

LEMMA WritesAlone ==
    ASSUME IndInv, NEW c \in Captures, offset[c] # Closed,
           NEW cells \in Seq(Cells), Writes(c, cells), damage \subseteq damage'
    PROVE  /\ Alone'
           /\ "shared" \notin damage' => IsPrefix(content, content')
  <1> SUFFICES ASSUME "shared" \notin damage'
               PROVE  (\A d \in Captures : AtEnd(d)') /\ IsPrefix(content, content')
    BY DEF Alone
  <1>1. content \in File /\ Len(content) \in Nat /\ Len(cells) \in Nat
    BY LenProperties DEF IndInv, TypeOK, File
  <1>2. offset[c] = Len(content) /\ \A d \in Captures : offset[d] # Closed => d = c
    BY DEF IndInv, Alone, AtEnd
  <1>3. Len(content') = Len(content) + Len(cells) /\ IsPrefix(content, content')
    BY <1>1, <1>2, WrittenAtEnd DEF Writes
  <1>4. offset'[c] = Len(content') /\ \A d \in Captures : d # c => offset'[d] = offset[d]
    BY <1>1, <1>2, <1>3 DEF Writes, IndInv, TypeOK
  <1>5. ASSUME NEW d \in Captures PROVE AtEnd(d)'
    BY <1>2, <1>4 DEF AtEnd
  <1> QED BY <1>3, <1>5

(* A capture opens the file at its end, the only one to have it open or    *)
(* one of several, which is remembered.                                    *)
LEMMA OpensKeeps ==
    ASSUME IndInv, NEW c \in Captures, Opens(c, Len(content')),
           content' = <<>> \/ content' = content, UNCHANGED pending
    PROVE  PendingOpen' /\ Alone'
  <1>1. offset' = [offset EXCEPT ![c] = Len(content')] /\ offset[c] = Closed
    BY DEF Opens
  <1>2. Len(content') \in Nat /\ Closed \notin Nat
    BY LenProperties DEF IndInv, TypeOK, Closed
  <1>3. PendingOpen'
    BY <1>1, <1>2 DEF IndInv, TypeOK, PendingOpen
  <1>4. ASSUME "shared" \notin damage', NEW d \in Captures PROVE AtEnd(d)'
    <2>1. \A e \in Captures : offset[e] = Closed
      BY <1>4 DEF Opens
    <2>2. \A e \in Captures : offset'[e] # Closed => e = c
      BY <1>1, <2>1 DEF IndInv, TypeOK
    <2>3. offset'[c] = Len(content')
      BY <1>1 DEF IndInv, TypeOK
    <2> QED BY <2>2, <2>3 DEF AtEnd
  <1> QED BY <1>3, <1>4 DEF Alone

LEMMA OpensType ==
    ASSUME TypeOK, NEW c \in Captures, NEW off \in Nat, Opens(c, off)
    PROVE  offset' \in [Captures -> Nat \cup {Closed}] /\ damage' \subseteq Damage
  BY DEF TypeOK, Opens

(* A record header, a payload and a part of one are writes. *)
LEMMA HeaderWrites ==
    ASSUME TypeOK, NEW c \in Captures, WriteHeader(c)
    PROVE  \E cells \in Seq(Cells) : Writes(c, cells)
  <1>1. nextRec \in Records
    BY MaxRecordsAssumption DEF TypeOK, WriteHeader, Records
  <1>2. HeaderOf(nextRec) \in Seq(Cells) /\ Len(HeaderOf(nextRec)) = 1
    BY <1>1, WrittenTypes
  <1> QED BY <1>2 DEF WriteHeader, Writes

LEMMA PayloadWrites ==
    ASSUME TypeOK, NEW c \in Captures, WritePayload(c)
    PROVE  \E cells \in Seq(Cells) : Writes(c, cells)
  <1>1. pending[c] \in Records
    BY DEF TypeOK, WritePayload
  <1>2. /\ PayloadOf(pending[c]) \in Seq(Cells)
        /\ Len(PayloadOf(pending[c])) = CapLen(pending[c])
    BY <1>1, WrittenTypes
  <1> QED BY <1>2 DEF WritePayload, Writes

LEMMA FailureWrites ==
    ASSUME TypeOK, NEW c \in Captures, WriteFails(c)
    PROVE  \/ UNCHANGED <<content, offset, pending>>
           \/ /\ pending' = [pending EXCEPT ![c] = 0]
              /\ UNCHANGED nextRec
              /\ \E cells \in Seq(Cells) : Writes(c, cells)
  <1>1. CASE pending[c] = 0
    BY <1>1 DEF WriteFails
  <1>2. CASE pending[c] # 0
    <2>1. PICK n \in 0..(CapLen(pending[c]) - 1) :
             /\ content' = Overwritten(offset[c], SubSeq(PayloadOf(pending[c]), 1, n))
             /\ offset' = [offset EXCEPT ![c] = @ + n]
      BY <1>2 DEF WriteFails
    <2>2. pending[c] \in Records
      BY <1>2 DEF TypeOK
    <2>3. /\ PayloadOf(pending[c]) \in Seq(Cells)
          /\ Len(PayloadOf(pending[c])) = CapLen(pending[c])
          /\ CapLen(pending[c]) \in 1..2
      BY <2>2, WrittenTypes
    <2> DEFINE cells == SubSeq(PayloadOf(pending[c]), 1, n)
    <2>4. n \in Nat /\ n <= Len(PayloadOf(pending[c]))
      BY <2>3
    <2>5. cells \in Seq(Cells) /\ Len(cells) = n
      BY <2>3, <2>4, SubSeqProperties
    <2>6. Writes(c, cells)
      BY <2>1, <2>5 DEF Writes
    <2>7. pending' = [pending EXCEPT ![c] = 0] /\ UNCHANGED nextRec
      BY <1>2 DEF WriteFails
    <2> QED BY <2>5, <2>6, <2>7
  <1> QED BY <1>1, <1>2

-----------------------------------------------------------------------------
(* Every call keeps the invariant. *)

LEMMA CreateKeeps ==
    ASSUME IndInv, NEW c \in Captures, Create(c)
    PROVE  IndInv'
  <1>1. content' = <<>> /\ Len(content') = 0 /\ content' \in File
    BY DEF Create, File
  <1>2. TypeOK'
    <2>1. TypeOK /\ Opens(c, 0) /\ written' = <<>> /\ exists' = TRUE
      BY DEF IndInv, Create
    <2>2. offset' \in [Captures -> Nat \cup {Closed}] /\ damage' \subseteq Damage
      BY <2>1, OpensType
    <2>3. written' \in Seq(Records)
      BY <2>1
    <2> QED BY <1>1, <2>1, <2>2, <2>3 DEF TypeOK, Create, File
  <1>3. PendingOpen' /\ Alone'
    BY <1>1, OpensKeeps DEF Create
  <1> QED BY <1>2, <1>3 DEF IndInv

LEMMA OpenAppendKeeps ==
    ASSUME IndInv, NEW c \in Captures, OpenAppend(c)
    PROVE  IndInv'
  <1>1. Len(content) \in Nat /\ Opens(c, Len(content)) /\ content' = content
    BY LenProperties DEF IndInv, TypeOK, OpenAppend
  <1>2. TypeOK'
    <2>1. offset' \in [Captures -> Nat \cup {Closed}] /\ damage' \subseteq Damage
      BY <1>1, OpensType DEF IndInv
    <2> QED BY <2>1 DEF IndInv, TypeOK, OpenAppend
  <1>3. PendingOpen' /\ Alone'
    BY <1>1, OpensKeeps DEF OpenAppend
  <1> QED BY <1>2, <1>3 DEF IndInv

LEMMA WriteHeaderKeeps ==
    ASSUME IndInv, NEW c \in Captures, WriteHeader(c)
    PROVE  IndInv' /\ ("shared" \notin damage' => IsPrefix(content, content'))
  <1>1. PICK cells \in Seq(Cells) : Writes(c, cells)
    BY HeaderWrites DEF IndInv
  <1>2. TypeOK /\ offset[c] # Closed /\ damage' = damage
    BY DEF IndInv, WriteHeader
  <1>3. content' \in File /\ offset' \in [Captures -> Nat \cup {Closed}]
    BY <1>1, <1>2, WritesType
  <1>4. nextRec \in Records /\ nextRec' \in 1..(MaxRecords + 1)
    BY <1>2, MaxRecordsAssumption DEF TypeOK, WriteHeader, Records
  <1>5. pending' \in [Captures -> Records \cup {0}]
    BY <1>2, <1>4 DEF TypeOK, WriteHeader
  <1>6. TypeOK'
    BY <1>2, <1>3, <1>4, <1>5 DEF TypeOK, WriteHeader, File
  <1>7. offset'[c] # Closed
    <2>1. offset[c] \in Nat
      BY <1>2 DEF TypeOK
    <2>2. offset'[c] = offset[c] + 1
      BY <1>2 DEF TypeOK, WriteHeader
    <2> QED BY <2>1, <2>2 DEF Closed
  <1>8. PendingOpen'
    BY <1>2, <1>7 DEF IndInv, TypeOK, PendingOpen, WriteHeader
  <1> QED BY <1>1, <1>2, <1>6, <1>8, WritesAlone DEF IndInv

(* A payload, whole or in part, after which nothing is pending. *)
LEMMA PayloadKeeps ==
    ASSUME IndInv, NEW c \in Captures, offset[c] # Closed,
           NEW cells \in Seq(Cells), Writes(c, cells),
           pending' = [pending EXCEPT ![c] = 0], damage \subseteq damage'
    PROVE  /\ content' \in File /\ offset' \in [Captures -> Nat \cup {Closed}]
           /\ pending' \in [Captures -> Records \cup {0}]
           /\ PendingOpen' /\ Alone'
           /\ "shared" \notin damage' => IsPrefix(content, content')
  <1>1. TypeOK
    BY DEF IndInv
  <1>2. pending' \in [Captures -> Records \cup {0}]
    BY <1>1 DEF TypeOK
  <1>3. PendingOpen'
    <2> SUFFICES ASSUME NEW d \in Captures, pending'[d] # 0
                 PROVE  offset'[d] # Closed
      BY DEF PendingOpen
    <2>1. d # c /\ pending'[d] = pending[d]
      BY <1>1 DEF TypeOK
    <2>2. offset'[d] = offset[d]
      BY <1>1, <2>1 DEF TypeOK, Writes
    <2> QED BY <2>1, <2>2 DEF IndInv, PendingOpen
  <1> QED BY <1>1, <1>2, <1>3, WritesType, WritesAlone

LEMMA WritePayloadKeeps ==
    ASSUME IndInv, NEW c \in Captures, WritePayload(c)
    PROVE  IndInv' /\ ("shared" \notin damage' => IsPrefix(content, content'))
  <1>1. PICK cells \in Seq(Cells) : Writes(c, cells)
    BY PayloadWrites DEF IndInv
  <1>2. /\ TypeOK /\ offset[c] # Closed /\ damage' = damage
        /\ pending' = [pending EXCEPT ![c] = 0]
    BY DEF IndInv, PendingOpen, WritePayload
  <1>3. pending[c] \in Records
    BY DEF IndInv, TypeOK, WritePayload
  <1>4. written' \in Seq(Records)
    BY <1>2, <1>3, AppendProperties DEF TypeOK, WritePayload
  <1>5. TypeOK'
    BY <1>1, <1>2, <1>4, PayloadKeeps DEF TypeOK, WritePayload, File
  <1> QED BY <1>1, <1>2, <1>5, PayloadKeeps DEF IndInv

LEMMA WriteFailsKeeps ==
    ASSUME IndInv, NEW c \in Captures, WriteFails(c)
    PROVE  /\ IndInv'
           /\ "shared" \notin damage' =>
                 content' = content \/ IsPrefix(content, content')
  <1>1. /\ TypeOK /\ offset[c] # Closed
        /\ damage' = damage \cup {"disk"} /\ damage' \subseteq Damage
        /\ UNCHANGED <<exists, written>>
    BY DEF IndInv, TypeOK, WriteFails
  <1>2. nextRec' \in 1..(MaxRecords + 1)
    BY <1>1, MaxRecordsAssumption DEF TypeOK, WriteFails
  <1>3. CASE UNCHANGED <<content, offset, pending>>
    <2>1. TypeOK'
      BY <1>1, <1>2, <1>3 DEF TypeOK
    <2>2. PendingOpen' /\ Alone'
      BY <1>1, <1>3 DEF IndInv, PendingOpen, Alone, AtEnd
    <2> QED BY <1>3, <2>1, <2>2 DEF IndInv
  <1>4. CASE /\ pending' = [pending EXCEPT ![c] = 0]
             /\ \E cells \in Seq(Cells) : Writes(c, cells)
    <2>1. PICK cells \in Seq(Cells) : Writes(c, cells)
      BY <1>4
    <2>2. damage \subseteq damage'
      BY <1>1
    <2>3. /\ content' \in File /\ offset' \in [Captures -> Nat \cup {Closed}]
          /\ pending' \in [Captures -> Records \cup {0}]
          /\ PendingOpen' /\ Alone'
          /\ "shared" \notin damage' => IsPrefix(content, content')
      BY <1>1, <1>4, <2>1, <2>2, PayloadKeeps
    <2>4. TypeOK'
      BY <1>1, <1>2, <2>3 DEF TypeOK, File
    <2> QED BY <2>3, <2>4 DEF IndInv
  <1> QED BY <1>1, <1>3, <1>4, FailureWrites

LEMMA StopKeeps ==
    ASSUME IndInv, NEW c \in Captures, Stop(c)
    PROVE  IndInv'
  <1>1. /\ damage \subseteq damage' /\ damage' \subseteq Damage
        /\ offset' = [offset EXCEPT ![c] = Closed]
        /\ pending' = [pending EXCEPT ![c] = 0]
        /\ UNCHANGED <<exists, content, nextRec, written>>
    BY DEF IndInv, TypeOK, Stop
  <1>2. TypeOK'
    BY <1>1 DEF IndInv, TypeOK
  <1>3. PendingOpen'
    BY <1>1 DEF IndInv, TypeOK, PendingOpen
  <1>4. ASSUME "shared" \notin damage', NEW d \in Captures PROVE AtEnd(d)'
    <2>1. \A e \in Captures : offset'[e] # Closed => offset'[e] = offset[e]
      BY <1>1 DEF IndInv, TypeOK
    <2> QED BY <1>1, <1>4, <2>1 DEF IndInv, Alone, AtEnd
  <1> QED BY <1>2, <1>3, <1>4 DEF IndInv, Alone

-----------------------------------------------------------------------------
(* The results *)

(* The descriptor of a capture that is alone is at the end of the file. *)
THEOREM Invariance == Spec => []IndInv
  <1>1. Init => IndInv
    <2> SUFFICES ASSUME Init PROVE IndInv
      OBVIOUS
    <2>1. content \in Seq(Cells \cup {Hole}) /\ written \in Seq(Records)
      BY DEF Init
    <2>2. 1 \in 1..(MaxRecords + 1)
      BY MaxRecordsAssumption
    <2>3. TypeOK
      BY <2>1, <2>2 DEF Init, TypeOK
    <2>4. PendingOpen /\ Alone
      BY DEF Init, PendingOpen, Alone, AtEnd
    <2> QED BY <2>3, <2>4 DEF IndInv
  <1>2. IndInv /\ [Next]_vars => IndInv'
    <2>1. CASE IndInv /\ Next
      BY <2>1, CreateKeeps, OpenAppendKeeps, WriteHeaderKeeps, WritePayloadKeeps,
         WriteFailsKeeps, StopKeeps DEF Next
    <2>2. CASE IndInv /\ UNCHANGED vars
      BY <2>2 DEF vars, IndInv, TypeOK, PendingOpen, Alone, AtEnd
    <2> QED BY <2>1, <2>2
  <1> QED BY <1>1, <1>2, PTL DEF Spec

(* The type of the file and its descriptors. *)
THEOREM TypeCorrect == Spec => []TypeOK
  <1>1. IndInv => TypeOK
    BY DEF IndInv
  <1> QED BY <1>1, Invariance, PTL

(* A file is what it begins with. *)
LEMMA PrefixOfItself ==
    ASSUME IndInv
    PROVE  IsPrefix(content, content)
  <1>1. Len(content) \in Nat
    BY LenProperties DEF IndInv, TypeOK
  <1> QED BY <1>1 DEF IsPrefix

(***************************************************************************)
(* A capture that is alone on its file never overwrites what is there,     *)
(* for any number of captures, records, restarts with --append, failed     *)
(* and cut writes: the file only grows until one without --append creates  *)
(* it anew.                                                                *)
(***************************************************************************)
THEOREM FileOnlyGrows == Spec => OnlyGrows
  <1>1. ASSUME IndInv, Next, damage' \subseteq {"cut", "disk"}
        PROVE  content' = <<>> \/ IsPrefix(content, content')
    <2>1. "shared" \notin damage'
      BY <1>1
    <2>2. ASSUME content' = content PROVE IsPrefix(content, content')
      BY <1>1, <2>2, PrefixOfItself
    <2>3. PICK c \in Captures :
             \/ Create(c) \/ OpenAppend(c) \/ WriteHeader(c)
             \/ WritePayload(c) \/ WriteFails(c) \/ Stop(c)
      BY <1>1 DEF Next
    <2>4. CASE Create(c)
      BY <2>4 DEF Create
    <2>5. CASE OpenAppend(c) \/ Stop(c)
      BY <2>2, <2>5 DEF OpenAppend, Stop
    <2>6. CASE WriteHeader(c)
      BY <1>1, <2>1, <2>6, WriteHeaderKeeps
    <2>7. CASE WritePayload(c)
      BY <1>1, <2>1, <2>7, WritePayloadKeeps
    <2>8. CASE WriteFails(c)
      BY <1>1, <2>1, <2>2, <2>8, WriteFailsKeeps
    <2> QED BY <2>3, <2>4, <2>5, <2>6, <2>7, <2>8
  <1>2. IndInv /\ [Next]_vars =>
           [damage' \subseteq {"cut", "disk"} =>
              content' = <<>> \/ IsPrefix(content, content')]_vars
    BY <1>1
  <1> QED BY <1>2, Invariance, PTL DEF Spec, OnlyGrows

-----------------------------------------------------------------------------
(* Reading.  ReadBack is the value at 0 of a recursive function; it is     *)
(* shown first that there is such a function.                              *)

(* A property that is handed down from each number to the one below. *)
LEMMA DownTo ==
    ASSUME NEW low \in Nat, NEW D, D \subseteq Nat, D # {},
           \A n \in D : n >= low,
           \A n \in D : n > low => n - 1 \in D
    PROVE  low \in D
  <1> DEFINE Less == {p \in Nat \X Nat : p[1] < p[2]}
  <1>1. IsWellFoundedOn(Less, Nat)
    BY NatLessThanWellFounded DEF OpToRel
  <1>2. PICK m \in D : \A n \in D : ~(<<n, m>> \in Less)
    <2> HIDE DEF Less
    <2> QED BY <1>1, WFMin
  <1>3. m \in Nat /\ m >= low
    OBVIOUS
  <1>4. CASE m > low
    <2>1. m - 1 \in D /\ m - 1 \in Nat /\ m - 1 < m
      BY <1>3, <1>4
    <2>2. \A y, z \in Nat : y < z => <<y, z>> \in Less
      OBVIOUS
    <2> HIDE DEF Less
    <2> QED BY <1>2, <1>3, <2>1, <2>2
  <1>5. CASE m = low
    BY <1>5
  <1> QED BY <1>3, <1>4, <1>5

(* One call of ldab_pcap_read() at the offset off, and all calls after it. *)
ReadAt(off, read) ==
    IF off + 1 >= Len(content) THEN <<>>
    ELSE LET r == content[off + 1].rec
             end == off + 1 + CapLen(r)
         IN  IF content[off + 1].part # 0 \/ r = 0 \/ end > Len(content)
             THEN <<0>>
             ELSE <<IF SubSeq(content, off + 2, end) = PayloadOf(r)
                    THEN r ELSE 0>> \o read[end]

ReadsFrom(low, read) == read = [off \in low..Len(content) |-> ReadAt(off, read)]

(* What a call returns depends on what is further behind in the file. *)
LEMMA ReadsOnwards ==
    ASSUME content \in File, NEW off \in 0..Len(content), NEW f, NEW g,
           \A e \in (off + 1)..Len(content) : f[e] = g[e]
    PROVE  ReadAt(off, f) = ReadAt(off, g)
  <1>1. Len(content) \in Nat
    BY LenProperties DEF File
  <1>2. CASE off + 1 >= Len(content)
    BY <1>2 DEF ReadAt
  <1>3. CASE ~(off + 1 >= Len(content))
    <2> DEFINE r == content[off + 1].rec
               end == off + 1 + CapLen(r)
    <2>1. off + 1 \in 1..Len(content)
      BY <1>1, <1>3
    <2>2. content[off + 1] \in Cells \cup {Hole}
      BY <2>1, ElementOfSeq DEF File
    <2>3. r \in Nat
      BY <2>2, MaxRecordsAssumption DEF Cells, Hole, Records
    <2>4. CapLen(r) \in 1..2
      BY <2>3, CapLenType
    <2>5. end \in Nat /\ end > off
      BY <1>1, <2>4
    <2>6. ~(end > Len(content)) => end \in (off + 1)..Len(content)
      BY <1>1, <2>5
    <2>7. ~(end > Len(content)) => f[end] = g[end]
      BY <2>6
    <2> QED BY <1>3, <2>7 DEF ReadAt
  <1> QED BY <1>2, <1>3

(* If it can be read from an offset on, then from the one before as well. *)
LEMMA ReadsFromBefore ==
    ASSUME content \in File, NEW low \in 1..Len(content), NEW g, ReadsFrom(low, g)
    PROVE  \E h : ReadsFrom(low - 1, h)
  <1> DEFINE len == Len(content)
             h == [off \in (low - 1)..len |->
                     IF off = low - 1 THEN ReadAt(off, g) ELSE g[off]]
  <1>1. len \in Nat /\ low \in Nat /\ low - 1 \in 0..len
    BY LenProperties DEF File
  <1>2. \A e \in low..len : h[e] = g[e]
    BY <1>1
  <1>3. ASSUME NEW off \in (low - 1)..len PROVE h[off] = ReadAt(off, h)
    <2>1. off \in 0..len
      BY <1>1
    <2>2. \A e \in (off + 1)..len : h[e] = g[e]
      BY <1>1, <1>2
    <2>3. ReadAt(off, h) = ReadAt(off, g)
      <3> HIDE DEF h
      <3> QED BY <2>1, <2>2, ReadsOnwards
    <2>4. CASE off = low - 1
      BY <2>3, <2>4
    <2>5. CASE off # low - 1
      <3>1. off \in low..len
        BY <1>1, <2>5
      <3>2. g[off] = ReadAt(off, g)
        BY <3>1 DEF ReadsFrom
      <3> QED BY <1>2, <2>3, <3>1, <3>2
    <2> QED BY <2>4, <2>5
  <1>4. DOMAIN h = (low - 1)..len /\ h = [off \in (low - 1)..len |-> h[off]]
    OBVIOUS
  <1>5. h = [off \in (low - 1)..len |-> ReadAt(off, h)]
    <2> HIDE DEF h
    <2> QED BY <1>3, <1>4
  <1>6. ReadsFrom(low - 1, h)
    BY <1>5 DEF ReadsFrom
  <1> QED BY <1>6

LEMMA ReadsExists ==
    ASSUME content \in File
    PROVE  \E f : ReadsFrom(0, f)
  <1> DEFINE len == Len(content)
             D == {n \in 0..len : \E f : ReadsFrom(n, f)}
  <1>1. len \in Nat
    BY LenProperties DEF File
  <1>2. len \in D
    <2> DEFINE f == [off \in len..len |-> <<>>]
    <2>1. \A off \in len..len : ReadAt(off, f) = <<>>
      BY <1>1 DEF ReadAt
    <2>2. f = [off \in len..len |-> ReadAt(off, f)]
      BY <2>1
    <2>3. ReadsFrom(len, f)
      BY <2>2 DEF ReadsFrom
    <2> QED BY <1>1, <2>3
  <1>3. D \subseteq Nat /\ \A n \in D : n >= 0
    BY <1>1
  <1>4. \A n \in D : n > 0 => n - 1 \in D
    BY <1>1, ReadsFromBefore
  <1>5. 0 \in D
    <2> HIDE DEF D
    <2> QED BY <1>2, <1>3, <1>4, DownTo
  <1> QED BY <1>5

(* ReadBack is what a function with that recursion has at 0. *)
LEMMA ReadBackUnfolds ==
    ASSUME content \in File
    PROVE  \E f : ReadsFrom(0, f) /\ ReadBack = f[0]
  <1> DEFINE f == CHOOSE g : ReadsFrom(0, g)
  <1>1. ReadsFrom(0, f)
    BY ReadsExists, Zenon
  <1>2. ReadBack = f[0]
    BY DEF ReadBack, ReadsFrom, ReadAt
  <1> QED BY <1>1, <1>2

-----------------------------------------------------------------------------
(* The layout of an undamaged file: each record's header and payload, from *)
(* the offset pos gives it to the one of the next record.                  *)

RecordAt(file, off, r) ==
    /\ file[off + 1] = [rec |-> r, part |-> 0]
    /\ \A p \in 1..CapLen(r) : file[off + 1 + p] = [rec |-> r, part |-> p]

Laid(pos, recs, file) ==
    /\ pos \in [1..(Len(recs) + 1) -> 0..Len(file)]
    /\ pos[1] = 0
    /\ \A k \in 1..Len(recs) :
          /\ pos[k + 1] = pos[k] + 1 + CapLen(recs[k])
          /\ RecordAt(file, pos[k], recs[k])

(* Behind the last record there is nothing, or the header of the record    *)
(* that a capture is writing.                                              *)
Ends(last) ==
    \/ /\ \A c \in Captures : pending[c] = 0
       /\ last = Len(content)
    \/ \E c \in Captures :
          /\ pending[c] # 0
          /\ last + 1 = Len(content)
          /\ content[Len(content)] = [rec |-> pending[c], part |-> 0]

Layout == \E pos : Laid(pos, written, content) /\ Ends(pos[Len(written) + 1])

FileInv ==
    /\ content = <<>> => written = <<>>
    /\ damage = {} => Layout

LEMMA LaidLonger ==
    ASSUME NEW recs \in Seq(Records), NEW old \in File, NEW new \in File,
           NEW pos, Laid(pos, recs, old),
           Len(old) <= Len(new), \A n \in 1..Len(old) : new[n] = old[n]
    PROVE  Laid(pos, recs, new)
  <1>1. Len(old) \in Nat /\ Len(new) \in Nat /\ Len(recs) \in Nat
    BY LenProperties DEF File
  <1>2. pos \in [1..(Len(recs) + 1) -> 0..Len(old)]
    BY DEF Laid
  <1>3. pos \in [1..(Len(recs) + 1) -> 0..Len(new)]
    <2>1. 0..Len(old) \subseteq 0..Len(new)
      BY <1>1
    <2> QED BY <1>2, <2>1
  <1>4. ASSUME NEW k \in 1..Len(recs) PROVE RecordAt(new, pos[k], recs[k])
    <2>1. /\ pos[k + 1] = pos[k] + 1 + CapLen(recs[k])
          /\ RecordAt(old, pos[k], recs[k])
      BY DEF Laid
    <2>2. pos[k] \in 0..Len(old) /\ pos[k + 1] \in 0..Len(old)
      <3>1. k \in 1..(Len(recs) + 1) /\ k + 1 \in 1..(Len(recs) + 1)
        BY <1>1
      <3> QED BY <1>2, <3>1
    <2>3. recs[k] \in Nat
      BY <1>1, ElementOfSeq, MaxRecordsAssumption DEF Records
    <2>4. CapLen(recs[k]) \in 1..2
      BY <2>3, CapLenType
    <2>5. pos[k] + 1 \in 1..Len(old)
      BY <1>1, <2>1, <2>2, <2>4
    <2>6. \A p \in 1..CapLen(recs[k]) : pos[k] + 1 + p \in 1..Len(old)
      BY <1>1, <2>1, <2>2, <2>4
    <2> QED BY <2>1, <2>5, <2>6 DEF RecordAt
  <1> QED BY <1>3, <1>4 DEF Laid

LEMMA LaidOneMore ==
    ASSUME NEW recs \in Seq(Records), NEW file \in File, NEW r \in Records,
           NEW pos, Laid(pos, recs, file),
           RecordAt(file, pos[Len(recs) + 1], r),
           Len(file) = pos[Len(recs) + 1] + 1 + CapLen(r)
    PROVE  \E q : Laid(q, Append(recs, r), file) /\ q[Len(recs) + 2] = Len(file)
  <1> DEFINE n == Len(recs)
             more == Append(recs, r)
             q == [k \in 1..(n + 2) |-> IF k = n + 2 THEN Len(file) ELSE pos[k]]
  <1>1. Len(file) \in Nat /\ n \in Nat
    BY LenProperties DEF File
  <1>2. /\ Len(more) = n + 1 /\ more[n + 1] = r
        /\ \A k \in 1..n : more[k] = recs[k]
    BY AppendProperties
  <1>3. pos \in [1..(n + 1) -> 0..Len(file)] /\ pos[1] = 0
    BY DEF Laid
  <1>4. \A k \in 1..(n + 1) : q[k] = pos[k]
    BY <1>1
  <1>5. q[n + 2] = Len(file)
    BY <1>1
  <1>6. q \in [1..(n + 2) -> 0..Len(file)]
    <2>1. ASSUME NEW k \in 1..(n + 2)
          PROVE  (IF k = n + 2 THEN Len(file) ELSE pos[k]) \in 0..Len(file)
      <3>1. k # n + 2 => k \in 1..(n + 1)
        BY <1>1
      <3> QED BY <1>1, <1>3, <3>1
    <2> QED BY <2>1
  <1>7. q[1] = 0
    <2>1. 1 \in 1..(n + 1)
      BY <1>1
    <2> QED BY <1>3, <1>4, <2>1
  <1> HIDE DEF q
  <1>8. ASSUME NEW k \in 1..(n + 1)
        PROVE  q[k + 1] = q[k] + 1 + CapLen(more[k]) /\ RecordAt(file, q[k], more[k])
    <2>1. CASE k = n + 1
      <3>1. q[k + 1] = Len(file) /\ q[k] = pos[n + 1] /\ more[k] = r
        BY <1>1, <1>2, <1>4, <1>5, <2>1
      <3> QED BY <3>1
    <2>2. CASE k # n + 1
      <3>1. k \in 1..n /\ k + 1 \in 1..(n + 1)
        BY <1>1, <2>2
      <3>2. q[k + 1] = pos[k + 1] /\ q[k] = pos[k] /\ more[k] = recs[k]
        BY <1>2, <1>4, <3>1
      <3> QED BY <3>1, <3>2 DEF Laid
    <2> QED BY <2>1, <2>2
  <1>9. Laid(q, more, file)
    <2>1. Len(more) + 1 = n + 2
      BY <1>1, <1>2
    <2> HIDE DEF more
    <2>2. q \in [1..(Len(more) + 1) -> 0..Len(file)]
      BY <1>6, <2>1
    <2>3. \A k \in 1..Len(more) :
             q[k + 1] = q[k] + 1 + CapLen(more[k]) /\ RecordAt(file, q[k], more[k])
      BY <1>2, <1>8
    <2> QED BY <1>7, <2>2, <2>3 DEF Laid
  <1> QED BY <1>5, <1>9

(* An empty file is laid out. *)
LEMMA LaidEmpty == \E pos : Laid(pos, <<>>, <<>>) /\ pos[1] = 0
  <1> DEFINE pos == [k \in 1..1 |-> 0]
  <1>1. Len(<<>>) = 0
    OBVIOUS
  <1>2. pos \in [1..(Len(<<>>) + 1) -> 0..Len(<<>>)] /\ pos[1] = 0
    BY <1>1
  <1>3. Laid(pos, <<>>, <<>>)
    BY <1>1, <1>2 DEF Laid
  <1> QED BY <1>2, <1>3

(* A write never makes the file shorter, and it reaches to its end. *)
LEMMA OverwrittenLonger ==
    ASSUME content \in File, NEW off \in Nat, NEW cells \in Seq(Cells)
    PROVE  /\ Len(Overwritten(off, cells)) >= Len(content)
           /\ Len(Overwritten(off, cells)) >= off + Len(cells)
  <1> DEFINE end == off + Len(cells)
             len == IF end > Len(content) THEN end ELSE Len(content)
             new == Overwritten(off, cells)
  <1>1. Len(content) \in Nat /\ Len(cells) \in Nat
    BY LenProperties DEF File
  <1>2. DOMAIN new = 1..len
    BY DEF Overwritten
  <1>3. new \in File
    BY OverwrittenType
  <1>4. Len(new) \in Nat /\ DOMAIN new = 1..Len(new)
    <2> HIDE DEF new
    <2> QED BY <1>3, LenProperties DEF File
  <1>5. len \in Nat /\ len >= Len(content) /\ len >= end
    BY <1>1
  <1>6. Len(new) = len
    <2> HIDE DEF new, len
    <2> QED BY <1>2, <1>4, <1>5
  <1> HIDE DEF new, len
  <1> QED BY <1>5, <1>6 DEF new

(* The cells added at the end of the file. *)
LEMMA AddedCells ==
    ASSUME content \in File, NEW cells \in Seq(Cells),
           content' = Overwritten(Len(content), cells)
    PROVE  /\ content' \in File
           /\ Len(content') = Len(content) + Len(cells)
           /\ \A n \in 1..Len(content) : content'[n] = content[n]
           /\ \A p \in 1..Len(cells) : content'[Len(content) + p] = cells[p]
  <1>1. Len(content) \in Nat /\ Len(cells) \in Nat
    BY LenProperties DEF File
  <1>2. content' \in File
    BY <1>1, OverwrittenType
  <1>3. Len(content') = Len(content) + Len(cells)
    BY WrittenAtEnd
  <1>4. \A n \in 1..Len(content) : content'[n] = content[n]
    BY <1>1 DEF Overwritten
  <1>5. ASSUME NEW p \in 1..Len(cells) PROVE content'[Len(content) + p] = cells[p]
    <2> DEFINE n == Len(content) + p
    <2>1. /\ n \in 1..(Len(content) + Len(cells)) /\ n > Len(content)
          /\ n <= Len(content) + Len(cells) /\ n - Len(content) = p
      BY <1>1
    <2>2. content'[n] = cells[n - Len(content)]
      BY <1>1, <2>1 DEF Overwritten
    <2> QED BY <2>1, <2>2
  <1> QED BY <1>2, <1>3, <1>4, <1>5

(* Nothing is pending on a file that nobody has open; a file that is not   *)
(* shared has one writer, at its end.                                      *)
LEMMA NobodyPending ==
    ASSUME IndInv, \A d \in Captures : offset[d] = Closed
    PROVE  \A d \in Captures : pending[d] = 0
  BY DEF IndInv, PendingOpen

LEMMA OneWriter ==
    ASSUME IndInv, damage = {}, NEW c \in Captures, offset[c] # Closed
    PROVE  /\ offset[c] = Len(content)
           /\ \A d \in Captures : d # c => pending[d] = 0
  <1>1. AtEnd(c)
    BY DEF IndInv, Alone
  <1> QED BY <1>1 DEF AtEnd, IndInv, PendingOpen

-----------------------------------------------------------------------------
(* Every call keeps the layout. *)

LEMMA CreateLaid ==
    ASSUME IndInv, NEW c \in Captures, Create(c)
    PROVE  FileInv'
  <1>1. content' = <<>> /\ written' = <<>> /\ pending' = pending
    BY DEF Create
  <1>2. ASSUME damage' = {} PROVE Layout'
    <2>1. \A d \in Captures : offset[d] = Closed
      BY <1>2 DEF Create, Opens
    <2>2. \A d \in Captures : pending'[d] = 0
      BY <1>1, <2>1, NobodyPending
    <2>3. PICK pos : Laid(pos, <<>>, <<>>) /\ pos[1] = 0
      BY LaidEmpty
    <2>4. Ends(pos[Len(<<>>) + 1])'
      BY <1>1, <2>2, <2>3 DEF Ends
    <2> QED BY <1>1, <2>3, <2>4 DEF Layout
  <1> QED BY <1>1, <1>2 DEF FileInv

LEMMA OpenAppendLaid ==
    ASSUME IndInv, FileInv, NEW c \in Captures, OpenAppend(c)
    PROVE  FileInv'
  <1>1. UNCHANGED <<content, written, pending>>
    BY DEF OpenAppend
  <1>2. ASSUME damage' = {} PROVE Layout'
    <2>1. \A d \in Captures : offset[d] = Closed
      BY <1>2 DEF OpenAppend, Opens
    <2>2. \A d \in Captures : pending[d] = 0
      BY <2>1, NobodyPending
    <2>3. CASE content = <<>>
      <3>1. PICK pos : Laid(pos, <<>>, <<>>) /\ pos[1] = 0
        BY LaidEmpty
      <3>2. Ends(pos[Len(<<>>) + 1])
        BY <2>2, <2>3, <3>1 DEF Ends
      <3>3. Layout
        BY <2>3, <3>1, <3>2 DEF Layout, FileInv
      <3> QED BY <1>1, <3>3 DEF Layout, Ends
    <2>4. CASE content # <<>>
      <3>1. damage = {}
        BY <1>1, <1>2, <2>4 DEF OpenAppend, Opens
      <3>2. Layout
        BY <3>1 DEF FileInv
      <3> QED BY <1>1, <3>2 DEF Layout, Ends
    <2> QED BY <2>3, <2>4
  <1> QED BY <1>1, <1>2 DEF FileInv

LEMMA WriteHeaderLaid ==
    ASSUME IndInv, FileInv, NEW c \in Captures, WriteHeader(c)
    PROVE  FileInv'
  <1> DEFINE cells == HeaderOf(nextRec)
  <1>1. /\ content' = Overwritten(offset[c], cells)
        /\ pending' = [pending EXCEPT ![c] = nextRec]
        /\ written' = written /\ damage' = damage
        /\ offset[c] # Closed /\ pending[c] = 0
    BY DEF WriteHeader
  <1>2. /\ nextRec \in Records /\ nextRec # 0
        /\ content \in File /\ written \in Seq(Records) /\ offset[c] \in Nat
        /\ pending \in [Captures -> Records \cup {0}]
    BY <1>1, MaxRecordsAssumption DEF IndInv, TypeOK, File, WriteHeader, Records
  <1>3. cells \in Seq(Cells) /\ Len(cells) = 1 /\ cells[1] = [rec |-> nextRec, part |-> 0]
    <2>1. cells[1] = [rec |-> nextRec, part |-> 0]
      BY DEF HeaderOf
    <2> QED BY <1>2, <2>1, WrittenTypes
  <1> HIDE DEF cells
  <1>4. content' # <<>>
    <2>1. Len(content') >= offset[c] + Len(cells)
      BY <1>1, <1>2, <1>3, OverwrittenLonger
    <2> QED BY <1>2, <1>3, <2>1
  <1>5. ASSUME damage' = {} PROVE Layout'
    <2>1. /\ offset[c] = Len(content)
          /\ \A d \in Captures : d # c => pending[d] = 0
      BY <1>1, <1>5, OneWriter
    <2>2. \A d \in Captures : pending[d] = 0
      BY <1>1, <2>1
    <2>3. PICK pos : /\ Laid(pos, written, content)
                     /\ Ends(pos[Len(written) + 1])
      BY <1>1, <1>5 DEF FileInv, Layout
    <2>4. /\ content' \in File
          /\ Len(content') = Len(content) + 1
          /\ \A n \in 1..Len(content) : content'[n] = content[n]
          /\ content'[Len(content) + 1] = [rec |-> nextRec, part |-> 0]
      <3>1. 1 \in 1..Len(cells)
        BY <1>3
      <3> QED BY <1>1, <1>2, <1>3, <2>1, <3>1, AddedCells
    <2>5. Len(content) \in Nat /\ Len(content) <= Len(content')
      BY <1>2, <2>4, LenProperties DEF File
    <2>6. Laid(pos, written, content')
      BY <1>2, <2>3, <2>4, <2>5, LaidLonger
    <2>7. pos[Len(written) + 1] = Len(content)
      BY <2>2, <2>3 DEF Ends
    <2>8. pending'[c] = nextRec
      BY <1>1, <1>2
    <2>9. Ends(pos[Len(written) + 1])'
      <3>1. /\ pending'[c] # 0
            /\ pos[Len(written')+ 1] + 1 = Len(content')
            /\ content'[Len(content')] = [rec |-> pending'[c], part |-> 0]
        BY <1>1, <1>2, <2>4, <2>7, <2>8
      <3> QED BY <3>1 DEF Ends
    <2> QED BY <1>1, <2>6, <2>9 DEF Layout
  <1> QED BY <1>4, <1>5 DEF FileInv

LEMMA WritePayloadLaid ==
    ASSUME IndInv, FileInv, NEW c \in Captures, WritePayload(c)
    PROVE  FileInv'
  <1> DEFINE r == pending[c]
             cells == PayloadOf(r)
  <1>1. /\ content' = Overwritten(offset[c], cells)
        /\ pending' = [pending EXCEPT ![c] = 0]
        /\ written' = Append(written, r) /\ damage' = damage
        /\ r # 0 /\ offset[c] # Closed
    BY DEF WritePayload, IndInv, PendingOpen
  <1>2. /\ r \in Records
        /\ content \in File /\ written \in Seq(Records) /\ offset[c] \in Nat
        /\ pending \in [Captures -> Records \cup {0}]
    BY <1>1 DEF IndInv, TypeOK, File
  <1>3. /\ cells \in Seq(Cells) /\ Len(cells) = CapLen(r) /\ CapLen(r) \in 1..2
        /\ \A p \in 1..CapLen(r) : cells[p] = [rec |-> r, part |-> p]
    <2>1. \A p \in 1..CapLen(r) : cells[p] = [rec |-> r, part |-> p]
      BY DEF PayloadOf
    <2> QED BY <1>2, <2>1, WrittenTypes
  <1> HIDE DEF cells, r
  <1>4. content' # <<>>
    <2>1. Len(content') >= offset[c] + Len(cells)
      BY <1>1, <1>2, <1>3, OverwrittenLonger
    <2> QED BY <1>2, <1>3, <2>1
  <1>5. ASSUME damage' = {} PROVE Layout'
    <2> DEFINE n == Len(written)
               old == Len(content)
    <2>1. /\ offset[c] = old
          /\ \A d \in Captures : d # c => pending[d] = 0
      BY <1>1, <1>5, OneWriter
    <2>2. PICK pos : Laid(pos, written, content) /\ Ends(pos[n + 1])
      BY <1>1, <1>5 DEF FileInv, Layout
    <2>3. pos[n + 1] + 1 = old /\ content[old] = [rec |-> r, part |-> 0]
      BY <1>1, <2>1, <2>2 DEF Ends, r
    <2>4. n \in Nat /\ old \in Nat /\ pos[n + 1] \in 0..old
      <3>1. n \in Nat /\ old \in Nat
        BY <1>2, LenProperties DEF File
      <3>2. n + 1 \in 1..(n + 1)
        BY <3>1
      <3> QED BY <2>2, <3>1, <3>2 DEF Laid
    <2>5. /\ content' \in File
          /\ Len(content') = old + CapLen(r)
          /\ \A m \in 1..old : content'[m] = content[m]
          /\ \A p \in 1..CapLen(r) : content'[old + p] = [rec |-> r, part |-> p]
      BY <1>1, <1>2, <1>3, <2>1, AddedCells
    <2>6. old <= Len(content')
      BY <1>3, <2>4, <2>5
    <2>7. Laid(pos, written, content')
      BY <1>2, <2>2, <2>5, <2>6, LaidLonger
    <2>8. RecordAt(content', pos[n + 1], r)
      <3>1. old \in 1..old /\ content'[pos[n + 1] + 1] = content[old]
        BY <2>3, <2>4, <2>5
      <3> QED BY <2>3, <2>5, <3>1 DEF RecordAt
    <2>9. PICK q : Laid(q, Append(written, r), content') /\ q[n + 2] = Len(content')
      <3>1. Len(content') = pos[n + 1] + 1 + CapLen(r)
        BY <2>3, <2>5
      <3> QED BY <1>2, <2>5, <2>7, <2>8, <3>1, LaidOneMore
    <2>10. q[Len(written') + 1] = Len(content')
      <3>1. Len(written') = n + 1
        BY <1>1, <1>2, AppendProperties
      <3>2. Len(written') + 1 = n + 2
        BY <2>4, <3>1
      <3> QED BY <2>9, <3>2
    <2>11. \A d \in Captures : pending'[d] = 0
      BY <1>1, <1>2, <2>1
    <2>12. Ends(q[Len(written) + 1])'
      BY <2>10, <2>11 DEF Ends
    <2> QED BY <1>1, <2>9, <2>12 DEF Layout
  <1> QED BY <1>4, <1>5 DEF FileInv

LEMMA WriteFailsLaid ==
    ASSUME IndInv, FileInv, NEW c \in Captures, WriteFails(c)
    PROVE  FileInv'
  <1>1. "disk" \in damage' /\ written' = written /\ offset[c] # Closed
    BY DEF WriteFails
  <1>2. content' = <<>> => content = <<>>
    <2>1. CASE content' = content
      BY <2>1
    <2>2. CASE \E cells \in Seq(Cells) : Writes(c, cells)
      <3>1. PICK cells \in Seq(Cells) : Writes(c, cells)
        BY <2>2
      <3>2. content \in File /\ offset[c] \in Nat
        BY <1>1 DEF IndInv, TypeOK, File
      <3>3. Len(content') >= Len(content)
        BY <3>1, <3>2, OverwrittenLonger DEF Writes
      <3>4. Len(content) \in Nat /\ (Len(content) = 0 => content = <<>>)
        BY <3>2, LenProperties, EmptySeq DEF File
      <3> QED BY <3>3, <3>4
    <2> QED BY <2>1, <2>2, FailureWrites DEF IndInv
  <1> QED BY <1>1, <1>2 DEF FileInv

LEMMA StopLaid ==
    ASSUME IndInv, FileInv, NEW c \in Captures, Stop(c)
    PROVE  FileInv'
  <1>1. UNCHANGED <<content, written>>
    BY DEF Stop
  <1>2. ASSUME damage' = {} PROVE Layout'
    <2>1. damage = {} /\ pending[c] = 0
      BY <1>2 DEF Stop
    <2>2. pending' = pending
      BY <2>1 DEF Stop, IndInv, TypeOK
    <2>3. Layout
      BY <2>1 DEF FileInv
    <2> QED BY <1>1, <2>2, <2>3 DEF Layout, Ends
  <1> QED BY <1>1, <1>2 DEF FileInv

(***************************************************************************)
(* As long as no record was cut, no write failed and the captures had the  *)
(* file one after the other, it is laid out record by record: what the     *)
(* captures leave behind them, however often they are stopped and appended *)
(* to, is headers that are followed by as much payload as they announce.   *)
(***************************************************************************)
THEOREM LaidOut == Spec => []FileInv
  <1>1. Init => FileInv
    <2> SUFFICES ASSUME Init PROVE FileInv
      OBVIOUS
    <2>1. content = <<>> /\ written = <<>> /\ \A c \in Captures : pending[c] = 0
      BY DEF Init
    <2>2. PICK pos : Laid(pos, <<>>, <<>>) /\ pos[1] = 0
      BY LaidEmpty
    <2>3. Ends(pos[Len(<<>>) + 1])
      BY <2>1, <2>2 DEF Ends
    <2> QED BY <2>1, <2>2, <2>3 DEF Layout, FileInv
  <1>2. IndInv /\ FileInv /\ [Next]_vars => FileInv'
    <2>1. CASE IndInv /\ FileInv /\ Next
      BY <2>1, CreateLaid, OpenAppendLaid, WriteHeaderLaid, WritePayloadLaid,
         WriteFailsLaid, StopLaid DEF Next
    <2>2. CASE IndInv /\ FileInv /\ UNCHANGED vars
      BY <2>2 DEF vars, FileInv, Layout, Ends
    <2> QED BY <2>1, <2>2
  <1> QED BY <1>1, <1>2, Invariance, PTL DEF Spec

-----------------------------------------------------------------------------
(* What is laid out reads back. *)

(* A record that is whole is read, and reading goes on behind it. *)
LEMMA ReadsRecord ==
    ASSUME content \in File, NEW f, ReadsFrom(0, f),
           NEW off \in Nat, NEW r \in Records, RecordAt(content, off, r),
           off + 1 + CapLen(r) <= Len(content)
    PROVE  f[off] = <<r>> \o f[off + 1 + CapLen(r)]
  <1> DEFINE end == off + 1 + CapLen(r)
  <1>1. Len(content) \in Nat /\ CapLen(r) \in 1..2 /\ r # 0
    BY WrittenTypes, LenProperties, MaxRecordsAssumption DEF File, Records
  <1>2. off \in 0..Len(content) /\ ~(off + 1 >= Len(content)) /\ ~(end > Len(content))
    BY <1>1
  <1>3. content[off + 1].rec = r /\ content[off + 1].part = 0
    BY DEF RecordAt
  <1>4. SubSeq(content, off + 2, end) = PayloadOf(r)
    <2> DEFINE s == SubSeq(content, off + 2, end)
    <2>1. /\ off + 2 \in 1..Len(content) /\ end \in 1..Len(content)
          /\ end - (off + 2) + 1 = CapLen(r)
      BY <1>1
    <2>2. s = [i \in 1..CapLen(r) |-> content[i + (off + 2) - 1]]
      <3>1. \A a, b \in 1..Len(content) :
               SubSeq(content, a, b) = [i \in 1..(b - a + 1) |-> content[i + a - 1]]
        BY <1>1 DEF File
      <3> QED BY <2>1, <3>1
    <2>3. \A i \in 1..CapLen(r) : content[i + (off + 2) - 1] = [rec |-> r, part |-> i]
      <3>1. \A i \in 1..CapLen(r) : i + (off + 2) - 1 = off + 1 + i
        BY <1>1
      <3> QED BY <3>1 DEF RecordAt
    <2> QED BY <2>2, <2>3 DEF PayloadOf
  <1>5. f[off] = ReadAt(off, f)
    BY <1>2 DEF ReadsFrom
  <1> QED BY <1>1, <1>2, <1>3, <1>4, <1>5 DEF ReadAt

(* The rest of a sequence from one place on. *)
LEMMA RestFrom ==
    ASSUME NEW S, NEW seq \in Seq(S), NEW k \in 1..Len(seq)
    PROVE  <<seq[k]>> \o SubSeq(seq, k + 1, Len(seq)) = SubSeq(seq, k, Len(seq))
  <1> DEFINE n == Len(seq)
             tail == SubSeq(seq, k + 1, n)
             whole == SubSeq(seq, k, n)
  <1>1. n \in Nat /\ k \in Nat /\ seq[k] \in S
    BY LenProperties, ElementOfSeq
  <1>2. /\ tail \in Seq(S) /\ Len(tail) = n - k
        /\ \A i \in 1..(n - k) : tail[i] = seq[k + i]
    BY <1>1, \A i \in 1..(n - k) : i + (k + 1) - 1 = k + i
  <1>3. /\ whole \in Seq(S) /\ Len(whole) = n - k + 1
        /\ \A i \in 1..(n - k + 1) : whole[i] = seq[k + i - 1]
    BY <1>1
  <1> HIDE DEF tail, whole
  <1> DEFINE head == <<seq[k]>>
             joined == head \o tail
  <1>4. head \in Seq(S) /\ Len(head) = 1 /\ head[1] = seq[k]
    BY <1>1
  <1> HIDE DEF head
  <1>5. /\ joined \in Seq(S) /\ Len(joined) = 1 + (n - k)
        /\ \A i \in 1..(1 + (n - k)) :
              joined[i] = IF i <= 1 THEN head[i] ELSE tail[i - 1]
    <2>1. /\ joined \in Seq(S) /\ Len(joined) = Len(head) + Len(tail)
          /\ \A i \in 1..(Len(head) + Len(tail)) :
                joined[i] = IF i <= Len(head) THEN head[i] ELSE tail[i - Len(head)]
      BY <1>2, <1>4, ConcatProperties
    <2> HIDE DEF joined
    <2> QED BY <1>2, <1>4, <2>1
  <1> HIDE DEF joined
  <1>6. ASSUME NEW i \in 1..(n - k + 1) PROVE joined[i] = whole[i]
    <2>1. i \in 1..(1 + (n - k))
      BY <1>1
    <2>2. CASE i = 1
      <3>1. joined[1] = head[1] /\ whole[1] = seq[k + 1 - 1] /\ k + 1 - 1 = k
        BY <1>1, <1>3, <1>5, <2>1, <2>2
      <3> QED BY <1>4, <2>2, <3>1
    <2>3. CASE i # 1
      <3>1. i - 1 \in 1..(n - k) /\ ~(i <= 1) /\ k + (i - 1) = k + i - 1
        BY <1>1, <2>3
      <3> QED BY <1>2, <1>3, <1>5, <2>1, <3>1
    <2> QED BY <2>2, <2>3
  <1>7. joined = whole
    <2>1. Len(joined) = Len(whole)
      BY <1>1, <1>3, <1>5
    <2> QED BY <1>3, <1>5, <1>6, <2>1, SeqEqual
  <1> QED BY <1>7 DEF joined, head, tail, whole

LEMMA LaidReadsBack ==
    ASSUME IndInv, NEW pos, Laid(pos, written, content),
           pos[Len(written) + 1] = Len(content)
    PROVE  ReadBack = written
  <1> DEFINE n == Len(written)
  <1>1. /\ content \in File /\ written \in Seq(Records)
        /\ Len(content) \in Nat /\ n \in Nat
    BY LenProperties DEF IndInv, TypeOK, File
  <1>2. PICK f : ReadsFrom(0, f) /\ ReadBack = f[0]
    BY <1>1, ReadBackUnfolds
  <1> DEFINE K == {k \in 1..(n + 1) : f[pos[k]] = SubSeq(written, k, n)}
  <1>3. n + 1 \in K
    <2>1. f[Len(content)] = ReadAt(Len(content), f)
      BY <1>1, <1>2 DEF ReadsFrom
    <2>2. ReadAt(Len(content), f) = <<>>
      BY <1>1 DEF ReadAt
    <2>3. SubSeq(written, n + 1, n) = <<>>
      BY <1>1
    <2>4. n + 1 \in 1..(n + 1)
      BY <1>1
    <2> QED BY <2>1, <2>2, <2>3, <2>4
  <1>4. ASSUME NEW k \in 1..n, k + 1 \in K PROVE k \in K
    <2> DEFINE r == written[k]
    <2>1. k \in 1..(n + 1) /\ k + 1 \in 1..(n + 1)
      BY <1>1
    <2>2. /\ pos[k] \in 0..Len(content) /\ pos[k + 1] \in 0..Len(content)
          /\ pos[k + 1] = pos[k] + 1 + CapLen(r)
          /\ RecordAt(content, pos[k], r)
      BY <2>1 DEF Laid
    <2>3. r \in Records
      BY <1>1, ElementOfSeq
    <2>4. f[pos[k]] = <<r>> \o f[pos[k + 1]]
      <3>1. pos[k] \in Nat /\ pos[k] + 1 + CapLen(r) <= Len(content)
        BY <1>1, <2>2
      <3> HIDE DEF r
      <3>2. f[pos[k]] = <<r>> \o f[pos[k] + 1 + CapLen(r)]
        BY <1>1, <1>2, <2>2, <2>3, <3>1, ReadsRecord
      <3> QED BY <2>2, <3>2
    <2>5. <<r>> \o SubSeq(written, k + 1, n) = SubSeq(written, k, n)
      BY <1>1, RestFrom
    <2> QED BY <1>4, <2>1, <2>4, <2>5
  <1>5. 1 \in K
    <2>1. K \subseteq Nat /\ \A k \in K : k >= 1
      BY <1>1
    <2>2. ASSUME NEW k \in K, k > 1 PROVE k - 1 \in K
      <3>1. k - 1 \in 1..n /\ (k - 1) + 1 = k
        BY <1>1, <2>2
      <3> HIDE DEF K
      <3> QED BY <1>4, <2>2, <3>1
    <2> HIDE DEF K
    <2> QED BY <1>3, <2>1, <2>2, DownTo
  <1>6. f[0] = SubSeq(written, 1, n)
    BY <1>5 DEF Laid
  <1>7. SubSeq(written, 1, n) = written
    BY <1>1
  <1> QED BY <1>2, <1>6, <1>7

(***************************************************************************)
(* What ldab_pcap_write() wrote, ldab_pcap_read() reads back, for any      *)
(* number of captures and records: between two records, every packet in    *)
(* the order it was captured and none besides, however often the capture   *)
(* was stopped and the file appended to, as long as no record was cut, no  *)
(* write failed and no two captures had the file open at once.             *)
(***************************************************************************)
THEOREM FileReadsBack == Spec => []UndamagedFileReadsBack
  <1>1. ASSUME IndInv, FileInv PROVE UndamagedFileReadsBack
    <2> SUFFICES ASSUME damage = {}, \A c \in Captures : pending[c] = 0
                 PROVE  ReadBack = written
      BY DEF UndamagedFileReadsBack, AppendedFileReadsBack
    <2>1. PICK pos : Laid(pos, written, content) /\ Ends(pos[Len(written) + 1])
      BY <1>1 DEF FileInv, Layout
    <2>2. pos[Len(written) + 1] = Len(content)
      BY <2>1 DEF Ends
    <2> QED BY <1>1, <2>1, <2>2, LaidReadsBack
  <1> QED BY <1>1, Invariance, LaidOut, PTL

=============================================================================
