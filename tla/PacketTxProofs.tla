---------------------------- MODULE PacketTxProofs ----------------------------
(***************************************************************************)
(* A replay sends each record it has read once, and a regular one sends    *)
(* the file in order, for rings and files of every size.                   *)
(***************************************************************************)
EXTENDS PacketTx, FiniteSetTheorems, TLAPS

-----------------------------------------------------------------------------
(* The inductive invariant: a slot in use holds a record, and the records  *)
(* that wait are counted.                                                  *)

(* The slots in which a record waits. *)
Waiting(r) ==
    {s \in Slots : status[s] \in {"SEND_REQUEST", "WRONG_FORMAT"} /\ rec[s] = r}

Filled == \A s \in Slots : status[s] # "AVAILABLE" => rec[s] # 0

IndInv == TypeOK /\ Filled /\ SentOnce

LEMMA SentOnceWaiting ==
    SentOnce <=> \A r \in 1..records : owed[r] = Cardinality(Waiting(r))
  BY DEF SentOnce, Waiting

LEMMA SentOnceWaitingNext ==
    SentOnce' <=> \A r \in 1..records' : owed'[r] = Cardinality(Waiting(r)')
  BY DEF SentOnce, Waiting

LEMMA WaitingFinite ==
    ASSUME NEW r
    PROVE  IsFiniteSet(Waiting(r)) /\ Cardinality(Waiting(r)) \in Nat
  <1>1. IsFiniteSet(Slots)
    BY FrameNrAssumption, FS_Interval DEF Slots
  <1>2. Waiting(r) \in SUBSET Slots
    BY DEF Waiting
  <1> QED BY <1>1, <1>2, FS_Subset, FS_CardinalityType

LEMMA InitInv == Init => IndInv
  <1> SUFFICES ASSUME Init PROVE IndInv
    OBVIOUS
  <1>1. TypeOK
    <2>1. records \in 1..MaxRecords /\ records \in Nat \ {0} /\ 0 \in Slots
      BY FrameNrAssumption, MaxRecordsAssumption DEF Init, Slots
    <2>2. tooLong \subseteq 1..records
      BY <2>1 DEF Init
    <2>3. a \in 0..FrameNr /\ pos \in 1..(records + 1) /\ last \in 0..records
      BY <2>1, FrameNrAssumption DEF Init
    <2> QED BY <2>1, <2>2, <2>3 DEF Init, TypeOK
  <1>2. Filled
    BY DEF Init, Filled
  <1>3. \A r : Waiting(r) = {}
    BY DEF Init, Waiting
  <1>4. \A r \in 1..records : owed[r] = 0
    BY DEF Init
  <1> QED BY <1>1, <1>2, <1>3, <1>4, FS_EmptySet, SentOnceWaiting DEF IndInv

(* A step after which the same records wait in the same slots. *)
LEMMA NothingMoves ==
    ASSUME IndInv, TypeOK', Filled', UNCHANGED <<records, owed>>,
           \A r \in 1..records : Waiting(r)' = Waiting(r)
    PROVE  IndInv'
  BY SentOnceWaiting, SentOnceWaitingNext DEF IndInv

(* A record is read into a slot that was free. *)
LEMMA FillReadsInv ==
    ASSUME IndInv, FillReads
    PROVE  IndInv'
  <1>1. /\ a \in Slots /\ a \in Nat /\ a < FrameNr /\ status[a] = "AVAILABLE"
        /\ pos \in 1..records /\ records \in Nat
        /\ rec' = [rec EXCEPT ![a] = pos]
        /\ status' = [status EXCEPT ![a] = "SEND_REQUEST"]
        /\ owed' = [owed EXCEPT ![pos] = @ + 1]
        /\ UNCHANGED records
    BY FrameNrAssumption, MaxRecordsAssumption
       DEF FillReads, IndInv, TypeOK, Slots, setting
  <1>2. TypeOK'
    BY <1>1, FrameNrAssumption DEF FillReads, IndInv, TypeOK, setting
  <1>3. /\ status'[a] = "SEND_REQUEST" /\ rec'[a] = pos
        /\ \A s \in Slots : s # a => status'[s] = status[s] /\ rec'[s] = rec[s]
    BY <1>1 DEF IndInv, TypeOK
  <1>4. Filled'
    BY <1>1, <1>3 DEF IndInv, Filled
  <1>5. ASSUME NEW r \in 1..records PROVE owed'[r] = Cardinality(Waiting(r)')
    <2>1. a \notin Waiting(r) /\ owed[r] = Cardinality(Waiting(r))
      BY <1>1, SentOnceWaiting DEF Waiting, IndInv
    <2>2. CASE r = pos
      <3>1. Waiting(r)' = Waiting(r) \cup {a}
        BY <1>1, <1>3, <2>2 DEF Waiting
      <3>2. owed'[r] = owed[r] + 1
        BY <1>1, <2>2 DEF IndInv, TypeOK
      <3> QED BY <2>1, <3>1, <3>2, WaitingFinite, FS_AddElement
    <2>3. CASE r # pos
      <3>1. Waiting(r)' = Waiting(r)
        BY <1>1, <1>3, <2>1, <2>3 DEF Waiting
      <3>2. owed'[r] = owed[r]
        BY <1>1, <2>3 DEF IndInv, TypeOK
      <3> QED BY <2>1, <3>1, <3>2
    <2> QED BY <2>2, <2>3
  <1> QED BY <1>1, <1>2, <1>4, <1>5, SentOnceWaitingNext DEF IndInv

(* A record is sent: it waits in one slot less. *)
LEMMA TakesInv ==
    ASSUME IndInv, Takes
    PROVE  IndInv'
  <1> DEFINE k == rec[head]
  <1>1. /\ head \in Slots /\ status[head] = "SEND_REQUEST" /\ k \in 1..records
        /\ owed' = [owed EXCEPT ![k] = @ - 1]
        /\ UNCHANGED <<records, rec>>
    BY DEF Takes, IndInv, TypeOK, Filled, setting
  <1>2. /\ status'[head] \in {"AVAILABLE", "SENDING"}
        /\ \A s \in Slots : s # head => status'[s] = status[s]
    BY <1>1 DEF Takes, IndInv, TypeOK
  <1>3. Filled'
    BY <1>1, <1>2 DEF IndInv, Filled
  <1>4. head \in Waiting(k) /\ owed[k] = Cardinality(Waiting(k))
    BY <1>1, SentOnceWaiting DEF Waiting, IndInv
  <1>5. Cardinality(Waiting(k) \ {head}) = Cardinality(Waiting(k)) - 1
    BY <1>4, WaitingFinite, FS_RemoveElement
  <1>6. Cardinality(Waiting(k) \ {head}) \in Nat
    BY WaitingFinite, FS_RemoveElement, FS_CardinalityType
  <1>7. TypeOK'
    <2>1. owed[k] - 1 \in Nat
      BY <1>4, <1>5, <1>6
    <2>2. owed' \in [1..records' -> Nat]
      BY <1>1, <2>1 DEF IndInv, TypeOK
    <2>3. head' \in Slots
      BY <1>1, FrameNrAssumption DEF Takes, Slots
    <2>4. status' \in [Slots -> {"AVAILABLE", "SEND_REQUEST", "SENDING", "WRONG_FORMAT"}]
      BY DEF Takes, IndInv, TypeOK
    <2>5. last' \in 0..records'
      BY <1>1 DEF Takes, IndInv, TypeOK
    <2> QED BY <2>2, <2>3, <2>4, <2>5 DEF Takes, IndInv, TypeOK, setting
  <1>8. ASSUME NEW r \in 1..records PROVE owed'[r] = Cardinality(Waiting(r)')
    <2>1. CASE r = k
      <3>1. Waiting(r)' = Waiting(r) \ {head}
        BY <1>1, <1>2, <2>1 DEF Waiting
      <3>2. owed'[r] = owed[r] - 1
        BY <1>1, <2>1 DEF IndInv, TypeOK
      <3> QED BY <1>4, <1>5, <2>1, <3>1, <3>2
    <2>2. CASE r # k
      <3>1. Waiting(r)' = Waiting(r)
        BY <1>1, <1>2, <2>2 DEF Waiting
      <3>2. owed'[r] = owed[r]
        BY <1>1, <2>2 DEF IndInv, TypeOK
      <3> QED BY <3>1, <3>2, SentOnceWaiting DEF IndInv
    <2> QED BY <2>1, <2>2
  <1> QED BY <1>1, <1>3, <1>7, <1>8, SentOnceWaitingNext DEF IndInv

LEMMA NextInv == IndInv /\ [Next]_vars => IndInv'
  <1> SUFFICES ASSUME IndInv, [Next]_vars PROVE IndInv'
    OBVIOUS
  <1>1. CASE FillReads
    BY <1>1, FillReadsInv
  <1>2. CASE Takes
    BY <1>2, TakesInv
  <1>3. CASE FillPasses \/ FillEnds \/ SendReturns \/ Rewind \/ UNCHANGED vars
    <2>1. UNCHANGED <<records, status, rec, owed>>
      BY <1>3 DEF FillPasses, FillEnds, SendReturns, Rewind, vars, setting
    <2>2. TypeOK'
      <3> USE <2>1, FrameNrAssumption, MaxRecordsAssumption DEF IndInv, TypeOK, setting
      <3>1. CASE FillPasses
        BY <3>1 DEF FillPasses
      <3>2. CASE FillEnds
        BY <3>2 DEF FillEnds
      <3>3. CASE SendReturns
        <4>1. pc' \in {"fill", "rewind"} /\ a' \in 0..FrameNr
          BY <3>3 DEF SendReturns
        <4> QED BY <3>3, <4>1 DEF SendReturns
      <3>4. CASE Rewind
        <4>1. pos' \in 1..(records + 1) /\ pc' = "fill"
          BY <3>4 DEF Rewind
        <4>2. eof' \in BOOLEAN
          BY <3>4, Zenon DEF Rewind
        <4> QED BY <3>4, <4>1, <4>2 DEF Rewind
      <3>5. CASE UNCHANGED vars
        BY <3>5 DEF vars
      <3> QED BY <1>3, <3>1, <3>2, <3>3, <3>4, <3>5
    <2>3. Filled' /\ \A r \in 1..records : Waiting(r)' = Waiting(r)
      BY <2>1 DEF IndInv, Filled, Waiting
    <2> QED BY <2>1, <2>2, <2>3, NothingMoves
  <1>4. CASE Refuses
    <2>1. /\ UNCHANGED <<records, rec, owed>> /\ head \in Slots
          /\ status[head] = "SEND_REQUEST"
          /\ status' = [status EXCEPT ![head] = "WRONG_FORMAT"]
      BY <1>4 DEF Refuses, setting, IndInv, TypeOK
    <2>2. TypeOK'
      BY <1>4, FrameNrAssumption DEF IndInv, TypeOK, Refuses, setting
    <2>3. /\ status'[head] = "WRONG_FORMAT"
          /\ \A s \in Slots : s # head => status'[s] = status[s]
      BY <2>1 DEF IndInv, TypeOK
    <2>4. Filled' /\ \A r \in 1..records : Waiting(r)' = Waiting(r)
      BY <2>1, <2>3 DEF IndInv, Filled, Waiting
    <2> QED BY <2>1, <2>2, <2>4, NothingMoves
  <1>5. ASSUME NEW s \in Slots, Completes(s) PROVE IndInv'
    <2>1. /\ UNCHANGED <<records, rec, owed>>
          /\ status[s] = "SENDING"
          /\ status' = [status EXCEPT ![s] = "AVAILABLE"]
      BY <1>5 DEF Completes, setting
    <2>2. TypeOK'
      BY <1>5 DEF IndInv, TypeOK, Completes, setting
    <2>3. /\ status'[s] = "AVAILABLE"
          /\ \A t \in Slots : t # s => status'[t] = status[t]
      BY <2>1 DEF IndInv, TypeOK
    <2>4. Filled' /\ \A r \in 1..records : Waiting(r)' = Waiting(r)
      BY <2>1, <2>3 DEF IndInv, Filled, Waiting
    <2> QED BY <2>1, <2>2, <2>4, NothingMoves
  <1> QED BY <1>1, <1>2, <1>3, <1>4, <1>5 DEF Next

(***************************************************************************)
(* The slots in use hold records, and those that wait are counted, in      *)
(* every behaviour.                                                        *)
(***************************************************************************)
THEOREM Invariance == Spec => []IndInv
  <1>1. Init => IndInv
    BY InitInv
  <1>2. IndInv /\ [Next]_vars => IndInv'
    BY NextInv
  <1> QED BY <1>1, <1>2, PTL DEF Spec

(***************************************************************************)
(* What ldab_packet_tx() has read is sent once: no slot is overwritten     *)
(* before it is sent and none is sent twice, whatever the kernel refuses   *)
(* and however late the interface is done with a frame.                    *)
(***************************************************************************)
THEOREM RecordsSentOnce == Spec => []SentOnce
  <1>1. IndInv => SentOnce
    BY DEF IndInv
  <1> QED BY <1>1, Invariance, PTL

-----------------------------------------------------------------------------
(* The order, when the file fills the ring a whole number of times, every  *)
(* send() is prompt and the interface refuses nothing: the loop and the    *)
(* kernel then go round the ring together.                                 *)

Whole(n) == \E k \in Nat : n = k * FrameNr

(* The records up to n were the last ones sent, n = 0 when a pass begins. *)
SentUpTo(n) == last = n \/ (n = 0 /\ last = records)

(* The first n slots are free, or those from n on. *)
FreeBelow(n) == \A s \in Slots : status[s] = IF s < n THEN "AVAILABLE" ELSE "SEND_REQUEST"
FreeFrom(n) == \A s \in Slots : status[s] = IF s < n THEN "SEND_REQUEST" ELSE "AVAILABLE"

Filling ==
    /\ ~eof
    /\ head = 0
    /\ SentUpTo(pos - 1 - a)
    /\ FreeFrom(a)
    /\ \A s \in Slots : s < a => rec[s] = pos - a + s

Sending ==
    /\ a = FrameNr
    /\ \A s \in Slots : rec[s] = pos - a + s
    /\ \/ SentUpTo(pos - 1 - a + head) /\ FreeBelow(head)
       \/ SentUpTo(pos - 1) /\ FreeFrom(0) /\ head = 0

Ending ==
    /\ eof
    /\ pos = records + 1
    /\ a = 0
    /\ head = 0
    /\ last = records
    /\ FreeFrom(0)

Rounds ==
    /\ pos - 1 - a >= 0
    /\ Whole(pos - 1 - a)
    /\ pc = "fill" => Filling
    /\ pc = "send" => Ending \/ (~eof /\ Sending)
    /\ pc = "rewind" => Ending

(* Two multiples that are less than one ring apart are the same. *)
LEMMA MultiplesApart ==
    ASSUME NEW j \in Nat, NEW k \in Nat, NEW n \in 0..(FrameNr - 1),
           j * FrameNr = k * FrameNr + n
    PROVE  n = 0
  <1>1. FrameNr \in Nat \ {0}
    BY FrameNrAssumption
  <1>2. CASE j <= k
    <2>1. j * FrameNr <= k * FrameNr
      BY <1>1, <1>2
    <2>2. j * FrameNr \in Nat /\ k * FrameNr \in Nat
      BY <1>1
    <2> QED BY <2>1, <2>2
  <1>3. CASE j > k
    <2>1. (k + 1) * FrameNr <= j * FrameNr
      BY <1>1, <1>3
    <2>2. (k + 1) * FrameNr = k * FrameNr + FrameNr /\ k * FrameNr \in Nat
      BY <1>1
    <2> QED BY <1>1, <2>1, <2>2
  <1> QED BY <1>2, <1>3

(* A ring more is a multiple again. *)
LEMMA NextMultiple ==
    ASSUME NEW n \in Nat, Whole(n)
    PROVE  Whole(n + FrameNr)
  <1>1. PICK k \in Nat : n = k * FrameNr
    BY DEF Whole
  <1>2. n + FrameNr = (k + 1) * FrameNr
    BY <1>1, FrameNrAssumption
  <1> QED BY <1>2 DEF Whole

(* The number of records of a regular replay is one. *)
LEMMA RecordsWhole ==
    ASSUME IndInv, Regular
    PROVE  Whole(records)
  <1>1. records \in Nat /\ FrameNr \in Nat \ {0}
    BY FrameNrAssumption, MaxRecordsAssumption DEF IndInv, TypeOK
  <1>2. records = FrameNr * (records \div FrameNr) + (records % FrameNr)
        /\ records \div FrameNr \in Nat
    BY <1>1
  <1>3. records = (records \div FrameNr) * FrameNr
    BY <1>1, <1>2 DEF Regular
  <1> QED BY <1>2, <1>3 DEF Whole

(* The file ends where the ring begins. *)
LEMMA EndsAtFirst ==
    ASSUME IndInv, Regular, Rounds, pc = "fill", a < FrameNr, pos > records
    PROVE  a = 0 /\ pos = records + 1
  <1>1. a \in 0..(FrameNr - 1) /\ pos = records + 1 /\ records \in Nat
    BY FrameNrAssumption, MaxRecordsAssumption DEF IndInv, TypeOK
  <1>2. PICK j \in Nat : records = j * FrameNr
    BY RecordsWhole DEF Whole
  <1>3. PICK k \in Nat : records - a = k * FrameNr
    BY <1>1 DEF Rounds, Whole
  <1>4. k * FrameNr \in Nat
    BY FrameNrAssumption
  <1>5. j * FrameNr = k * FrameNr + a
    BY <1>1, <1>2, <1>3, <1>4
  <1> QED BY <1>1, <1>5, MultiplesApart


LEMMA NextRounds ==
    ASSUME IndInv, IndInv', Regular => Rounds, [Next]_vars
    PROVE  (Regular => Rounds)'
  <1> SUFFICES ASSUME Regular' PROVE Rounds'
    OBVIOUS
  <1>1. UNCHANGED setting
    BY DEF Next, FillPasses, FillReads, FillEnds, SendReturns, Rewind, Takes, Refuses,
           Completes, vars, setting
  <1>2. Regular /\ Rounds
    BY <1>1 DEF Regular, setting
  <1>3. /\ records \in Nat \ {0} /\ FrameNr \in Nat \ {0, 1} /\ a \in 0..FrameNr
        /\ pos \in 1..(records + 1) /\ head \in Slots /\ 0 \in Slots
        /\ last \in Nat /\ prompt /\ tooLong = {}
        /\ pc \in {"fill", "send", "rewind"} /\ \A s \in Slots : s \in Nat /\ s < FrameNr
    <2>1. prompt /\ tooLong = {}
      BY <1>2, Zenon DEF Regular
    <2>2. records \in Nat \ {0} /\ FrameNr \in Nat \ {0, 1} /\ 0 \in Slots
      BY FrameNrAssumption, MaxRecordsAssumption DEF IndInv, TypeOK, Slots
    <2>3. /\ a \in 0..FrameNr /\ pos \in 1..(records + 1) /\ head \in Slots
          /\ last \in Nat /\ pc \in {"fill", "send", "rewind"}
      BY <2>2 DEF IndInv, TypeOK
    <2>4. \A s \in Slots : s \in Nat /\ s < FrameNr
      BY <2>2 DEF Slots
    <2> QED BY <2>1, <2>2, <2>3, <2>4
  <1>4. CASE UNCHANGED vars
    BY <1>2, <1>4 DEF vars, Rounds, Filling, Sending, Ending, SentUpTo, FreeBelow,
                      FreeFrom
  <1>5. CASE FillPasses
    <2>1. Filling /\ pc = "fill"
      BY <1>2, <1>5 DEF FillPasses, Rounds
    <2>2. a = FrameNr /\ pc' = "send" /\ a' = a /\ UNCHANGED <<status, rec, head, pos, eof, last>>
      BY <1>3, <1>5, <2>1 DEF FillPasses, Filling, FreeFrom, Slots
    <2>3. SentUpTo(pos - 1 - a + head)
      BY <1>3, <2>1 DEF Filling, SentUpTo
    <2>4. FreeBelow(head)
      BY <1>3, <2>1, <2>2 DEF Filling, FreeFrom, FreeBelow
    <2>5. Sending
      BY <1>3, <2>1, <2>2, <2>3, <2>4 DEF Filling, Sending
    <2>6. Sending' /\ ~eof'
      BY <1>1, <2>1, <2>2, <2>5 DEF Filling, Sending, SentUpTo, FreeBelow, FreeFrom, setting
    <2> QED BY <1>2, <2>2, <2>6 DEF Rounds
  <1>6. CASE FillReads
    <2>1. Filling /\ pc = "fill" /\ a \in Slots
      BY <1>2, <1>3, <1>6 DEF FillReads, Rounds, Slots
    <2>2. /\ a' = a + 1 /\ pos' = pos + 1 /\ pc' = pc
          /\ UNCHANGED <<records, head, eof, last>>
          /\ rec' = [rec EXCEPT ![a] = pos]
          /\ status' = [status EXCEPT ![a] = "SEND_REQUEST"]
      BY <1>6 DEF FillReads, setting
    <2>3. /\ rec'[a] = pos /\ status'[a] = "SEND_REQUEST"
          /\ \A s \in Slots : s # a => rec'[s] = rec[s] /\ status'[s] = status[s]
      BY <2>1, <2>2 DEF IndInv, TypeOK
    <2>4. pos' - 1 - a' = pos - 1 - a
      BY <1>3, <2>2
    <2>5. \A s \in Slots : status'[s] = IF s < a' THEN "SEND_REQUEST" ELSE "AVAILABLE"
      BY <1>3, <2>1, <2>2, <2>3 DEF Filling, FreeFrom
    <2>6. \A s \in Slots : s < a' => rec'[s] = pos' - a' + s
      BY <1>3, <2>1, <2>2, <2>3 DEF Filling
    <2>7. Filling'
      BY <2>1, <2>2, <2>4, <2>5, <2>6 DEF Filling, SentUpTo, FreeFrom
    <2> QED BY <1>2, <2>1, <2>2, <2>4, <2>7 DEF Rounds
  <1>7. CASE FillEnds
    <2>1. Filling /\ a = 0 /\ pos = records + 1
      BY <1>2, <1>7, EndsAtFirst DEF FillEnds, Rounds
    <2>2. pc' = "send" /\ eof' /\ UNCHANGED <<records, status, rec, head, a, pos, last>>
      BY <1>7 DEF FillEnds, setting
    <2>3. last = records
      BY <1>3, <2>1 DEF Filling, SentUpTo
    <2>4. Ending'
      BY <2>1, <2>2, <2>3 DEF Filling, Ending, FreeFrom
    <2> QED BY <1>2, <2>2, <2>4 DEF Rounds
  <1>8. CASE SendReturns
    <2>1. /\ pc = "send" /\ status[head] # "SEND_REQUEST" /\ a' = 0
          /\ pc' = IF eof THEN "rewind" ELSE "fill"
          /\ UNCHANGED <<records, status, rec, head, pos, eof, last>>
      BY <1>3, <1>8 DEF SendReturns, setting
    <2>2. CASE Ending
      <3>1. Ending' /\ pc' = "rewind"
        BY <2>1, <2>2 DEF Ending, FreeFrom
      <3>2. pos' - 1 - a' = pos - 1 - a
        BY <2>1, <2>2 DEF Ending
      <3> QED BY <1>2, <3>1, <3>2 DEF Rounds
    <2>3. CASE ~eof /\ Sending
      <3>1. ~FreeBelow(head)
        BY <1>3, <2>1 DEF FreeBelow
      <3>2. SentUpTo(pos - 1) /\ FreeFrom(0) /\ head = 0 /\ a = FrameNr
        BY <2>3, <3>1 DEF Sending
      <3>3. Filling' /\ pc' = "fill"
        BY <1>3, <2>1, <2>3, <3>2 DEF Filling, SentUpTo, FreeFrom
      <3>4. pos' - 1 - a' = (pos - 1 - a) + FrameNr /\ pos - 1 - a \in Nat
        BY <1>2, <1>3, <2>1, <3>2 DEF Rounds
      <3>5. Whole(pos' - 1 - a') /\ pos' - 1 - a' >= 0
        BY <1>2, <1>3, <3>4, NextMultiple DEF Rounds
      <3> QED BY <3>3, <3>5 DEF Rounds, Whole
    <2> QED BY <1>2, <2>1, <2>2, <2>3 DEF Rounds
  <1>9. CASE Rewind
    <2>1. /\ Ending /\ pc' = "fill" /\ pos' = 1 /\ ~eof'
          /\ UNCHANGED <<records, status, rec, head, a, last>>
      BY <1>2, <1>9 DEF Rewind, Rounds, setting
    <2>2. pos' - 1 - a' = 0
      BY <2>1 DEF Ending
    <2>3. Whole(0)
      BY <1>3 DEF Whole
    <2>4. Filling'
      BY <1>3, <2>1, <2>2 DEF Ending, Filling, SentUpTo, FreeFrom
    <2> QED BY <2>1, <2>2, <2>3, <2>4 DEF Rounds, Whole
  <1>10. CASE Takes
    <2>1. /\ pc = "send" /\ status[head] = "SEND_REQUEST" /\ last' = rec[head]
          /\ status' = [status EXCEPT ![head] = "AVAILABLE"]
          /\ head' = IF head = FrameNr - 1 THEN 0 ELSE head + 1
          /\ UNCHANGED <<records, rec, pc, a, pos, eof>>
      BY <1>3, <1>10 DEF Takes, setting
    <2>2. ~FreeFrom(0)
      BY <1>3, <2>1 DEF FreeFrom
    <2>3. ~eof /\ Sending /\ FreeBelow(head)
      BY <1>2, <2>1, <2>2 DEF Rounds, Ending, Sending
    <2>4. last' = pos - a + head /\ a = FrameNr
      BY <1>3, <2>1, <2>3 DEF Sending
    <2>5. /\ status'[head] = "AVAILABLE"
          /\ \A s \in Slots : s # head => status'[s] = status[s]
      BY <1>3, <2>1 DEF IndInv, TypeOK
    <2>6. CASE head = FrameNr - 1
      <3>1. last' = pos - 1 /\ head' = 0
        BY <1>3, <2>1, <2>4, <2>6
      <3>2. \A s \in Slots : status'[s] = "AVAILABLE"
        BY <1>3, <2>3, <2>5, <2>6 DEF FreeBelow
      <3>3. Sending'
        BY <1>3, <2>1, <2>3, <3>1, <3>2 DEF Sending, SentUpTo, FreeFrom
      <3> QED BY <1>2, <2>1, <2>3, <3>3 DEF Rounds
    <2>7. CASE head # FrameNr - 1
      <3>1. head' = head + 1 /\ last' = pos' - 1 - a' + head'
        BY <1>3, <2>1, <2>4, <2>7
      <3>2. \A s \in Slots : status'[s] = IF s < head' THEN "AVAILABLE" ELSE "SEND_REQUEST"
        BY <1>3, <2>3, <2>5, <3>1 DEF FreeBelow
      <3>3. Sending'
        BY <2>1, <2>3, <3>1, <3>2 DEF Sending, SentUpTo, FreeBelow
      <3> QED BY <1>2, <2>1, <2>3, <3>3 DEF Rounds
    <2> QED BY <2>6, <2>7
  <1>11. CASE Refuses
    BY <1>3, <1>11 DEF Refuses
  <1>12. ASSUME NEW s \in Slots, Completes(s) PROVE Rounds'
    <2>1. status[s] = "SENDING"
      BY <1>12 DEF Completes
    <2>2. \A t \in Slots : status[t] \in {"AVAILABLE", "SEND_REQUEST"}
      BY <1>2, <1>3 DEF Rounds, Filling, Sending, Ending, FreeBelow, FreeFrom
    <2> QED BY <2>1, <2>2
  <1> QED BY <1>4, <1>5, <1>6, <1>7, <1>8, <1>9, <1>10, <1>11, <1>12 DEF Next

LEMMA InitRounds == Init => Rounds
  <1> SUFFICES ASSUME Init PROVE Rounds
    OBVIOUS
  <1>1. Whole(0) /\ pos - 1 - a = 0
    BY FrameNrAssumption DEF Init, Whole
  <1>2. Filling
    BY <1>1 DEF Init, Filling, SentUpTo, FreeFrom, Slots
  <1> QED BY <1>1, <1>2 DEF Init, Rounds

(* The loop and the kernel of a regular replay go round together, in every *)
(* behaviour.                                                              *)
THEOREM RoundsInvariance == Spec => [](Regular => Rounds)
  <1>1. Init => (Regular => Rounds)
    BY InitRounds
  <1>2. IndInv /\ IndInv' /\ (Regular => Rounds) /\ [Next]_vars => (Regular => Rounds)'
    BY NextRounds
  <1> QED BY <1>1, <1>2, Invariance, PTL DEF Spec

(***************************************************************************)
(* The frames go out in the order of the file, pass after pass, when the   *)
(* end of the file falls on the end of the ring and send() is prompt: the  *)
(* loop of ldab_packet_tx() fills the slot at which the kernel stands.     *)
(***************************************************************************)
THEOREM FileOrderKept == Spec => InFileOrder
  <1>1. IndInv /\ (Regular => Rounds) /\ [Next]_vars
            => [Regular /\ head' # head => last' = (last % records) + 1]_vars
    <2> SUFFICES ASSUME IndInv, Rounds, Regular, Next, head' # head
                 PROVE  last' = (last % records) + 1
      BY DEF vars
    <2>1. Takes
      BY DEF Next, FillPasses, FillReads, FillEnds, SendReturns, Rewind, Refuses, Completes
    <2>2. /\ records \in Nat \ {0} /\ FrameNr \in Nat \ {0, 1} /\ pos \in 1..(records + 1)
          /\ head \in Slots /\ head \in Nat /\ head < FrameNr /\ 0 \in Slots
      BY FrameNrAssumption, MaxRecordsAssumption DEF IndInv, TypeOK, Slots
    <2>3. pc = "send" /\ status[head] = "SEND_REQUEST" /\ last' = rec[head]
      BY <2>1 DEF Takes
    <2>4. ~FreeFrom(0)
      BY <2>2, <2>3 DEF FreeFrom
    <2>5. Sending /\ SentUpTo(pos - 1 - a + head)
      BY <2>3, <2>4 DEF Rounds, Ending, Sending
    <2>6. last' = pos - a + head /\ a = FrameNr /\ pos - 1 - a >= 0
      BY <2>2, <2>3, <2>5 DEF Sending, Rounds
    <2> DEFINE n == pos - 1 - a + head
    <2>7. n \in 0..(records - 1) /\ last' = n + 1
      BY <2>2, <2>6
    <2>8. last = n \/ (n = 0 /\ last = records)
      BY <2>5 DEF SentUpTo
    <2> HIDE DEF n
    <2>9. CASE last = n
      BY <2>2, <2>7, <2>9
    <2>10. CASE n = 0 /\ last = records
      <3>1. records % records = 0
        BY <2>2
      <3> QED BY <2>7, <2>10, <3>1
    <2> QED BY <2>8, <2>9, <2>10
  <1> QED BY <1>1, Invariance, RoundsInvariance, PTL DEF Spec, InFileOrder

=============================================================================
