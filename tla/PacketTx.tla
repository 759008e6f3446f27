------------------------------ MODULE PacketTx ------------------------------
(***************************************************************************)
(* A replay thread: the loop of ldab_packet_tx() (libdabba/packet-tx.c),   *)
(* the PCAP file it reads again and again, and the kernel, which sends the *)
(* slots of a PACKET_TX ring in turn, from where it stopped last.  The     *)
(* loop always fills from the first slot on.                               *)
(***************************************************************************)
EXTENDS Integers, FiniteSets

CONSTANTS
    FrameNr,      \* layout.tp_frame_nr, the slots of the ring
    MaxRecords,   \* bound: records in the file
    Refusing      \* whether the interface may refuse the last record

ASSUME FrameNrAssumption == FrameNr \in Nat \ {0, 1}
ASSUME MaxRecordsAssumption == MaxRecords \in Nat \ {0}
ASSUME RefusingAssumption == Refusing \in BOOLEAN

Slots == 0..(FrameNr - 1)

VARIABLES
    records,  \* the records of the file in front of the end (or of the first
              \* empty or cut one, which ldab_pcap_read() takes for the end)
    tooLong,  \* those among them the interface does not accept
    prompt,   \* whether send() always sends all requests and is done with
              \* their frames when it returns, as on the loopback interface
    status,   \* tp_status of each slot
    rec,      \* the record last read into each slot, 0 before the first
    head,     \* the slot the kernel sends next
    pc,       \* where the loop stands
    a,        \* the slot it fills next
    pos,      \* the record ldab_pcap_read() reads next
    eof,      \* the flag that ends the inner loop
    last,     \* (history) the record sent last, 0 before the first
    owed      \* (history) how often each record was read and not yet sent

vars == <<records, tooLong, prompt, status, rec, head, pc, a, pos, eof, last, owed>>
setting == <<records, tooLong, prompt>>   \* what the replay finds and keeps

TypeOK ==
    /\ records \in 1..MaxRecords
    /\ tooLong \subseteq 1..records
    /\ prompt \in BOOLEAN
    /\ status \in [Slots -> {"AVAILABLE", "SEND_REQUEST", "SENDING", "WRONG_FORMAT"}]
    /\ rec \in [Slots -> 0..records]
    /\ head \in Slots
    /\ pc \in {"fill", "send", "rewind"}
    /\ a \in 0..FrameNr
    /\ pos \in 1..(records + 1)
    /\ eof \in BOOLEAN
    /\ last \in 0..records
    /\ owed \in [1..records -> Nat]

Init ==
    /\ records \in 1..MaxRecords
    /\ tooLong \in {{}} \cup (IF Refusing THEN {{records}} ELSE {})
    /\ prompt \in BOOLEAN
    /\ status = [s \in Slots |-> "AVAILABLE"]
    /\ rec = [s \in Slots |-> 0]
    /\ head = 0
    /\ pc = "fill"
    /\ a = 0
    /\ pos = 1
    /\ eof = FALSE
    /\ last = 0
    /\ owed = [r \in 1..records |-> 0]

-----------------------------------------------------------------------------
(* ldab_packet_tx() *)

(* The for loop passes over a slot that is not available, or ends. *)
FillPasses ==
    /\ pc = "fill"
    /\ \/ /\ a = FrameNr
          /\ pc' = "send"
          /\ UNCHANGED a
       \/ /\ a < FrameNr
          /\ status[a] # "AVAILABLE"
          /\ a' = a + 1
          /\ UNCHANGED pc
    /\ UNCHANGED <<setting, status, rec, head, pos, eof, last, owed>>

(* Mutant: a record is read into the slot whatever its status. *)
FillReadsOver ==
    /\ pc = "fill"
    /\ a < FrameNr
    /\ pos <= records
    /\ rec' = [rec EXCEPT ![a] = pos]
    /\ status' = [status EXCEPT ![a] = "SEND_REQUEST"]
    /\ owed' = [owed EXCEPT ![pos] = @ + 1]
    /\ pos' = pos + 1
    /\ a' = a + 1
    /\ UNCHANGED <<setting, head, pc, eof, last>>

(* A record is read into an available slot and the slot handed over. *)
FillReads ==
    /\ pc = "fill"
    /\ a < FrameNr
    /\ status[a] = "AVAILABLE"
    /\ pos <= records
    /\ rec' = [rec EXCEPT ![a] = pos]
    /\ status' = [status EXCEPT ![a] = "SEND_REQUEST"]
    /\ owed' = [owed EXCEPT ![pos] = @ + 1]
    /\ pos' = pos + 1
    /\ a' = a + 1
    /\ UNCHANGED <<setting, head, pc, eof, last>>

(* There is nothing left to read: the for loop breaks. *)
FillEnds ==
    /\ pc = "fill"
    /\ a < FrameNr
    /\ status[a] = "AVAILABLE"
    /\ pos > records
    /\ eof' = TRUE
    /\ pc' = "send"
    /\ UNCHANGED <<setting, status, rec, head, a, pos, last, owed>>

(***************************************************************************)
(* send() with MSG_DONTWAIT returns: to the for loop from the first slot,  *)
(* or behind the inner loop.  It may return with requests left, when the   *)
(* socket's send buffer is full.                                           *)
(***************************************************************************)
SendReturns ==
    /\ pc = "send"
    /\ prompt => status[head] # "SEND_REQUEST"
    /\ pc' = IF eof THEN "rewind" ELSE "fill"
    /\ a' = 0
    /\ UNCHANGED <<setting, status, rec, head, pos, eof, last, owed>>

(* Mutant: the file is rewound to its second record. *)
RewindTooFar ==
    /\ pc = "rewind"
    /\ pos' = IF records > 1 THEN 2 ELSE 1
    /\ eof' = FALSE
    /\ pc' = "fill"
    /\ UNCHANGED <<setting, status, rec, head, a, last, owed>>

(* Mutant: the flag is not cleared. *)
RewindKeepsEof ==
    /\ pc = "rewind"
    /\ pos' = 1
    /\ pc' = "fill"
    /\ UNCHANGED <<setting, status, rec, head, a, eof, last, owed>>

(* ldab_pcap_rewind() *)
Rewind ==
    /\ pc = "rewind"
    /\ pos' = 1
    /\ eof' = FALSE
    /\ pc' = "fill"
    /\ UNCHANGED <<setting, status, rec, head, a, last, owed>>

-----------------------------------------------------------------------------
(* The kernel *)

(* Within send(): the frame at the head goes out. *)
Takes ==
    /\ pc = "send"
    /\ status[head] = "SEND_REQUEST"
    /\ rec[head] \notin tooLong
    /\ status' = [status EXCEPT ![head] = IF prompt THEN "AVAILABLE" ELSE "SENDING"]
    /\ last' = rec[head]
    /\ owed' = [owed EXCEPT ![rec[head]] = @ - 1]
    /\ head' = IF head = FrameNr - 1 THEN 0 ELSE head + 1
    /\ UNCHANGED <<setting, rec, pc, a, pos, eof>>

(***************************************************************************)
(* Within send(): the frame at the head is too long.  PACKET_LOSS is not   *)
(* set on the socket (packet_mmap_tx_loss_set() is never called), so the   *)
(* slot is marked and the head stays where it is; send() returns an error. *)
(***************************************************************************)
Refuses ==
    /\ pc = "send"
    /\ status[head] = "SEND_REQUEST"
    /\ rec[head] \in tooLong
    /\ status' = [status EXCEPT ![head] = "WRONG_FORMAT"]
    /\ pc' = IF eof THEN "rewind" ELSE "fill"
    /\ a' = 0
    /\ UNCHANGED <<setting, rec, head, pos, eof, last, owed>>

(* The interface is done with a frame, in any order, at any time. *)
Completes(s) ==
    /\ status[s] = "SENDING"
    /\ status' = [status EXCEPT ![s] = "AVAILABLE"]
    /\ UNCHANGED <<setting, rec, head, pc, a, pos, eof, last, owed>>

Loop == FillPasses \/ FillReads \/ FillEnds \/ Rewind

Next ==
    \/ FillPasses
    \/ FillReads
    \/ FillEnds
    \/ SendReturns
    \/ Rewind
    \/ Takes
    \/ Refuses
    \/ \E s \in Slots : Completes(s)

Spec == Init /\ [][Next]_vars

(***************************************************************************)
(* The thread is scheduled, the interface completes what it was given, and *)
(* a send buffer that is full does not stay full for ever: a request that  *)
(* is offered to the kernel again and again is taken (or refused).         *)
(***************************************************************************)
FairSpec ==
    /\ Spec
    /\ WF_vars(Loop)
    /\ WF_vars(SendReturns)
    /\ SF_vars(Takes)
    /\ SF_vars(Refuses)
    /\ \A s \in Slots : WF_vars(Completes(s))

-----------------------------------------------------------------------------
(* Properties *)

(***************************************************************************)
(* What was read is sent once: a record waits in as many slots as it was   *)
(* read without having been sent since, so that no slot is overwritten     *)
(* before it is sent and none is sent twice.                               *)
(***************************************************************************)
SentOnce ==
    \A r \in 1..records :
        owed[r] = Cardinality({s \in Slots :
                      /\ status[s] \in {"SEND_REQUEST", "WRONG_FORMAT"}
                      /\ rec[s] = r})

(***************************************************************************)
(* The frames go out in the order of the file, pass after pass, when the   *)
(* end of the file falls on the end of the ring and send() is prompt.  In  *)
(* general they do not.                                                    *)
(***************************************************************************)
Regular == prompt /\ records % FrameNr = 0 /\ tooLong = {}
InFileOrder ==
    [][Regular /\ head' # head => last' = (last % records) + 1]_vars

(***************************************************************************)
(* "Starts a replay generating traffic on eth0 and read all frames from    *)
(* the pcap file" (dabba/replay.c:94): every record is sent over and over. *)
(***************************************************************************)
AllFramesSent == \A r \in 1..MaxRecords : []<>(last = r \/ r > records)

(* The same when the interface accepts them all. *)
AcceptedFramesSent == [](tooLong = {}) => AllFramesSent

=============================================================================
