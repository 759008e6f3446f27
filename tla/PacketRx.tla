------------------------------ MODULE PacketRx ------------------------------
(***************************************************************************)
(* A capture thread: the loop of ldab_packet_rx() (libdabba/packet-rx.c)   *)
(* and the kernel, which share the slots of a PACKET_RX ring.  The loop    *)
(* walks the slots in turn and expects the kernel to do the same.          *)
(***************************************************************************)
EXTENDS Integers, FiniteSets, Sequences, SequencesExt

CONSTANTS
    FrameNr,        \* layout.tp_frame_nr, the slots of the ring
    Cpus,           \* bound: CPUs that put frames in the ring at the same time
    MaxFrames,      \* bound: frames that reach the socket
    MaxPollFaults,  \* bound: poll() calls that fail, or return for an error
    DiskFails       \* whether a write to the PCAP file may fail

ASSUME FrameNrAssumption == FrameNr \in Nat \ {0}
ASSUME CpusAssumption == Cpus \in Nat \ {0}
ASSUME MaxFramesAssumption == MaxFrames \in Nat
ASSUME MaxPollFaultsAssumption == MaxPollFaults \in Nat
ASSUME DiskFailsAssumption == DiskFails \in BOOLEAN

Slots == 0..(FrameNr - 1)
Frames == 1..MaxFrames   \* in the order in which the kernel takes them

VARIABLES
    cpus,      \* how many CPUs put frames in this ring, from 1 to Cpus
    status,    \* tp_status of each slot
    frame,     \* the frame last placed in each slot, 0 before the first
    filling,   \* the slots the kernel has claimed and not yet handed over
    head,      \* the slot the kernel claims next
    seen,      \* how many frames have reached the socket
    dropped,   \* the frames for which there was no slot
    pc,        \* where the loop stands
    index,     \* the slot it looks at
    file,      \* the frames in the PCAP file
    lost,      \* the frames whose ldab_pcap_write() failed
    faults     \* how many poll() calls returned without a frame

vars == <<cpus, status, frame, filling, head, seen, dropped, pc, index, file, lost, faults>>
kernelVars == <<cpus, status, frame, filling, head, seen, dropped>>

TypeOK ==
    /\ cpus \in 1..Cpus
    /\ status \in [Slots -> {"KERNEL", "USER"}]
    /\ frame \in [Slots -> Frames \cup {0}]
    /\ filling \subseteq Slots
    /\ head \in Slots
    /\ seen \in 0..MaxFrames
    /\ dropped \subseteq Frames
    /\ pc \in {"check", "poll", "test", "write", "release"}
    /\ index \in Slots
    /\ file \in Seq(Frames)
    /\ lost \subseteq Frames
    /\ faults \in 0..MaxPollFaults

Init ==
    /\ cpus \in 1..Cpus
    /\ status = [s \in Slots |-> "KERNEL"]
    /\ frame = [s \in Slots |-> 0]
    /\ filling = {}
    /\ head = 0
    /\ seen = 0
    /\ dropped = {}
    /\ pc = "check"
    /\ index = 0
    /\ file = <<>>
    /\ lost = {}
    /\ faults = 0

After(s) == IF s = FrameNr - 1 THEN 0 ELSE s + 1
Before(s) == IF s = 0 THEN FrameNr - 1 ELSE s - 1

-----------------------------------------------------------------------------
(* The kernel *)

(***************************************************************************)
(* A frame reaches the socket.  The kernel claims the slot at its head, or *)
(* drops the frame when the loop has not given that slot back.             *)
(***************************************************************************)
Arrive ==
    /\ seen < MaxFrames
    /\ Cardinality(filling) < cpus
    /\ seen' = seen + 1
    /\ IF status[head] = "KERNEL" /\ head \notin filling
       THEN /\ filling' = filling \cup {head}
            /\ frame' = [frame EXCEPT ![head] = seen + 1]
            /\ head' = After(head)
            /\ UNCHANGED dropped
       ELSE /\ dropped' = dropped \cup {seen + 1}
            /\ UNCHANGED <<filling, frame, head>>
    /\ UNCHANGED <<cpus, status, pc, index, file, lost, faults>>

(* The frame is copied: the slot is handed over. *)
HandOver(s) ==
    /\ s \in filling
    /\ filling' = filling \ {s}
    /\ status' = [status EXCEPT ![s] = "USER"]
    /\ UNCHANGED <<cpus, frame, head, seen, dropped, pc, index, file, lost, faults>>

(* What makes poll() return POLLIN: the slot behind the head is handed over. *)
Readable == status[Before(head)] # "KERNEL"

-----------------------------------------------------------------------------
(* ldab_packet_rx() *)

(* Mutant: every iteration looks at the first slot. *)
AdvanceToFirst == pc' = "check" /\ index' = 0

(* The for loop goes to the next slot, the endless loop around it to the first. *)
Advance == pc' = "check" /\ index' = After(index)

(* Mutant: a slot that is not ready is passed over without polling. *)
CheckNoPoll ==
    /\ pc = "check"
    /\ IF status[index] = "KERNEL" THEN Advance ELSE pc' = "test" /\ UNCHANGED index
    /\ UNCHANGED <<kernelVars, file, lost, faults>>

Check ==
    /\ pc = "check"
    /\ pc' = IF status[index] = "KERNEL" THEN "poll" ELSE "test"
    /\ UNCHANGED <<kernelVars, index, file, lost, faults>>

PollReturns ==
    /\ pc = "poll"
    /\ Readable
    /\ pc' = "test"
    /\ UNCHANGED <<kernelVars, index, file, lost, faults>>

(* poll() returns a negative value: continue with the next slot. *)
PollFails ==
    /\ pc = "poll"
    /\ faults < MaxPollFaults
    /\ faults' = faults + 1
    /\ Advance
    /\ UNCHANGED <<kernelVars, file, lost>>

(* poll() returns POLLERR, the interface went down: go on as if ready. *)
PollSeesError ==
    /\ pc = "poll"
    /\ faults < MaxPollFaults
    /\ faults' = faults + 1
    /\ pc' = "test"
    /\ UNCHANGED <<kernelVars, index, file, lost>>

(* Mutant: the slot is given back before its frame is written. *)
TestReleases ==
    /\ pc = "test"
    /\ IF status[index] = "USER"
       THEN /\ pc' = "write"
            /\ status' = [status EXCEPT ![index] = "KERNEL"]
            /\ UNCHANGED index
       ELSE Advance /\ UNCHANGED status
    /\ UNCHANGED <<cpus, frame, filling, head, seen, dropped, file, lost, faults>>

Test ==
    /\ pc = "test"
    /\ IF status[index] = "USER" THEN pc' = "write" /\ UNCHANGED index ELSE Advance
    /\ UNCHANGED <<kernelVars, file, lost, faults>>

(* ldab_pcap_write(), whose result is not looked at. *)
Write ==
    /\ pc = "write"
    /\ pc' = "release"
    /\ \/ file' = Append(file, frame[index]) /\ UNCHANGED lost
       \/ DiskFails /\ lost' = lost \cup {frame[index]} /\ UNCHANGED file
    /\ UNCHANGED <<kernelVars, index, faults>>

Release ==
    /\ pc = "release"
    /\ status' = [status EXCEPT ![index] = "KERNEL"]
    /\ Advance
    /\ UNCHANGED <<cpus, frame, filling, head, seen, dropped, file, lost, faults>>

Loop == Check \/ PollReturns \/ Test \/ Write \/ Release

Next ==
    \/ Arrive
    \/ \E s \in Slots : HandOver(s)
    \/ Check
    \/ PollReturns
    \/ PollFails
    \/ PollSeesError
    \/ Test
    \/ Write
    \/ Release

Spec == Init /\ [][Next]_vars

(***************************************************************************)
(* The thread is scheduled as long as it can run, poll() returns when the  *)
(* socket is readable, and the kernel finishes copying a frame.  Nothing   *)
(* obliges frames to arrive or poll() to fail.                             *)
(***************************************************************************)
FairSpec == Spec /\ WF_vars(Loop) /\ \A s \in Slots : WF_vars(HandOver(s))

-----------------------------------------------------------------------------
(* Properties *)

(* The slots whose frame is in the ring and not yet written. *)
Held == filling \cup {s \in Slots : status[s] = "USER" /\
                                    ~(pc = "release" /\ s = index)}
InRing == {frame[s] : s \in Held}

(***************************************************************************)
(* Whatever poll() does and however many CPUs fill the ring: each frame    *)
(* that reached the socket is dropped, in exactly one slot, in the file    *)
(* once, or was lost by a failed write - and in one of these places only.  *)
(***************************************************************************)
Conservation ==
    /\ 1..seen = dropped \cup InRing \cup ToSet(file) \cup lost
    /\ seen = Cardinality(dropped) + Cardinality(Held) + Len(file) + Cardinality(lost)

(***************************************************************************)
(* As long as poll() has not failed and one CPU fills the ring, the file   *)
(* holds the frames in the order in which they were received.              *)
(***************************************************************************)
Steady == cpus = 1 /\ faults = 0
InOrder ==
    Steady => \A m, n \in 1..Len(file) : m < n => file[m] < file[n]

(***************************************************************************)
(* ... and a frame is dropped only when no slot of the ring is free.       *)
(***************************************************************************)
DropsOnlyWhenFull ==
    [][Steady /\ dropped' # dropped =>
          \A s \in Slots : s \in filling \/ status[s] = "USER"]_vars

(***************************************************************************)
(* "Write all captured traffic in pcap file" (dabba/capture.c:58): a frame *)
(* in the ring is eventually written, even if no other frame follows it.   *)
(***************************************************************************)
AllTrafficWritten ==
    \A f \in Frames : f \in InRing ~> f \in ToSet(file) \cup lost

(* The same when poll() never fails and one CPU fills the ring. *)
SteadyTrafficWritten == []Steady => AllTrafficWritten

=============================================================================
