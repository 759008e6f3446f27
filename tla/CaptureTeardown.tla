--------------------------- MODULE CaptureTeardown ---------------------------
(***************************************************************************)
(* The life of a capture's ring: dabbad_capture_start() makes it step by   *)
(* step, the thread of the capture works on it, and dabbad_capture_stop()  *)
(* takes it away.  That handler cancels the thread and then gives back,    *)
(* one after the other, the things ldab_packet_rx() works on, without      *)
(* waiting for the thread to end.  A cancelled thread ends at its next     *)
(* cancellation point, which in this loop are poll(2) and write(2).        *)
(***************************************************************************)
EXTENDS PacketMmap

CONSTANTS
    MaxRecords   \* bound: records the thread writes before it is stopped

ASSUME MaxRecordsAssumption == MaxRecords \in Nat

(* The steps of the stop handler, in order; at 0 the capture still runs. *)
Steps == 0..7
Cancelled == 1   \* pthread_cancel()
Detached == 2    \* ldab_sock_filter_detach()
Closed == 3      \* close(pcap_fd)
VecFreed == 4    \* packet_mmap_vector_destroy()
Unmapped == 5    \* packet_mmap_munmap()
Zeroed == 6      \* packet_mmap_unregister() and memset() of the packet_mmap
Freed == 7       \* free(pkt_capture), and the reply

VARIABLES
    step,     \* the last step the handler has done
    pc,       \* where the thread stands
    header,   \* how many record headers were written whole
    payload,  \* how many packet payloads were written whole
    failed,   \* (history) whether a write was short or failed
    alive,    \* whether the daemon lives: a bad access ends all of it
    ask,      \* the frame size and frame number asked for
    ring      \* the ring

vars == <<step, pc, header, payload, failed, alive, ask, ring>>

(* Where the start handler is, before there is a thread. *)
Starting == {"ask", "register", "mmap", "vector", "bind", "thread", "refused"}

TypeOK ==
    /\ step \in Steps
    /\ pc \in Starting \cup {"loop", "vec", "status", "poll", "test", "args", "header",
               "payload", "release", "ended"}
    /\ header \in 0..MaxRecords
    /\ payload \in 0..MaxRecords
    /\ failed \in BOOLEAN
    /\ alive \in BOOLEAN
    /\ ask \in [size : FrameSizes, nr : FrameNrs]
    /\ ring.layout \in [DOMAIN NoLayout -> 0..(Word - 1)]
    /\ ring.registered \in BOOLEAN
    /\ ring.mapped \in 0..(Word - 1)
    /\ DOMAIN ring.vec \subseteq 0..(Word - 1)

Init ==
    /\ step = 0
    /\ pc = "ask"
    /\ header = 0
    /\ payload = 0
    /\ failed = FALSE
    /\ alive = TRUE
    /\ ask \in [size : FrameSizes, nr : FrameNrs]
    /\ ring = NoRing

-----------------------------------------------------------------------------
(* The start handler *)

Fails(r) ==
    /\ pc' = "refused"
    /\ ring' = r

Succeeds(next, r) ==
    /\ pc' = next
    /\ ring' = r

(* One of the functions of pkt_mmap_fn, and what it does when it succeeds. *)
CreateStep(here, next, can, done) ==
    /\ pc = here
    /\ \/ can /\ Succeeds(next, done)
       \/ Fails(Destroyed(ring))
    /\ UNCHANGED <<step, header, payload, failed, alive, ask>>

(* The interface, the socket, the memory or the file may be missing. *)
Ask ==
    /\ pc = "ask"
    /\ \/ /\ Creatable(ask.size, ask.nr)
          /\ Succeeds("register", [ring EXCEPT !.layout = Layout(ask.size, ask.nr)])
       \/ Fails(ring)
    /\ UNCHANGED <<step, header, payload, failed, alive, ask>>

Register ==
    CreateStep("register", "mmap", KernelTakes(ring.layout),
               [ring EXCEPT !.registered = TRUE])

Map ==
    CreateStep("mmap", "vector", Mappable(ring.layout),
               [ring EXCEPT !.mapped = MapSize(ring.layout)])

VectorCreate ==
    CreateStep("vector", "bind", TRUE, [ring EXCEPT !.vec = Vector(ring.layout)])

Bind == CreateStep("bind", "thread", TRUE, ring)

(* dabbad_thread_start(); a thread that cannot be detached is a matter of  *)
(* module TaskManager.                                                     *)
ThreadStart == CreateStep("thread", "loop", TRUE, ring)

-----------------------------------------------------------------------------
(* The stop handler *)

(* What a step of ldab_packet_mmap_destroy() makes of the ring. *)
RingAfter(s) ==
    CASE s = VecFreed -> VectorDestroyed(ring)
      [] s = Unmapped -> Munmapped(ring)
      [] s = Zeroed -> Unregistered(ring)
      [] OTHER -> ring

StopStep ==
    /\ alive
    /\ pc \notin Starting
    /\ step < Freed
    /\ step' = step + 1
    /\ ring' = RingAfter(step')
    /\ UNCHANGED <<pc, header, payload, failed, alive, ask>>

-----------------------------------------------------------------------------
(* The thread *)

(* Mutant: a stop that closes the file before it cancels the thread. *)
IsCancelledLate == step > Closed

IsCancelled == step >= Cancelled

Goto(next) == pc' = next /\ UNCHANGED <<step, header, payload, failed, alive, ask, ring>>

(* An access to the ring or the vector: fatal once they are gone. *)
Access(next, gone) ==
    IF step >= gone
    THEN alive' = FALSE /\ UNCHANGED <<step, pc, header, payload, failed, ask, ring>>
    ELSE Goto(next)

(***************************************************************************)
(* index < layout.tp_frame_nr.  Once the layout is cleared the number is 0 *)
(* and the two loops turn without a body, which changes nothing here.      *)
(***************************************************************************)
LoopTest == alive /\ pc = "loop" /\ ring.layout.frame_nr > 0 /\ Goto("vec")

(* Once the memory is freed, another task may have put a number there. *)
LoopTestFreed == alive /\ pc = "loop" /\ step = Freed /\ Goto("vec")

(***************************************************************************)
(* vec[index].iov_base: the vector is NULL once cleared.  Between its free *)
(* and that, the freed memory may hold the old pointer or another.         *)
(***************************************************************************)
ReadVec ==
    /\ alive
    /\ pc = "vec"
    /\ \/ Access("status", Zeroed)
       \/ Access("status", VecFreed)

ReadStatus ==
    /\ alive
    /\ pc = "status"
    /\ Access("poll", Unmapped) \/ Access("test", Unmapped)

CancellationPoint == alive /\ IsCancelled /\ Goto("ended")

(* Mutant: a cancelled thread goes on waiting. *)
PollWaits == alive /\ pc = "poll" /\ ~IsCancelled /\ Goto("test")

Poll == alive /\ pc = "poll" /\ (CancellationPoint \/ (~IsCancelled /\ Goto("test")))

TestStatus ==
    /\ alive
    /\ pc = "test"
    /\ Access("args", Unmapped) \/ Access("loop", Unmapped)

(* What ldab_pcap_write() is given: tp_mac, tp_len, tp_snaplen, tp_sec, tp_usec. *)
ReadArgs == alive /\ pc = "args" /\ Access("header", Unmapped)

(***************************************************************************)
(* ldab_pcap_write(): two writes, each done at once when the call begins.  *)
(* After one that is short or fails it returns -1, which the loop does not *)
(* look at.                                                                *)
(***************************************************************************)
WriteFails(next) ==
    /\ pc' = next
    /\ failed' = TRUE
    /\ UNCHANGED <<step, header, payload, alive, ask, ring>>

HeaderWritten ==
    /\ header < MaxRecords
    /\ header' = header + 1
    /\ pc' = "payload"
    /\ UNCHANGED <<step, payload, failed, alive, ask, ring>>

(* Mutant: the result of the first write is not checked. *)
WriteHeaderUnchecked ==
    /\ alive
    /\ pc = "header"
    /\ \/ CancellationPoint
       \/ ~IsCancelled /\ (HeaderWritten \/ WriteFails("payload"))

WriteHeader ==
    /\ alive
    /\ pc = "header"
    /\ \/ CancellationPoint
       \/ ~IsCancelled /\ (HeaderWritten \/ WriteFails("release"))

PayloadWritten ==
    /\ payload' = payload + 1
    /\ pc' = "release"
    /\ UNCHANGED <<step, header, failed, alive, ask, ring>>

WritePayload ==
    /\ alive
    /\ pc = "payload"
    /\ \/ CancellationPoint
       \/ ~IsCancelled /\ (PayloadWritten \/ WriteFails("release"))

ReleaseSlot == alive /\ pc = "release" /\ Access("loop", Unmapped)

Thread ==
    \/ LoopTest
    \/ ReadVec
    \/ ReadStatus
    \/ Poll
    \/ TestStatus
    \/ ReadArgs
    \/ WriteHeader
    \/ WritePayload
    \/ ReleaseSlot

Next ==
    \/ Ask
    \/ Register
    \/ Map
    \/ VectorCreate
    \/ Bind
    \/ ThreadStart
    \/ StopStep
    \/ LoopTestFreed
    \/ LoopTest
    \/ ReadVec
    \/ ReadStatus
    \/ Poll
    \/ TestStatus
    \/ ReadArgs
    \/ WriteHeader
    \/ WritePayload
    \/ ReleaseSlot

Spec == Init /\ [][Next]_vars

(***************************************************************************)
(* The RPC thread and the capture thread are both scheduled.  Nothing      *)
(* obliges freed memory to be used again.                                  *)
(***************************************************************************)
FairSpec == Spec /\ WF_vars(StopStep) /\ WF_vars(Thread)

-----------------------------------------------------------------------------
(* Properties *)

(***************************************************************************)
(* No write begins once the PCAP descriptor is closed (its number may then *)
(* belong to the file of another capture), nor once the filter is detached *)
(* and unwanted frames arrive: the handler cancels first, and each write   *)
(* is a cancellation point.                                                *)
(***************************************************************************)
WriteBegins == pc \in {"header", "payload"} /\ pc' \notin {pc, "ended"}
NoWriteAfterStop == [][WriteBegins => step < Detached]_vars

(***************************************************************************)
(* No payload is written without its header, whichever writes are short or *)
(* fail; and until one does, a record header without its payload is the    *)
(* last thing in the file, and there is one only when the capture stopped. *)
(***************************************************************************)
OnlyLastRecordCut ==
    /\ payload <= header
    /\ failed \/ header = payload
              \/ /\ header = payload + 1
                 /\ pc = "payload" \/ (pc = "ended" /\ step >= Cancelled)

(***************************************************************************)
(* A running capture has the ring that was asked for, although the layout  *)
(* is cut to 32 bits and the mapping has the length of a product that      *)
(* wraps: as many slots as frames, none across the end of the mapping.     *)
(***************************************************************************)
RingAsAsked ==
    pc \notin Starting /\ step < VecFreed =>
        /\ DOMAIN ring.vec = 0..(ask.nr - 1)
        /\ \A a, b \in DOMAIN ring.vec :
              /\ ring.vec[a] + ask.size <= ring.mapped
              /\ a < b => ring.vec[a] + ask.size <= ring.vec[b]

(***************************************************************************)
(* A start that was refused, at whatever step, and a stop that was         *)
(* answered leave no ring behind: neither its vector nor its mapping nor   *)
(* the memory of the kernel.                                               *)
(***************************************************************************)
NoRingLeft == pc = "refused" \/ step = Freed => ring = NoRing

(***************************************************************************)
(* The thread of a stopped capture ends, or ends the daemon with it,       *)
(* unless the layout was cleared before the thread came to a cancellation  *)
(* point: with no frames its loops have no body, and turn for ever.        *)
(***************************************************************************)
StoppedThreadEnds ==
    IsCancelled ~> \/ pc = "ended"
                   \/ ~alive
                   \/ pc = "loop" /\ ring.layout.frame_nr = 0

(***************************************************************************)
(* "Returns 0 on success, else on failure via its closure function"        *)
(* (dabbad/capture.c:140): a stop is answered, so the thread must not end  *)
(* the daemon by touching what the handler has unmapped.                   *)
(***************************************************************************)
StopIsAnswered == step = Cancelled ~> step = Freed

=============================================================================
