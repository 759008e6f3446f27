----------------------------- MODULE TaskManager -----------------------------
(***************************************************************************)
(* The packet tasks of dabbad: the queue of packet threads                 *)
(* (dabbad/thread.c) and the queues of captures (dabbad/capture.c) and     *)
(* replays (dabbad/replay.c) built on it.                                  *)
(*                                                                         *)
(* The daemon's RPC loop is single threaded, so an RPC handler is one      *)
(* action; the worker threads it creates and cancels run besides it.  The  *)
(* stop_all handlers are loops, and take one action per iteration.  What   *)
(* happens inside a stop while the cancelled worker still runs is the      *)
(* subject of module CaptureTeardown.                                      *)
(***************************************************************************)
EXTENDS Integers, FiniteSets, Sequences, SequencesExt

CONSTANTS
    Tasks,    \* addresses calloc() returns for a packet_capture/packet_replay
    Ids,      \* pthread_t values; the id of a thread that ended is reused
    Fds,      \* the descriptors RLIMIT_NOFILE leaves to tasks
    Faults,   \* the rare failures of the environment this instance allows
    None      \* no task, no worker, no loop

Kinds == {"capture", "replay"}
Queues == Kinds \cup {"thread"}
RareFaults == {"short_header", "detach"}

(***************************************************************************)
(* An allocated packet_capture or packet_replay: the type and id of its    *)
(* embedded packet_thread, pkt_mmap.pf_sock and pcap_fd.                   *)
(***************************************************************************)
Task == [kind : Kinds, id : Ids, sock : Fds, pcap : Fds]
Worker == [arg : Tasks, cancelled : BOOLEAN]
Code == {"OK", "error"}
Reply == [rpc : {"none", "start", "stop", "stop_all"}, kind : Kinds,
          id : Ids \cup {None}, code : Code, before : Nat]

ASSUME FdsAssumption == Fds \subseteq Nat
ASSUME FaultsAssumption == Faults \subseteq RareFaults
ASSUME NoneAssumption ==
    /\ None \notin Task
    /\ None \notin Worker
    /\ None \notin Tasks
    /\ None \notin Kinds

VARIABLES
    queue,    \* the three TAILQs, oldest entry first
    length,   \* the length fields kept beside the TAILQ heads
    heap,     \* what each task address holds, None when it is free
    worker,   \* the thread behind each pthread_t, None when there is none
    fds,      \* the daemon's descriptor table
    errno,    \* errno of the RPC thread; "OK" while no call has failed
    loop,     \* the kind a stop_all handler is working on, or None
    cursor,   \* the entry that handler handles next
    reply     \* the last reply, the id its request named, and (history) the
              \* number of threads there were when the handler ran

vars == <<queue, length, heap, worker, fds, errno, loop, cursor, reply>>

TypeOK ==
    /\ queue \in [Queues -> Seq(Tasks)]
    /\ length \in [Queues -> Int]
    /\ heap \in [Tasks -> Task \cup {None}]
    /\ worker \in [Ids -> Worker \cup {None}]
    /\ fds \in [Fds -> {"closed", "sock", "pcap"}]
    /\ errno \in Code
    /\ loop \in Kinds \cup {None}
    /\ cursor \in Tasks \cup {None}
    /\ reply \in Reply

Init ==
    /\ queue = [q \in Queues |-> <<>>]
    /\ length = [q \in Queues |-> 0]
    /\ heap = [t \in Tasks |-> None]
    /\ worker = [i \in Ids |-> None]
    /\ fds = [f \in Fds |-> "closed"]
    /\ errno = "OK"
    /\ loop = None
    /\ cursor = None
    /\ reply = [rpc |-> "none", kind |-> "capture", id |-> None,
                code |-> "OK", before |-> 0]

Answer(rpc, kind, i, code) ==
    reply' = [rpc |-> rpc, kind |-> kind, id |-> i, code |-> code,
              before |-> Len(queue["thread"])]

ClosedFds == {f \in Fds : fds[f] = "closed"}

(* socket(2), then open(2) or creat(2): each takes the lowest descriptor *)
Lowest(sock, pcap) ==
    sock < pcap /\ \A f \in ClosedFds : f = sock \/ f >= pcap

-----------------------------------------------------------------------------
(* dabbad_capture_start(), dabbad_replay_start()                           *)

(***************************************************************************)
(* Invalid settings, no socket, no memory, or no PCAP descriptor: what was *)
(* acquired is given back.  Only settings that do not pass leave errno     *)
(* alone.  calloc() is reached with an open socket.                        *)
(***************************************************************************)
StartRefused(kind) ==
    /\ errno' \in {errno, "error"}
    /\ Answer("start", kind, None, "error")
    /\ UNCHANGED <<queue, length, heap, worker, fds>>

(***************************************************************************)
(* ldab_pcap_create() wrote a part of the file header only: it closes and  *)
(* deletes the file and returns -1, but no call has failed, so the errno   *)
(* the handler replies with is an older one.                               *)
(***************************************************************************)
StartHeaderShort(kind) ==
    /\ "short_header" \in Faults
    /\ kind = "capture"
    /\ Cardinality(ClosedFds) >= 2
    /\ Answer("start", kind, None, errno)
    /\ UNCHANGED <<queue, length, heap, worker, fds, errno>>

(***************************************************************************)
(* The filter is invalid or cannot be attached, the packet ring cannot be  *)
(* set up, or pthread_create() fails: the handler frees the task and       *)
(* closes the socket, and forgets the PCAP descriptor it has opened.       *)
(***************************************************************************)
StartAborted(kind) ==
    /\ \E sock, pcap \in ClosedFds :
          /\ Lowest(sock, pcap)
          /\ fds' = [fds EXCEPT ![pcap] = "pcap"]
    /\ errno' \in {errno, "error"}
    /\ Answer("start", kind, None, "error")
    /\ UNCHANGED <<queue, length, heap, worker>>

(***************************************************************************)
(* pthread_detach() fails: as above, but the thread already runs.          *)
(***************************************************************************)
StartNotDetached(kind) ==
    /\ "detach" \in Faults
    /\ \E sock, pcap \in ClosedFds :
          /\ Lowest(sock, pcap)
          /\ fds' = [fds EXCEPT ![pcap] = "pcap"]
    /\ \E t \in Tasks, i \in Ids :
          /\ heap[t] = None
          /\ worker[i] = None
          /\ worker' = [worker EXCEPT ![i] = [arg |-> t, cancelled |-> FALSE]]
    /\ Answer("start", kind, None, "error")
    /\ UNCHANGED <<queue, length, heap, errno>>

(* Mutant: the thread is not put in the thread queue. *)
InsertKindOnly(kind, t) ==
    /\ queue' = [queue EXCEPT ![kind] = Append(@, t)]
    /\ length' = [length EXCEPT ![kind] = @ + 1]

(* dabbad_thread_insert() followed by dabbad_capture/replay_insert() *)
Insert(kind, t) ==
    /\ queue' = [queue EXCEPT !["thread"] = Append(@, t), ![kind] = Append(@, t)]
    /\ length' = [length EXCEPT !["thread"] = @ + 1, ![kind] = @ + 1]

StartDone(kind) ==
    /\ \E sock, pcap \in ClosedFds, t \in Tasks, i \in Ids :
          /\ Lowest(sock, pcap)
          /\ heap[t] = None
          /\ worker[i] = None
          /\ fds' = [fds EXCEPT ![sock] = "sock", ![pcap] = "pcap"]
          /\ heap' = [heap EXCEPT ![t] = [kind |-> kind, id |-> i,
                                          sock |-> sock, pcap |-> pcap]]
          /\ worker' = [worker EXCEPT ![i] = [arg |-> t, cancelled |-> FALSE]]
          /\ Insert(kind, t)
    /\ Answer("start", kind, None, "OK")
    /\ UNCHANGED errno

Start(kind) ==
    /\ loop = None
    /\ \/ StartRefused(kind)
       \/ StartHeaderShort(kind)
       \/ StartAborted(kind)
       \/ StartNotDetached(kind)
       \/ StartDone(kind)
    /\ UNCHANGED <<loop, cursor>>

-----------------------------------------------------------------------------
(* dabbad_capture_stop(), dabbad_replay_stop() and their stop_all          *)

(* the positions in queue q of the entries with thread id i *)
At(q, i) == {n \in 1..Len(queue[q]) : heap[queue[q][n]].id = i}

(* Mutant: the first entry is taken without comparing its id. *)
FindHead(q, i) == 1

(* dabbad_thread_find(), dabbad_capture_find(), dabbad_replay_find() *)
Find(q, i) == CHOOSE n \in At(q, i) : \A m \in At(q, i) : n <= m

Position(q, t) == CHOOSE n \in 1..Len(queue[q]) : queue[q][n] = t

(* dabbad_thread_stop() succeeds: the thread is listed and is not gone *)
CanStop(i) == At("thread", i) # {} /\ worker[i] # None

(* Mutant: the length of the capture or replay queue is not counted down. *)
ReleaseUncounted(t) ==
    LET i == heap[t].id
        kind == heap[t].kind
    IN  /\ worker' = [worker EXCEPT ![i] = [arg |-> @.arg, cancelled |-> TRUE]]
        /\ queue' = [queue EXCEPT
                        !["thread"] = RemoveAt(@, Find("thread", i)),
                        ![kind] = RemoveAt(@, Position(kind, t))]
        /\ length' = [length EXCEPT !["thread"] = @ - 1]
        /\ fds' = [fds EXCEPT ![heap[t].pcap] = "closed"]
        /\ heap' = [heap EXCEPT ![t] = None]

(* Mutant: the descriptor is closed but the task is neither unlinked nor freed. *)
ReleaseHalf(t) ==
    LET i == heap[t].id
    IN  /\ worker' = [worker EXCEPT ![i] = [arg |-> @.arg, cancelled |-> TRUE]]
        /\ queue' = [queue EXCEPT !["thread"] = RemoveAt(@, Find("thread", i))]
        /\ length' = [length EXCEPT !["thread"] = @ - 1]
        /\ fds' = [fds EXCEPT ![heap[t].pcap] = "closed"]
        /\ UNCHANGED heap

(* Mutant: pcap_fd is set to -1 and the task is not freed. *)
ReleaseMinusOne(t) ==
    LET i == heap[t].id
        kind == heap[t].kind
    IN  /\ worker' = [worker EXCEPT ![i] = [arg |-> @.arg, cancelled |-> TRUE]]
        /\ queue' = [queue EXCEPT
                        !["thread"] = RemoveAt(@, Find("thread", i)),
                        ![kind] = RemoveAt(@, Position(kind, t))]
        /\ length' = [length EXCEPT !["thread"] = @ - 1, ![kind] = @ - 1]
        /\ fds' = [fds EXCEPT ![heap[t].pcap] = "closed"]
        /\ heap' = [heap EXCEPT ![t].pcap = -1]

(***************************************************************************)
(* dabbad_thread_stop() and what the handlers do when it succeeds: the     *)
(* first thread with that id is cancelled and unlinked, the task itself is *)
(* unlinked, its PCAP descriptor closed, its ring destroyed and its memory *)
(* freed.  The socket descriptor stays open.                               *)
(***************************************************************************)
Release(t) ==
    LET i == heap[t].id
        kind == heap[t].kind
    IN  /\ worker' = [worker EXCEPT ![i] = [arg |-> @.arg, cancelled |-> TRUE]]
        /\ queue' = [queue EXCEPT
                        !["thread"] = RemoveAt(@, Find("thread", i)),
                        ![kind] = RemoveAt(@, Position(kind, t))]
        /\ length' = [length EXCEPT !["thread"] = @ - 1, ![kind] = @ - 1]
        /\ fds' = [fds EXCEPT ![heap[t].pcap] = "closed"]
        /\ heap' = [heap EXCEPT ![t] = None]

(* Mutant: an unknown id is answered with success. *)
StopFailsQuietly(kind, i) ==
    /\ At(kind, i) = {} \/ ~CanStop(i)
    /\ Answer("stop", kind, i, "OK")
    /\ UNCHANGED <<queue, length, heap, worker, fds>>

StopFails(kind, i) ==
    /\ At(kind, i) = {} \/ ~CanStop(i)
    /\ Answer("stop", kind, i, "error")
    /\ UNCHANGED <<queue, length, heap, worker, fds>>

StopDone(kind, i) ==
    /\ At(kind, i) # {}
    /\ CanStop(i)
    /\ Release(queue[kind][Find(kind, i)])
    /\ Answer("stop", kind, i, "OK")

Stop(kind, i) ==
    /\ loop = None
    /\ StopFails(kind, i) \/ StopDone(kind, i)
    /\ UNCHANGED <<errno, loop, cursor>>

(* The stop_all request on an empty queue, and the start of its loop. *)
StopAllBegins(kind) ==
    /\ loop = None
    /\ IF queue[kind] = <<>>
       THEN Answer("stop_all", kind, None, "OK") /\ UNCHANGED <<loop, cursor>>
       ELSE /\ loop' = kind
            /\ cursor' = queue[kind][1]
            /\ UNCHANGED reply
    /\ UNCHANGED <<queue, length, heap, worker, fds, errno>>

(* TAILQ_NEXT of the entry in its queue *)
Following(t) ==
    LET n == Position(heap[t].kind, t) + 1
    IN  IF n \in 1..Len(queue[heap[t].kind])
        THEN queue[heap[t].kind][n] ELSE None

(* Mutant: the loop waits for the workers it has cancelled to end. *)
StopAllJoins ==
    /\ loop # None
    /\ \A i \in Ids : worker[i] # None => ~worker[i].cancelled
    /\ Release(cursor)
    /\ cursor' = Following(cursor)
    /\ IF Following(cursor) = None
       THEN loop' = None /\ Answer("stop_all", loop, None, "OK")
       ELSE UNCHANGED <<loop, reply>>
    /\ UNCHANGED errno

(* Mutant: the loop ends behind the first entry. *)
StopAllOne ==
    /\ loop # None
    /\ Release(cursor)
    /\ loop' = None
    /\ cursor' = None
    /\ Answer("stop_all", loop, None, "OK")
    /\ UNCHANGED errno

(* One iteration; the loop ends behind the last entry, or breaks. *)
StopAllNext ==
    /\ loop # None
    /\ IF CanStop(heap[cursor].id)
       THEN /\ Release(cursor)
            /\ cursor' = Following(cursor)
            /\ IF Following(cursor) = None
               THEN loop' = None /\ Answer("stop_all", loop, None, "OK")
               ELSE UNCHANGED <<loop, reply>>
       ELSE /\ loop' = None
            /\ cursor' = None
            /\ Answer("stop_all", loop, None, "error")
            /\ UNCHANGED <<queue, length, heap, worker, fds>>
    /\ UNCHANGED errno

-----------------------------------------------------------------------------
(* Mutant: a worker may return without having been cancelled. *)
WorkerReturns(i) ==
    /\ worker[i] # None
    /\ worker' = [worker EXCEPT ![i] = None]
    /\ UNCHANGED <<queue, length, heap, fds, errno, loop, cursor, reply>>

(* A cancelled worker reaches a cancellation point: its id is free again.  *)
WorkerEnds(i) ==
    /\ worker[i] # None
    /\ worker[i].cancelled
    /\ worker' = [worker EXCEPT ![i] = None]
    /\ UNCHANGED <<queue, length, heap, fds, errno, loop, cursor, reply>>

Next ==
    \/ \E kind \in Kinds : Start(kind)
    \/ \E kind \in Kinds, i \in Ids : Stop(kind, i)
    \/ \E kind \in Kinds : StopAllBegins(kind)
    \/ StopAllNext
    \/ \E i \in Ids : WorkerEnds(i)

Spec == Init /\ [][Next]_vars

(* The RPC thread keeps running the handler it is in. *)
FairSpec == Spec /\ WF_vars(StopAllNext)

-----------------------------------------------------------------------------
(* Properties *)

Listed(q) == ToSet(queue[q])

(***************************************************************************)
(* The lengths that size the arrays of the get handlers are the lengths of *)
(* the lists those handlers then walk; no list holds a task twice; the     *)
(* thread queue holds the captures and the replays and nothing else.       *)
(***************************************************************************)
LengthsAgree == \A q \in Queues : length[q] = Len(queue[q])
NoDuplicates ==
    \A q \in Queues : \A m, n \in 1..Len(queue[q]) :
        queue[q][m] = queue[q][n] => m = n
SameTasks ==
    \A t \in Tasks : \A kind \in Kinds :
        t \in Listed(kind) <=> t \in Listed("thread") /\ heap[t].kind = kind
QueuesAgree == LengthsAgree /\ NoDuplicates /\ SameTasks

(***************************************************************************)
(* A task in a queue is allocated memory (no queue holds a freed entry),   *)
(* and its id is that of a live thread, not cancelled, which works on this *)
(* very task: so an id names one task, even though ids are reused.         *)
(***************************************************************************)
ListedTasksRun ==
    \A q \in Queues : \A t \in Listed(q) :
        /\ heap[t] # None
        /\ worker[heap[t].id] = [arg |-> t, cancelled |-> FALSE]

(***************************************************************************)
(* A listed task has its socket and its PCAP descriptor open, and shares   *)
(* neither with another task, whatever was closed and reused before.       *)
(***************************************************************************)
OwnDescriptors ==
    \A q \in Kinds : \A t \in Listed(q) :
        /\ fds[heap[t].sock] = "sock"
        /\ fds[heap[t].pcap] = "pcap"
        /\ \A r \in Kinds : \A u \in Listed(r) \ {t} :
              heap[u].sock # heap[t].sock /\ heap[u].pcap # heap[t].pcap

(***************************************************************************)
(* Every thread that runs and was not cancelled belongs to a listed task,  *)
(* so that a client can find and stop it; unless pthread_detach() failed.  *)
(***************************************************************************)
NoUnreachableWorker ==
    "detach" \notin Faults =>
        \A i \in Ids : worker[i] # None /\ ~worker[i].cancelled =>
            \E t \in Listed("thread") : heap[t] # None /\ heap[t].id = i

(***************************************************************************)
(* A stop_all handler works from the head of its queue: the entry it       *)
(* handles next is the first one.                                          *)
(***************************************************************************)
CursorAtHead == loop # None => queue[loop] # <<>> /\ cursor = queue[loop][1]

(***************************************************************************)
(* "Returns 0 on success, else on failure" (dabbad/capture.c:140,191,225): *)
(* start replies 0 when one more task is listed and only then, stop when   *)
(* there is one less, and stop_all when none of its kind is left.          *)
(***************************************************************************)
RepliesHonest ==
    loop = None =>
        LET now == Len(queue["thread"])
        IN  /\ reply.rpc = "start" =>
                  now = IF reply.code = "OK" THEN reply.before + 1 ELSE reply.before
            /\ reply.rpc = "stop" =>
                  now = IF reply.code = "OK" THEN reply.before - 1 ELSE reply.before
            /\ reply.rpc = "stop_all" =>
                  (reply.code = "OK" <=> queue[reply.kind] = <<>>)

(***************************************************************************)
(* A task is never disturbed by what is done to another one: while it is   *)
(* listed its entry, its thread and its descriptors stay as they are, and  *)
(* it leaves the list only by a stop of its kind and its id, or by a       *)
(* stop_all of its kind.                                                   *)
(***************************************************************************)
Undisturbed(t) ==
    /\ heap'[t] = heap[t]
    /\ worker'[heap[t].id] = worker[heap[t].id]
    /\ fds'[heap[t].sock] = fds[heap[t].sock]
    /\ fds'[heap[t].pcap] = fds[heap[t].pcap]

Requested(t) ==
    IF loop = None
    THEN /\ reply'.rpc = "stop"
         /\ reply'.kind = heap[t].kind
         /\ reply'.id = heap[t].id
    ELSE loop = heap[t].kind

TasksUndisturbed ==
    [][\A t \in Listed("thread") :
          IF t \in Listed("thread")' THEN Undisturbed(t) ELSE Requested(t)]_vars

(***************************************************************************)
(* A stop_all handler ends and sends its reply.                            *)
(***************************************************************************)
StopAllReplies == loop # None ~> loop = None

(***************************************************************************)
(* "As long as dabbad is running, captures tasks can be submitted"         *)
(* (README.md:101): when no task runs, the two descriptors that a new one  *)
(* needs can be had.                                                       *)
(***************************************************************************)
TasksCanBeSubmitted ==
    queue["thread"] = <<>> => Cardinality(ClosedFds) >= 2

=============================================================================
