# A TLA+ model of dabba

dabba is a suite of network tools around the packet sockets of Linux: a daemon,
`dabbad`, which runs capture and replay threads on memory-mapped packet rings,
and a command line, `dabba`, which asks the daemon over a protobuf RPC to start,
list, modify and stop them and to show and change the settings of the network
interfaces. This directory holds TLA+ models of the parts of it whose
correctness depends on an order of events, the TLC configurations that check
them, and proofs checked by TLAPS. `PROJECT.json` lists the runs, the source
lines behind every definition, the hazards and the theorems.

## Inventory

| Component | State it keeps | Operations | Interacts with | What is hard |
|---|---|---|---|---|
| Packet thread queue, `dabbad/thread.c` | a TAILQ of `packet_thread` and a length counter | insert, remove, find, start, stop; get, modify, capabilities | embedded in captures and replays; pthreads | thread ids are reused; cancelled threads end late; detach fails after create |
| Capture manager, `dabbad/capture.c` | a TAILQ of `packet_capture` and a length; per capture a ring, a socket filter, two descriptors | RPCs start, stop, stop_all, get | thread queue, packet mmap, PCAP, socket filter | seven steps of start that can fail; stop takes things away from a running thread |
| Replay manager, `dabbad/replay.c` | the same for `packet_replay` | the same | the same, without filter | the same |
| Packet reception, `libdabba/packet-rx.c` | the slot it looks at | an endless loop: wait, test, write, release | shares the RX ring with the kernel; writes the PCAP file | two walkers of one ring that must stay in step |
| Packet transmission, `libdabba/packet-tx.c` | the slot it fills, the end-of-file flag | an endless loop: fill, send, rewind | shares the TX ring with the kernel; reads the PCAP file | the loop restarts at slot 0, the kernel does not |
| Packet mmap, `libdabba/packet-mmap.c` | ring layout, mapping, vector | create (register, map, vector, bind), destroy | captures, replays | four steps with roll-back; 32-bit products that wrap |
| PCAP files, `libdabba/pcap.c` | a file and the offset of each descriptor | create, open, write, read, rewind | both loops | records are two writes; appending is an offset taken once |
| Socket filters, `libdabba/sock-filter.c`, `dabbad/sock-filter.c` | none | validate, attach, detach, convert | capture manager | jump offsets that wrap; fields that lose their high bits |
| Interface settings, `dabbad/interface-*.c`, `libdabba/interface.c` | none of its own; the kernel's | get and modify for status, settings, pause, coalesce, offload, driver, capabilities, statistics | ethtool ioctls, netlink | read-modify-write; several settings per request, of which one may fail |
| RPC server and daemon, `dabbad/dabbad.c`, `rpc.c`, `misc.c` | configuration, pid file, dispatcher | start-up, event loop, clean-up | all handlers | runs every handler in one thread |
| RPC client, `dabba/rpc.c`, `cli.c` | one request | connect with retries, call, wait | the daemon | waiting for a reply that may not come |
| Command line, `dabba/*.c` | none | parse options, print YAML | RPC client | what its user may conclude from a code, an id or a list while other clients and the daemon go on |

The daemon's event loop (`dabbad/rpc.c`) is single threaded, so RPC handlers
never interleave with one another. What runs concurrently are the worker threads
(one per task), the kernel's side of the rings, and anyone else who uses the same
files and interfaces.

What makes the parts correct:

- *Tasks*: the three queues agree with each other and with their length counters;
  a listed task is allocated, its thread runs, its descriptors are open and its
  own; stopping or failing to start one task leaves the others alone; a reply
  tells what happened; every thread can be found and stopped.
- *Reception*: a frame is written once or accounted for as dropped or lost; in
  order; eventually.
- *Transmission*: what is read is sent once; every record is sent on every pass.
- *Teardown*: a stopped thread touches nothing that was taken away.
- *PCAP files*: what was written reads back, also after appending.
- *Rings*: a running capture has the ring that was asked for; nothing of a ring
  is left behind by a failed start or by a stop.
- *Clients*: a command ends; a printed code is true; a start that fails leaves no
  task behind; an id that was listed stops that task.
- *Filters*: a filter that is attached stays inside its program and its memory,
  and is the one that was asked for.
- *Threads*: a modify changes what it names, a list shows what is set, a CPU list
  reads back as the affinity it was printed from.
- *Interfaces*: a get shows values the interface really had, for every interface
  that was asked for; a modify changes what was asked for and nothing else, whatever
  fails on the way; what it reports is what happened; a failure leaves a state
  that can be told from the report.

## Modules

| Module | Models | State | Actions |
|---|---|---|---|
| `TaskManager` | the queues of `thread.c`, `capture.c`, `replay.c` with their start, stop and stop_all handlers | the TAILQs and lengths, the heap of tasks, threads by `pthread_t`, the descriptor table, `errno`, the loop of stop_all, the last reply | `Start` (refused, header cut short, aborted, not detached, done), `Stop` (fails, done), `StopAllBegins`, `StopAllNext`, `WorkerEnds` |
| `TaskManagerProofs` | - | - | the theorems about `TaskManager` and `TaskRefinement` |
| `TaskTable` | what the daemon promises of its tasks: a table in which a request takes effect at once | the running tasks, the last reply | `Start` (`Added` or `Refused`), `Stop`, `StopAll` |
| `TaskRefinement` | that `TaskManager` implements `TaskTable` | - | the mapping `TableTasks` and `TableReply`, `ImplementsTable` |
| `TaskClient` | the capture, replay and thread-list commands of `dabba`, the connection of `dabba/rpc.c`, the daemon as a `TaskTable` with a filter for each task, other clients | tasks and their filters, whether the daemon is up and whether a handler keeps it, the command with its phase, dispatcher runs, code, list and exit status, an entry the user remembers | dabba: `Type`, `Dispatch`, `Display`, `DisplayLost`; dabbad: `Serve`, `ServeOther`, `Hangs`, `DaemonEnds`, `DaemonStarts`; the network: `ConnectionBreaks` |
| `TaskClientProofs` | - | - | the theorems about `SockFilter` and `TaskClient` |
| `SockFilter` | the filter file (`dabba/sock-filter.c`), the conversions (`dabbad/sock-filter.c`), the validator (`libdabba/sock-filter.c`) and, for reference, what a filter does when it is run | none | operators: `Parsed`, `ToNative`, `ToWire`, `IsValid`; reference: `After`, `StaysInside`, `GoesForward`, `OperandsFit` |
| `ThreadSettings` | modify, get and capabilities of threads, with both conversions between CPU sets and lists | listed threads, their scheduling parameters and affinity, what the C library keeps of the former, the handler's program counter, request, wanted values, code and rows | `ModifyNothing`, `ModifyReads`, `SetSched`, `SetCpus`, `Get`, `GetRow`, `Capabilities`, `CapabilitiesFail`, `Display`, `DaemonEnds`, `ThreadStarts`, `ThreadStops`; others: `Other` |
| `ThreadSettingsProofs` | - | - | the theorems about `ThreadSettings` |
| `PacketRx` | `ldab_packet_rx()` and the kernel's side of the RX ring | slot status and contents, the kernel's head, the loop's program counter and index, the file | `Check`, `PollReturns`, `PollFails`, `PollSeesError`, `Test`, `Write`, `Release`; kernel: `Arrive`, `HandOver` |
| `PacketRxProofs` | - | - | the theorems about `PacketRx` |
| `PacketTx` | `ldab_packet_tx()` and the kernel's side of the TX ring | slot status and contents, the kernel's head, the loop's counter, slot, file position and eof flag | `FillPasses`, `FillReads`, `FillEnds`, `SendReturns`, `Rewind`; kernel: `Takes`, `Refuses`, `Completes` |
| `PacketTxProofs` | - | - | the theorems about `PacketTx` |
| `PacketMmap` | the ring of `libdabba/packet-mmap.c` | none | operators: `Layout`, `Creatable`, `MapSize`, `Vector`, `Munmapped`, `Unregistered`, `Destroyed`; kernel: `KernelTakes`, `Mappable` |
| `CaptureTeardown` | the life of a ring: its creation in `dabbad_capture_start()`, `dabbad_capture_stop()` and `ldab_packet_mmap_destroy()` step by step beside the loop of `ldab_packet_rx()` | how far the handler is, where the thread is, what was written, what was asked for, the ring, whether the daemon lives | `Ask`, `Register`, `Map`, `VectorCreate`, `Bind`, `ThreadStart`; `StopStep`; thread: `LoopTest`, `ReadVec`, `ReadStatus`, `Poll`, `TestStatus`, `ReadArgs`, `WriteHeader`, `WritePayload`, `ReleaseSlot` |
| `CaptureTeardownProofs` | - | - | the theorems about `PacketMmap` and `CaptureTeardown` |
| `PcapFile` | one PCAP file and the captures that write it | the cells of the file, an offset and a pending record per descriptor | `Create`, `OpenAppend`, `WriteHeader`, `WritePayload`, `WriteFails`, `Stop`; `ReadBack` is what `ldab_pcap_read()` returns |
| `PcapFileProofs` | - | - | the theorems about `PcapFile` |
| `InterfaceCli` | the options of `dabba interface <kind> modify` and the request they make | none | operators: `ErrorOf` (the error an option ends the command with), `Given`, `Message` |
| `InterfaceModify` | one such command, the handler of `dabbad/interface-*.c` that serves it, the kernel's settings | settings, whether the interface is there, the command's stage, exit code and printed code, the handler's request, program counter, `rc`, flags of the cached link, `struct` copy and features left | dabba: `Rejects`, `Accepts`, `Connect`, `ConnectFails`, `Reply`, `Killed`; dabbad: `Lookup`, `Fetch`, `Set`, `Change`, `Offload`, each with its failure, `OffloadDone`; others: `Touch`, `Unplug` |
| `InterfaceGet` | the eight get commands of interfaces and their handlers | the device behind each name, its settings, the snapshot of the links, the names that are left, the row and the driver call it is at, the list | dabba: `Type`, `Display`; dabbad: `Snapshot`, `RowMissing`, `RowBegins`, `RowSkipped`, `RowFreed`, `Call`, `RowEnds`, `ReplyRows`, `DaemonEnds`; kernel: `FieldChanges`, `LinkAppears`, `LinkGoes`, `LinkRenamed` |
| `InterfaceProofs` | - | - | the theorems about `InterfaceModify` and `InterfaceGet` |

`MC...` modules instantiate these for TLC. Definitions commented *Mutant* are
deliberately wrong forms of the definition that follows them; each is listed in
`PROJECT.json` with the property it must break.

How the modules fit together. `TaskManager` treats a handler as one action, as
the RPC thread does, and the two worker loops as threads that run until they are
cancelled and end some time later. `PacketRx` and `PacketTx` are what such a
thread does while it runs. `CaptureTeardown` opens the handlers that are not
atomic with respect to a worker, the start and the stop of a capture; it extends
`PacketMmap`. `PcapFile` takes from it
that a record may be cut when its capture is stopped. `InterfaceModify` stands
beside them: its handlers share nothing with the tasks but the RPC thread. It
extends `InterfaceCli`, so that the requests its handlers see are those the
command line can make. `InterfaceGet` is the other half of the interface
commands; get and modify share no state but the kernel's.

`TaskTable` is the abstract view of the task handlers. `TaskRefinement` maps the
queues, heap and threads of `TaskManager` to it: a task of the table is a listed
one, and while stop_all runs a listed one of another kind; so the table is cleared
at the step in which its loop starts. `TaskClient`
builds on the table instead of the queues: what holds for clients of the table
holds for clients of the daemon. It also extends `SockFilter`, since a filter is
the part of a start that goes through every layer.

Abstractions:

- A failing call returns one error, not one of many; `errno` is whether some call
  of the RPC thread has ever failed, which is all that the short-header path of
  `ldab_pcap_create()` can tell apart.
- `Lowest` gives a task the two lowest free descriptors, as `socket(2)` and
  `open(2)` do; descriptors of RPC connections are not counted.
- The fields of packets and of PCAP headers are left out; a record is a header
  cell that says how many payload cells follow.
- The kernel is modelled from how the loops use it: a ring whose head advances
  over free (RX) or requested (TX) slots, `poll()` that reports the slot behind
  the head, `send()` that may stop short, frames that complete in any order.
  These definitions are marked external in the map.
- Undefined behaviour in `CaptureTeardown` (reads of freed memory) is a choice
  between the old contents and a bad access.
- A write is one step, taken when the call begins, in which it succeeds, or fails or
  comes short; `ldab_pcap_write()` then returns and the loop goes on. A cancelled
  thread acts on the cancellation at its next `poll(2)` or `write(2)`, as POSIX says.
- In `InterfaceModify` the settings are a function from fields to numbers, all of
  the same small set, `struct ethtool_cmd.port` the set of its bits, so that or
  and and-not with a `PORT_` number do what they do in C. A kernel call is one
  step, in which it succeeds or fails; `rtnl_link_change()` that fails may have
  applied any of its attributes. libnl takes the flags that a change does not name
  from the link it is given as the original, and the kernel writes all of them: so
  `Change` of a status request writes the flags that were in the cache. Getting a
  structure and modifying the copy are one step: the copy is the handler's own.
- In `TaskClient` one command is followed through; the other clients are an
  action that serves any request, and one for the request that never comes to its
  end (`Hangs`, see `ThreadSettings`), after which only the end of the daemon helps. The options that shape a ring or name a file
  decide whether a start is refused, which is left open. An instruction of a
  filter is a record of its four numbers; the widths of the fields are
  parameters, so that all of them can be exceeded by small numbers.
- In `ThreadSettings` a CPU list is a sequence of entries, an entry the numbers
  that `sscanf()` finds in it; `unsigned int` and `int16_t` have `Word` and `Short`
  values. The kernel's checks of policies, priorities and affinities are external.
- In `InterfaceGet` a field has two values, and one field stands for all that one
  driver call reads. Connecting is left to `TaskClient`: a get that cannot connect
  has no effect. 0 is what a field holds that was not read. The snapshot is a function
  from the names in the cache to what it holds of each link; the kernel may
  deliver the table in any order.
- In `PacketMmap` a slot is where it begins; the kernel takes a ring of whole
  pages whose blocks hold as many frames as were announced, in numbers of `Word`
  values.
- `--id`, `--tcp` and `--local` of `InterfaceModify` are left out: there is one
  interface and one daemon. `maxrxpkt`, `maxtxpkt` and `port` of a settings request, and
  `stats_block_coalesce_usecs` of a coalesce request, are missing because dabba
  has no way to send them: the first three have no option, and the option of the
  last, `--stats-block-usecs`, has no case in the loop and ends the command as
  `--help` does.
- The duplex options of `capabilities` get lost in the model where they do in the
  code: without `--speed`, with `--speed 2500`, and `--half-duplex` at 10 Gbps.

## Runs

Passing runs:

- **tasks** (3 task addresses, 3 thread ids, 6 descriptors, symmetric in
  addresses and ids, 163 000 states). Three tasks make head, middle and tail of a
  queue different; six descriptors are just enough for three tasks and run out
  after leaks, so that starts at the limit occur; three ids are reused while
  cancelled threads still hold others. `TypeOK`, `QueuesAgree`,
  `ListedTasksRun`, `OwnDescriptors`, `RepliesHonest`, `TasksUndisturbed`.
  `pthread_detach()` may fail; a partial write of the PCAP header may not, since
  it makes start lie (below).
- **tasks_reachable** (2 tasks, 2 ids, 4 descriptors; partial header writes):
  `NoUnreachableWorker`, `StopAllReplies` under fairness, and `ImplementsTable`:
  every behaviour of the handlers, those with failures and reused ids included, is
  one of `TaskTable`. Without symmetry, because of the temporal properties.
- **rx** (4 slots, 6 frames, 1 or 2 CPUs, up to 2 failing polls, failing writes):
  `Conservation` in all cases; `InOrder`, `DropsOnlyWhenFull` and
  `SteadyTrafficWritten` as long as poll has not failed and one CPU fills the ring.
  Six frames wrap a ring of four and fill it. Rings have at least eight slots in
  the code (`frame_nr / 8` must not be 0); the loop does not know, and four
  already have slots before, at and behind both walkers.
- **tx** (3 slots, files of 1 to 4 records, prompt or slow interface, possibly a
  refused last record): files shorter than, equal to and longer than the ring.
- **teardown** (up to 3 records; frames of 4 or 16 bytes, frame numbers from 1 to
  520 where an unsigned int has 512 values): every step of the creation failing or
  not, and every interleaving of the seven steps of the stop with the loop. Among
  the rings are ones with less than a block, with a number that is no power of
  two, with a number and with a product that wrap. Every write may fail, at which the
  loop goes on with the next slot (6 600 states). `RingAsAsked`, `NoRingLeft`,
  `NoWriteAfterStop`, `OnlyLastRecordCut`, and `StoppedThreadEnds` under fairness.
  `OnlyLastRecordCut` promises that no payload is written without its header, whatever
  fails; and that only the last record is cut as long as no write has failed, which the
  history variable `failed` remembers.
- **pcap** (2 captures, 4 records of two lengths, cuts, failing writes, sharing).
- **interfaces** (two values, at most two options from those in
  `MCInterfaceModify`, one setting touched by another program, 883 000 states).
  Two options make a request of two parts, two features with a failure between
  them, two ports that share a bit, and an error before or after a good option.
  One touch is enough to fall before, into and after the windows between get and
  set and, for status, between the link cache and the change; the proofs do not
  depend on the bound. `OnlyRequested`, `AllOrNothing`,
  `ZeroMeansApplied`, `OffloadsInOrder`. The first exempts fields that another
  program changes inside these windows, whose change the handler undoes; the third
  exempts what the disagreements below are about.

- **clients** (2 ids, 9 filter files, 4 runs of the dispatcher, memory failures,
  140 000 states). Two ids are enough for one that is reused while the user
  remembers it. With words of 32 values, shorts of 24 and bytes of 4 the files
  hold jumps that wrap, branches and codes that are cut, a store outside the
  scratch memory and a malformed line. `ZeroMeansDone`, `NoStrayTask`,
  `ListedIdStops`, `FiltersStayInside`, `FilterKept`, and `CommandEnds` under
  fairness. The daemon may end and restart as often as it likes, be hung by another
  client's request, and connections may break. `CommandEnds` leaves out the command
  that waits for a hung daemon, and `NoStrayTask` the one whose connection broke while
  the daemon went on.
- **threads** (2 threads, 5 of 6 CPUs online, 9 requests, 2 affinities and 2
  policies that other programs set, 235 700 states). The requests have a real-time
  policy without a priority (refused), a priority that is cut, an unknown policy,
  lists with a stride, with an unreadable entry, without any CPU that is online,
  and two that do not end. `OnlyNamed`, `AnswersHonest`
  (`ZeroMeansSet` and `FailureKeepsAffinity`), `ShownTrue`, and `ModifyEnds` under fairness.
- **iget** (2 names, 2 devices, all 8 kinds, three lists of names, at most 2
  changes of interfaces, 615 000 states). Two changes suffice to take a name from
  one device and give it to another, or to change a value and change it back,
  within one request. Four fields change and four calls fail, among them the
  first and the last of the seven calls of offload. `RowsTrue`, `RowsComplete`, and
  `GetEnds` under fairness.

Runs that show a disagreement between the code and what is said of it:

- **tasks_leak**: `TasksCanBeSubmitted`, from README.md:101. Failed starts forget
  `pcap_fd` and stops forget the socket.
- **teardown_crash**: `StopIsAnswered`, from dabbad/capture.c:140. The ring is
  unmapped under a thread that was cancelled but has not ended.

Further disagreements follow from changing a constant or a property of these runs
and have no run of their own. Tasks and packets:

- `AllTrafficWritten`, of which `SteadyTrafficWritten` is what holds, fails in
  **rx** after a failed `poll()`: the loop then looks at another slot than the
  kernel fills (dabba/capture.c:58).
- `AppendedFileReadsBack`, of which `UndamagedFileReadsBack` is what holds, fails
  in **pcap**: a capture that was stopped between the two writes of a record leaves
  a cut one, and the next capture appends behind it (dabba/capture.c:68).
- `RepliesHonest` fails in **tasks** with `Faults = {"short_header"}`:
  dabbad/capture.c:269 replies with an `errno` nobody has set.
- `AppendedFileReadsBack` fails with two captures and `Damage = {"shared"}`:
  libdabba/pcap.c:212 drops `O_APPEND`.
- `AllFramesSent` (dabba/replay.c:94, "read all frames from the pcap file") fails
  in **tx**: a slot in `TP_STATUS_WRONG_FORMAT` is never used again, and the
  kernel's head stays on it. `AcceptedFramesSent` is what is left of it.
- `ZeroMeansApplied` fails without its exemption of `Mixed` requests:
  dabbad/interface-settings.c:230 overwrites the error of the ethtool part.
- A modify command exits with 0 whatever it prints, against "Returns 0 on
  success, else otherwise" (dabba/interface-settings.c:239): `Reply` and `Killed`
  exit with 0. So do the commands for tasks and threads.
- `OnlyRequested` fails without its exemption of the windows: a pause modify undoes
  what another program has changed since it read the structure
  (dabbad/interface-pause.c:167), and a status modify what it has changed of the flags
  since the link cache was filled (dabbad/interface-status.c:190), against "This RPC
  only modifies the requested interface status" (dabbad/interface-status.c:145).
- `--stats-block-usecs` (dabba/interface-coalesce.c:126) is refused.
- dabbad never looks at `lro` and `rxhash` of an offload request and replies 0
  (dabba/interface-offload.c:108); `ZeroMeansApplied` leaves them out.

Lists of interfaces:

- The code of an offload row is that of the last of seven calls
  (dabbad/interface-offload.c:71): `RowsTrue` cannot cover the others.
- `rxhash` is never sent, because line 69 of that file sets `rxhash` where
  `has_rxhash` is meant; it is shown as off. `lro` is neither read nor shown.
- `port` of a settings row is announced but never filled in
  (dabbad/interface-settings.c:69).
- `__interface_capabilities_get()` goes on with an entry it has freed
  (dabbad/interface-capabilities.c:159).

Clients and threads:

- A connection that is made in the last of the four runs of the dispatcher is
  dropped (dabba/rpc.c:49): `Dispatch`.
- A get with `--id` writes through a pointer nobody has set
  (dabba/capture.c:608, dabba/replay.c:565, dabba/thread.c:334): `WildWrite`. `cmd_replay_get()` does not
  shift its arguments, so it ignores its first option. dabbad ignores the ids.
- Without memory, or when the daemon ends, a list is printed as an empty one.
  `dabbad_capture_get()` then also frees a filter it has not allocated.
- A modify of a thread that does not exist answers 0, an unknown policy name is
  taken for `other`, and a CPU list that cannot be read is applied as far as it
  could be, with code 0 (dabbad/thread.c:383): `ZeroMeansSet` leaves these out.
- A list with a stride of 0, or one that ends at the largest `unsigned int`, hangs
  the daemon (dabbad/thread.c:284): `ModifyEnds` leaves these out. Every command that
  waits for an answer of the hung daemon waits until someone ends it
  (dabba/rpc.c:60): `CommandEnds` leaves these out.
- A start whose TCP connection breaks after it was served prints EINVAL while the task
  runs (dabba/rpc.c:104): `NoStrayTask` leaves this out.
- `cpu_affinity2str()` never sets the length of a group back
  (dabbad/thread.c:176), so that "0,1-4,5,7" (dabbad/thread.c:191) cannot be
  printed: `ShownTrue` promises equality only up to the first group.
- Without memory `dabbad_thread_capabilities_get()` reads through a null pointer
  (dabbad/thread.c:565): `CapabilitiesFail`.
- `ldab_sock_filter_is_valid()` accepts a jump that wraps to an earlier
  instruction; only the kernel's own check keeps it out.

Deadlock is checked for `TaskManager`, `PacketTx`, `TaskClient`,
`ThreadSettings` and `InterfaceGet`. In `PacketRx`,
`CaptureTeardown`, `PcapFile` and `InterfaceModify` the model may stop: the loop
blocks in `poll()` when no frame arrives, a cancelled thread ends, a command ends,
and the bounds on frames and records are used up.

## Fairness

- `TaskManager`: weak fairness of `StopAllNext`, the RPC thread going on with the
  handler it is in. Nothing is assumed of workers: the mutant in which the
  handler waits for them shows that this matters.
- `PacketRx`: weak fairness of the loop (the thread is scheduled, and `poll()`
  returns when the socket is readable) and of `HandOver` (the kernel finishes a
  copy it has begun). Frames need not arrive, and `poll()` need not fail.
- `PacketTx`: weak fairness of the loop, of the return of `send()` and of
  `Completes`; strong fairness of `Takes` and `Refuses`, because a full send
  buffer, which lets `send()` return early, does not stay full for ever.
- `CaptureTeardown`: both threads are scheduled. Freed memory need not be reused,
  and a capture need not be started.
- `TaskClient`: weak fairness of `Dispatch`, `Serve`, `Display` and `DisplayLost`,
  each a loop that has nothing else to do. `Serve` is only enabled while the RPC thread
  comes back to its loop: after `Hangs` nothing is assumed of it. The daemon need not
  be started again, nor stay up, nor be ended when it hangs.
- `ThreadSettings` and `InterfaceGet`: weak fairness of the steps of a handler and
  of the closure, as for the RPC thread above, once it is in that handler: a request
  of another client that hangs it before is the case of `CommandEnds`. Users, other programs and
  interfaces do as they like.
- `PcapFile` and `InterfaceModify` state safety only and assume none.

## Proofs

`TaskManagerProofs` proves, for all sets of addresses, ids and descriptors and
all `Faults`:

- `TypeCorrect`, `QueuesAlwaysAgree`, `ListedTasksAlwaysRun`,
  `DescriptorsAlwaysOwned`, `WorkersAlwaysReachable`: the invariants of the same
  contents that the runs check;
- `TasksNeverDisturbed`: the action property `TasksUndisturbed`;
- `RepliesAlwaysHonest`: `RepliesHonest`, if `"short_header" \notin Faults`. With a
  short header the property is false, see the disagreements above;
- `Refinement`: `ImplementsTable`, that the handlers implement `TaskTable`.

They follow from one inductive invariant, `IndInv`: the type invariant,
`QueuesAgree`, `ListedTasksRun`, `OwnDescriptors`, `NoUnreachableWorker` and
`CursorAtHead`. None is inductive alone. That a new task is not yet in a queue
needs `ListedTasksRun` (a listed address is not free); that removing the first
thread with an id removes the right one needs the worker of each listed task to
point back to it, so that ids are unique (`IdsUnique`); that freeing a task leaves
no pointer to it needs `NoDuplicates` and `SameTasks`; and that the pointer
`stop_all` has saved is valid in the next iteration needs `CursorAtHead`.
The proof that a step preserves the invariant has a lemma for each action;
`Released` and `ReleaseInv` are shared by stop and stop_all.
`CursorCanStop` shows on the way that the `break` in the loops of stop_all is
never taken: the thread of a listed task can always be cancelled.

`RepliesHonest` is inductive relative to `IndInv`: a reply remembers the length of the
thread queue before its request, and no step of a worker changes it. `Refinement` goes action by action: `TableTasks`
of the next state is that of this state with a task added (`StartRefines`), with
one removed (`StopRefines`), without those of a kind (`StopAllBeginsRefines`), or
the same, for the iterations of stop_all and for workers that end
(`StopAllNextStutters`, `TableKept`). That an added entry has an id of its own, and
that a removed one is the only one of its id, is `IdsUnique` again.

Assumptions: descriptors are natural numbers, `Faults` are those the module
knows, and `None` is none of the other values (`FdsAssumption`,
`FaultsAssumption`, `NoneAssumption`).

`InterfaceProofs` proves of modify commands, for all options used, values, speeds
and bounds, `OnlyRequestedHolds`, `AllOrNothingHolds`, `ZeroMeansAppliedHolds` and
`OffloadsInOrderHolds`, the four properties of run **interfaces**. The inductive
invariant `IInv` has eight parts:

- `Shape`: types, and what the program counter says about the rest (which kinds
  can be where, that an error code is set only after a failure, that a request
  has no fields of another kind);
- `Calm`: up to the set, the settings are what they would be without the handler;
- `CopyGood`: while the handler is between get and set, its copy has the requested
  values in the requested fields and, elsewhere, what the settings have now unless
  a field was changed in the window. This is the part that makes `OnlyRequested`
  inductive: `Set` overwrites the whole structure, so the copy has to be right
  before;
- `LinkGood`: the same for the netlink change of status. The flags of the cached link
  are what the settings have now, unless one was changed since;
- `OnlyRequested` itself;
- `FailureKept` and `SuccessKept`: a handler that carries an error code has left
  its structure alone, and one about to reply 0 has applied what was asked for; the
  two printed-code properties are these at the moment of the reply;
- `OrderKept`: the features are applied up to some number, and those that are left
  are the ones after it.

There is a lemma for each group of actions; lemmas about `Message`, `Given` and
`FieldOf` show that a request has the fields its kind may have. `ModifyTypeCorrect`
is the type invariant. It is inductive with the types of the request, the copy and the cached flags
(`Typed`), since these are what the handler writes; `RequestTypes` follows an option
from the command line to its field: `GivenValues` takes the last of equal options,
`FieldExists` finds the field. Assumptions: `UsedAssumption`, `ValuesAssumption`,
`SpeedsAssumption`, `BoundsAssumption`.

Of get commands it proves, for any names, devices and lists of names and any number
of changes of interfaces, `RowsAlwaysTrue` and `RowsAlwaysComplete` (`RowsTrue` and
`RowsComplete` of run **iget**) and `GetTypeCorrect`. The parts of the inductive
invariant `GetInv`:

- `GetTypeOK` and `Walk`: types, and which of the handler's variables are in use at
  each position of its program counter;
- `Current`: what can be read now is among what was so during the request, and
  `Witnessed`: so is all that the snapshot holds. A row takes its first fields from
  the snapshot, long after the interface may have been renamed or replaced, and the
  others from calls that go by name, so both are needed at every step;
- `Filling`: what an unfinished row holds between two calls: what was read so far was
  so under the row's name, or it is 0 because its call failed, and after a failure
  of the last call the row has an error code. `RowFinished` makes of this, at the end
  of a row, what `RowsTrue` asks for; that no field is read twice is a lemma about
  the eight kinds (`RowKinds`);
- `Listed`: `RowsTrue` of the list so far;
- `Counted` and `Named`: each interface that kept its name is in the rows, in hand or
  still to come as often as it was asked for, and no row has a name that was never
  in use. `TimesLonger`, `TimesTail` and `TimesListing` are what appending, taking
  the first and listing a set without repetitions do to a count;
- `Ordered`: the rows are those of the names the snapshot knows among the ones that
  were gone through, at increasing positions of the request, and the names that are
  left are the rest of it; `InOrderMissing`, `InOrderTaken` and `InOrderEnds` move
  this along a name that is not found, one that gets a row, and the end.

Assumptions: `NamesAssumption`, `IdListsAssumption`, `BoundAssumption`.

`PacketRxProofs` proves, for rings of every size and any number of CPUs, frames
and failing polls (the `...Assumption`s of `PacketRx` say that these are numbers):

- `FramesConserved`: `Conservation`. To be inductive it needs `Owned`: a slot the
  kernel copies into is not yet the loop's, and the one the loop works on is not yet
  the kernel's; otherwise a frame could be overwritten between its test and its
  write;
- `FileInOrder` and `NoNeedlessDrop`: `InOrder` and `DropsOnlyWhenFull`, from
  `OrderInvariance`. `Ordered` says where the two walkers are: the slots in use are
  exactly those from the loop's index up to the kernel's head (`Window`), the frames
  in them come in the order of arrival, and all of them after those in the file.
  It holds while one CPU fills the ring and `poll()` has not failed (`Steady`).

`PacketTxProofs` proves, for rings of at least two slots and files of every length:

- `RecordsSentOnce`: `SentOnce`, an equation between what was read, what was sent
  and the number of slots in which a record waits; inductive with `Filled`, that a
  slot in use holds a record;
- `FileOrderKept`: `InFileOrder`, from `Rounds`, which says for the loop's filling,
  its sending and the end of the file which slots are free and which record was
  the last one sent. `EndsAtFirst` is the arithmetic: the end of the file falls on
  the first slot because the number of records is a multiple of that of slots.

`CaptureTeardownProofs` proves, for all frame sizes, frame numbers and widths of an
`unsigned int`:

- `Cleanup` and `RingSound`: `NoRingLeft` and `RingAsAsked`. `IndInv` says what the
  ring is after each step of the start (`RingMade`) and of the stop (`RingUnmade`), and
  which tests of the layout have been passed by then (`Tested`). The arithmetic is
  in lemmas: of two powers of two one divides the other (`PowersDivide`), so a
  frame number that is a power of two after it was cut to 32 bits was not cut
  (`NothingCut`); a ring the kernel has registered and mapped holds all
  its frames (`FramesFit`);
- `RecordsWhole`: `OnlyLastRecordCut`, from where the thread is between its two
  writes and whether one has failed (`Writing`). That no payload is without its header
  needs no assumption on the writes: a header that fails ends `ldab_pcap_write()`;
- `StopSilences`: `NoWriteAfterStop`: the handler cancels first, and a cancelled
  thread ends at its next write;
- `TypeCorrect`: the type invariant, with the layout, the length of the mapping and
  the slots in 32 bits. It takes from `IndInv` which ring there is when, and from
  `Writing` (`WritesKept`) where the thread can be.

Assumptions: `RingAssumption`, among them that the number of values of an unsigned
int is a power of two, which `NothingCut` needs, and `FrameSizesAssumption`: the
frame sizes, constants of an enum, fit an int.

`PcapFileProofs` proves, for any number of captures and records and any `Damage`:

- `FileOnlyGrows`: `OnlyGrows`. It needs `Alone`: unless the file was shared,
  at most one capture has it open and its offset is the end of the file, also after
  a write that failed half-way; and `PendingOpen`, since the payload of a record is
  written without a look at the descriptor. `WrittenAtEnd` is what `write(2)` does
  there;
- `FileReadsBack`: `UndamagedFileReadsBack`. `LaidOut` gives, for an undamaged file, the
  offset of each record written, its header and payload there, and behind the last
  one nothing or the header of the record being written (`Layout`). `ReadBack` is
  defined by recursion: `ReadsExists` shows that the function is there, from the end
  of the file to its beginning, and `LaidReadsBack` what it returns, from the last
  record to the first. Both go through the least element of a set of numbers
  (`DownTo`), since the prover has no induction schema.

`TaskClientProofs` proves, first, for all field widths with `Byte + Short <= Word`
(`WidthsAssumption`) and all filter programs:

- `ValidStaysInside`: a program the validator accepts never leaves its
  instructions. A jump is tested modulo `Word` and taken modulo `Word`; the branches
  cannot wrap because of the assumption; what is no jump and no return has an
  instruction behind it because the last one is a return (`NotLast`);
- `ValidGoesForward`: it goes forward, if no jump wraps. TLC shows that the
  hypothesis is needed: the program `Ja(Word - 1), Ret` is valid and jumps to itself;
- `ValidOperandsFit`: scratch memory and divisions by a constant;
- `ConversionKeeps`: a program that fits is not changed by the conversions.

And on these, for all sets of ids and files:

- `FiltersSafe` and `FiltersListedAsWritten`: `FiltersStayInside` and `FilterKept`. A
  start attaches what `ToNative` made of a file and the validator accepted. That
  this stays so (`FiltersFromFiles`) needs `IdsUnique`: memory is cleared by id, and a
  stop must not clear the filter of a task that goes on;
- `ZeroIsTrue`: `ZeroMeansDone`, from what each phase says of code and effect
  (`CommandInv`);
- `ListedIdsStop`: `ListedIdStops`, from `ObserverInv`: a remembered entry that is
  alive is in the table, and so is every entry of a list that has run since it was
  made;
- `NoStrays`: `NoStrayTask`, from `StrayInv`: which task may run for the command in each
  phase. A request that is answered with anything but 0 starts none
  (`NothingStarted`), and a reply is lost with the daemon and its tasks, or with the
  connection;
- `TypeCorrect`: the type invariant of the command, the table and the histories, with
  the retries of the connection loop bounded by `nretry`.

Assumptions: `FilesAssumption`, that what is read of a file are instructions of a
message (`SelectSeq`, with which `Parsed` is written, has no facts in the prover's
library), and `NoneAssumption`.

`ThreadSettingsProofs` proves, for any number of threads, CPUs, requests and foreign
changes:

- `AnswersAreHonest` and `ChangesOnlyNamed`: `AnswersHonest` and `OnlyNamed`. The
  handler writes back what it has read, so the invariant has to say of every moment
  in between that what it is about to write is, for a setting that is not named,
  what the setting is now, or the setting is foreign (`KeepsSched`, `KeepsCpus`).
  For the scheduling parameters this rests on `LibraryFresh`: what the C library
  remembers is what the kernel has, or another program has changed it;
- `ListReadsBack`: `ReadsBack` of every CPU set. `WalksExists` shows that the recursion
  of `CpuList` has a solution and `RoundSays` what one round of the loop adds to
  the rest (`Says`): the entries cover every CPU that is left although `run` is never
  set back, and until the first group has been written they cover no other.
  `GroupEnds` counts a group, `RangeCovered` reads `a-b` in an unsigned int;
- `ShownIsTrue`: `ShownTrue`. The rows are the settings of their threads, in every
  interleaving (`RowsInv`), and their CPU lists read back.

Assumptions: `SizesAssumption` and `RequestsAssumption`.

Model-checked only: liveness under fairness, which is out of the prover's reach
(`StopAllReplies`, `SteadyTrafficWritten`, `AcceptedFramesSent`, `StoppedThreadEnds`,
`CommandEnds`, `ModifyEnds`, `GetEnds`). Every invariant and every action property
of the passing runs is a theorem, `RepliesHonest` under the hypothesis above.

## Not modelled

- The start-up of dabbad (options, `daemon(3)`, `core_enable()`, the pid file) and
  `fd_to_path()`: one process makes these calls one after the other before it
  serves anyone. The pid file is not truncated when it is
  overwritten, but nothing in the repository reads it.
- The YAML output, the help and version commands, the fields of PCAP headers,
  generated protobuf code, tests, build and packaging: no state, or no part of the
  program.
- Records longer than a ring slot (libdabba/packet-tx.c:63), and CPU lists longer
  than their buffer (dabbad/thread.c:195): both are about bytes.
- The stop of a replay besides its thread: the same calls in the same order as
  those of a capture, with a loop that has other cancellation points.

## Plan

1. (done) `TaskManager` and its invariants; `PacketRx`, `PacketTx`,
   `CaptureTeardown`, `PcapFile`; the inductive invariant of `TaskManager`.
2. (done) `InterfaceCli`, `InterfaceModify` and its inductive invariant.
3. (done) `InterfaceGet`, `ThreadSettings`, `SockFilter` with its proofs;
   `TaskTable` and the refinement; `TaskClient`; the creation of rings.
4. (done) Proofs: the refinement and `RepliesHonest` of `TaskManager`; the safety
   properties of `PacketRx`, `PacketTx`, `CaptureTeardown`, `PcapFile`, `TaskClient`
   and `ThreadSettings`, with what the recursive `ReadBack` and `CpuList` compute.
5. (done) Proofs: `RowsTrue` and `RowsComplete` of `InterfaceGet`; the type invariants of
   `InterfaceModify`, `InterfaceGet`, `TaskClient` and `CaptureTeardown`.
