----------------------------- MODULE TaskClient -----------------------------
(***************************************************************************)
(* The dabba commands that start, stop and list captures and replays       *)
(* (dabba/capture.c, replay.c, thread.c), from the shell through the RPC   *)
(* connection (dabba/rpc.c) to dabbad and back, while other clients use    *)
(* the same daemon and the daemon may end and be started again.            *)
(*                                                                         *)
(* The daemon is the table of TaskTable, which module TaskManager          *)
(* implements; a handler runs to its end before the next one, so what      *)
(* other clients do is one action per request served.                      *)
(***************************************************************************)
EXTENDS SockFilter

CONSTANTS
    Ids,      \* pthread_t values
    None,     \* no id, no command, no exit status
    Faults,   \* the rare failures of the environment this instance allows
    Files,    \* the socket filter files there are; <<>> for no such option
    Retries   \* nretry, the runs of the dispatcher a connection may take

ASSUME RetriesAssumption == Retries \in Nat \ {0}

(* No code is none of the codes. *)
ASSUME NoneAssumption == None \notin {"OK", "error"}

(* The fields sscanf() reads are those of a message. *)
ASSUME FilesAssumption ==
    /\ <<>> \in Files
    /\ \A file \in Files : Readable(file) => Parsed(file) \in Seq(Wire)

VARIABLES
    tasks,      \* the tasks of the daemon
    filter,     \* the socket filter of each running task
    given,      \* (history) the file that filter was read from
    up,         \* dabbad is there
    hung,       \* its RPC thread is in a handler that does not return
    phase,      \* where the command is: see Phases
    runs,       \* the dispatcher runs of the connection loop that failed
    cmd,        \* the command, None when none is running
    code,       \* the code received or printed
    list,       \* the list received
    exit,       \* the exit status of dabba
    held,       \* an entry of a list the user has read and remembers
    alive,      \* (history) that very task still runs
    effect,     \* (history) what the daemon did for the command
    kept,       \* (history) the entries of the list that run ever since
    own,        \* (history) the task started for the command, while it runs
    broken      \* (history) the connection broke while the daemon went on

daemon == <<tasks, filter, given, up, hung>>
command == <<phase, runs, cmd, code, list, exit, held, effect>>
history == <<alive, kept, own, broken>>
vars == <<daemon, command, history>>

Table == INSTANCE TaskTable WITH reply <- code

Kinds == {"capture", "replay"}
Entry == [kind : Kinds, id : Ids]
Phases == {"shell", "connect", "wait", "reply", "lost"}

(***************************************************************************)
(* The commands, by what they send: the RPC, the kind of task it is for,   *)
(* the id (None where no --id was given, which is an id no task has), and  *)
(* the file of --sock-filter.  Options that only shape a new task          *)
(* (interface, file, ring) decide whether the daemon refuses it, which is  *)
(* left open.                                                              *)
(***************************************************************************)
CaptureStart == [rpc : {"start"}, kind : {"capture"}, id : {None}, file : Files]
ReplayStart == [rpc : {"start"}, kind : {"replay"}, id : {None}, file : {<<>>}]
CaptureStop == [rpc : {"stop"}, kind : {"capture"}, id : Ids \cup {None}, file : {<<>>}]
ReplayStop == [rpc : {"stop"}, kind : {"replay"}, id : Ids \cup {None}, file : {<<>>}]
CaptureStopAll == [rpc : {"stop_all"}, kind : {"capture"}, id : {None}, file : {<<>>}]
ReplayStopAll == [rpc : {"stop_all"}, kind : {"replay"}, id : {None}, file : {<<>>}]
CaptureGet == [rpc : {"get"}, kind : {"capture"}, id : {None}, file : {<<>>}]
ReplayGet == [rpc : {"get"}, kind : {"replay"}, id : {None}, file : {<<>>}]
ThreadGet == [rpc : {"get"}, kind : {"thread"}, id : {None}, file : {<<>>}]

Command ==
    CaptureStart \cup CaptureStop \cup CaptureStopAll \cup CaptureGet
    \cup ReplayStart \cup ReplayStop \cup ReplayStopAll \cup ReplayGet
    \cup ThreadGet

TypeOK ==
    /\ tasks \in SUBSET Entry
    /\ filter \in [Ids -> Seq(Native)]
    /\ given \in [Ids -> Files]
    /\ up \in BOOLEAN
    /\ hung \in BOOLEAN
    /\ phase \in Phases
    /\ runs \in 0..Retries
    /\ cmd \in Command \cup {None}
    /\ code \in {"OK", "error", "EINVAL", None}
    /\ list \in SUBSET Entry
    /\ exit \in {"0", "EINVAL", "usage", "crash", None}
    /\ held \in Entry \cup {None}
    /\ alive \in BOOLEAN
    /\ effect \in {"none", "done", "refused"}
    /\ kept \in SUBSET Entry
    /\ own \in SUBSET Entry
    /\ broken \in BOOLEAN

Init ==
    /\ tasks = {}
    /\ filter = [i \in Ids |-> <<>>]
    /\ given = [i \in Ids |-> <<>>]
    /\ up = TRUE
    /\ hung = FALSE
    /\ phase = "shell"
    /\ runs = 0
    /\ cmd = None
    /\ code = None
    /\ list = {}
    /\ exit = None
    /\ held = None
    /\ alive = FALSE
    /\ effect = "none"
    /\ kept = {}
    /\ own = {}
    /\ broken = FALSE

-----------------------------------------------------------------------------
(* The command line *)

(***************************************************************************)
(* An option that is not known, --help, no memory, or a filter file that   *)
(* cannot be opened or read: dabba ends before it connects.                *)
(***************************************************************************)
Rejected(c) ==
    \/ exit' = "usage"
    \/ c.file # <<>> /\ exit' = "EINVAL"

(***************************************************************************)
(* A get with an id: the id list is an array of pointers, and what the new *)
(* one points to is written without having been allocated.  A get that     *)
(* survives this is one without an id, since the daemon ignores the list.  *)
(* cmd_replay_get() never sees its first option, but the second it does.   *)
(***************************************************************************)
WildWrite(c) ==
    /\ c.rpc = "get"
    /\ exit' = "crash"

Type(c) ==
    /\ phase = "shell"
    /\ code' = None
    /\ effect' = "none"
    /\ \/ /\ Rejected(c) \/ WildWrite(c)
          /\ UNCHANGED <<phase, cmd>>
       \/ /\ Readable(c.file)
          /\ phase' = "connect"
          /\ cmd' = c
          /\ exit' = None
    /\ own' = {}
    /\ broken' = FALSE
    /\ UNCHANGED <<daemon, runs, list, held, alive, kept>>

(* dabba ends; code, exit and effect stay for the reader. *)
Ends(status) ==
    /\ phase' = "shell"
    /\ runs' = 0
    /\ cmd' = None
    /\ list' = {}
    /\ exit' = status
    /\ kept' = {}

(* Connected, the call is made and its reply awaited without a timeout. *)
Sends == up /\ phase' = "wait"

(* Mutant: the runs are not counted. *)
DispatchForever ==
    /\ phase = "connect"
    /\ \/ Sends
       \/ UNCHANGED phase
    /\ UNCHANGED <<daemon, runs, cmd, code, list, exit, held, history, effect>>

(***************************************************************************)
(* One run of the dispatcher in dabba_rpc_client_connect(): the connection *)
(* is made or not.  One made in the last run is not used, and the command  *)
(* fails with EINVAL.  Once connected the request is sent.                 *)
(***************************************************************************)
Dispatch ==
    /\ phase = "connect"
    /\ IF runs + 1 = Retries
       THEN Ends("EINVAL")
       ELSE /\ \/ phase' = "connect" /\ runs' = runs + 1
               \/ Sends /\ runs' = 0
            /\ UNCHANGED <<cmd, list, exit, kept>>
    /\ UNCHANGED <<daemon, code, held, alive, own, broken, effect>>

-----------------------------------------------------------------------------
(* The daemon *)

(* ldab_sock_filter_attach(): the kernel checks the filter once more. *)
KernelTakes(prog) == GoesForward(prog)

(* The filter dabbad attaches for what the message carries, if it does. *)
Attachable(file) ==
    LET prog == ToNative(Parsed(file))
    IN  Parsed(file) # <<>> => IsValid(prog) /\ KernelTakes(prog)

(* Memory of a task that ended is cleared. *)
Forget(gone) ==
    /\ filter' = [i \in Ids |-> IF i \in gone THEN <<>> ELSE filter[i]]
    /\ given' = [i \in Ids |-> IF i \in gone THEN <<>> ELSE given[i]]

(* Mutant: the task is there before its filter is attached. *)
StartBeforeAttach(kind, file, c) ==
    \E i \in Ids :
        /\ Table!Added(kind, i)
        /\ UNCHANGED <<filter, given>>
        /\ c = IF Attachable(file) THEN "OK" ELSE "error"

Start(kind, file, c) ==
    \/ /\ Attachable(file)
       /\ c = "OK"
       /\ \E i \in Ids :
             /\ Table!Added(kind, i)
             /\ filter' = [filter EXCEPT ![i] = ToNative(Parsed(file))]
             /\ given' = [given EXCEPT ![i] = file]
    \/ /\ Table!Refused(kind, c)
       /\ UNCHANGED <<filter, given>>

Stop(kind, i, c) ==
    /\ Table!Removed(kind, i, c)
    /\ Forget({e.id : e \in tasks \ tasks'})

StopAll(kind) ==
    /\ Table!Cleared(kind)
    /\ Forget({e.id : e \in tasks \ tasks'})

(* What has become of the tasks that the user knows or has started. *)
Observed ==
    /\ alive' = (alive /\ held \in tasks')
    /\ IF phase = "wait" /\ phase' = "reply"
       THEN /\ kept' = list'
            /\ own' = tasks' \ tasks
       ELSE /\ kept' = kept \cap tasks'
            /\ own' = own \cap tasks'

(* dabbad_capture_get(), dabbad_replay_get(), dabbad_thread_get() *)
Shown(kind) == {e \in tasks : kind \in {"thread", e.kind}}

Answered(c, l, what) ==
    /\ phase' = "reply"
    /\ code' = c
    /\ list' = l
    /\ effect' = what

(* What the daemon did, from the code it answers with. *)
Outcome(c) == IF c = "OK" THEN "done" ELSE "refused"

ServeTask ==
    \E c \in {"OK", "error"} :
        /\ \/ cmd.rpc = "start" /\ Start(cmd.kind, cmd.file, c)
           \/ cmd.rpc = "stop" /\ Stop(cmd.kind, cmd.id, c)
           \/ cmd.rpc = "stop_all" /\ c = "OK" /\ StopAll(cmd.kind)
        /\ Answered(c, {}, Outcome(c))

(* The ids of the request are ignored; without memory there is no list. *)
ServeGet ==
    /\ cmd.rpc = "get"
    /\ \/ Answered(None, Shown(cmd.kind), "done")
       \/ /\ "memory" \in Faults
          /\ cmd.kind # "capture"
          /\ Shown(cmd.kind) # {}
          /\ Answered(None, {}, "refused")
    /\ UNCHANGED <<tasks, filter, given>>

Serving == up /\ ~hung

Serve ==
    /\ Serving
    /\ phase = "wait"
    /\ ServeTask \/ ServeGet
    /\ Observed
    /\ UNCHANGED <<up, hung, runs, cmd, exit, held, broken>>

(***************************************************************************)
(* A request of another client is served, or one of this user's whose      *)
(* connection broke before.                                                *)
(***************************************************************************)
ServeOther ==
    /\ Serving
    /\ \E kind \in Kinds, c \in {"OK", "error"} :
          \/ \E file \in {f \in Files : Readable(f)} :
                /\ kind = "replay" => file = <<>>
                /\ Start(kind, file, c)
          \/ \E i \in Ids : Stop(kind, i, c)
          \/ StopAll(kind)
    /\ UNCHANGED <<up, hung, command, broken>>
    /\ Observed

(***************************************************************************)
(* Another client modifies a thread with a CPU list that str2cpu_affinity()*)
(* does not come to the end of (see ThreadSettings).  The only RPC thread  *)
(* stays in it; the tasks go on, and connections are still taken.          *)
(***************************************************************************)
Hangs ==
    /\ Serving
    /\ hung' = TRUE
    /\ UNCHANGED <<tasks, filter, given, up, command, history>>

(***************************************************************************)
(* dabbad ends, with all its tasks: a signal (exit_cleanup()), or a fault  *)
(* such as the one dabbad_capture_get() runs into without memory, when it  *)
(* frees a filter list that it has not allocated.  The library calls the   *)
(* closure of the call that is waiting with no result; a reply on its way  *)
(* may be lost.                                                            *)
(***************************************************************************)
DaemonEnds ==
    /\ up
    /\ up' = FALSE
    /\ hung' = FALSE
    /\ tasks' = {}
    /\ Forget(Ids)
    /\ \/ phase = "wait" /\ phase' = "lost"
       \/ phase = "reply" /\ phase' \in {"reply", "lost"}
       \/ phase \notin {"wait", "reply"} /\ UNCHANGED phase
    /\ Observed
    /\ UNCHANGED <<runs, cmd, code, list, exit, held, effect, broken>>

(* dabbad is started and reaches dabbad_rpc_msg_poll(). *)
DaemonStarts ==
    /\ ~up
    /\ up' = TRUE
    /\ UNCHANGED <<tasks, filter, given, hung, command, history>>

(***************************************************************************)
(* A TCP connection breaks while dabbad goes on; the request may be served *)
(* already, or still be.                                                   *)
(***************************************************************************)
ConnectionBreaks ==
    /\ up
    /\ phase \in {"wait", "reply"}
    /\ phase' = "lost"
    /\ broken' = TRUE
    /\ UNCHANGED <<daemon, runs, cmd, code, list, exit, held, effect, alive, kept, own>>

-----------------------------------------------------------------------------
(* The closure of the call prints what was received, and the command ends  *)
(* with 0 whatever that is.                                                *)

Display ==
    /\ phase = "reply"
    /\ Ends("0")
    /\ IF list = {}
       THEN UNCHANGED <<held, alive>>
       ELSE \E e \in list : held' = e /\ alive' = (e \in kept)
    /\ UNCHANGED <<daemon, code, effect, own, broken>>

(* Mutant: a call without a result is printed as a success. *)
DisplayLostAsZero ==
    /\ phase = "lost"
    /\ Ends("0")
    /\ code' = "OK"
    /\ UNCHANGED <<daemon, held, alive, effect, own, broken>>

(* rpc_error_code_print() prints EINVAL, the list printers an empty list. *)
DisplayLost ==
    /\ phase = "lost"
    /\ Ends("0")
    /\ code' = IF cmd.rpc = "get" THEN None ELSE "EINVAL"
    /\ UNCHANGED <<daemon, held, alive, effect, own, broken>>

Next ==
    \/ \E c \in Command : Type(c)
    \/ Dispatch
    \/ Serve
    \/ ServeOther
    \/ Hangs
    \/ DaemonEnds
    \/ DaemonStarts
    \/ ConnectionBreaks
    \/ Display
    \/ DisplayLost

Spec == Init /\ [][Next]_vars

(***************************************************************************)
(* dabba runs its dispatcher and its closures as long as it is not done,   *)
(* and dabbad its own as long as its handlers return.  Nothing is assumed  *)
(* of the users, of other clients, whose requests may keep a handler, or   *)
(* of who ends and starts the daemon.                                      *)
(***************************************************************************)
FairSpec ==
    /\ Spec
    /\ WF_vars(Dispatch)
    /\ WF_vars(Serve)
    /\ WF_vars(Display)
    /\ WF_vars(DisplayLost)

-----------------------------------------------------------------------------
(* Properties *)

(***************************************************************************)
(* Every command ends, though dabba_rpc_call_is_done() has no timeout and  *)
(* the daemon may end and restart at any point: the connection loop is     *)
(* bounded, a request is served or its connection breaks.  The exception   *)
(* is a request that waits for a daemon kept by a handler that does not    *)
(* return, for as long as no one ends it.                                  *)
(***************************************************************************)
CommandEnds == phase # "shell" ~> phase = "shell" \/ (phase = "wait" /\ hung)

(***************************************************************************)
(* A start, stop or stop_all that prints 0 was carried out by the daemon,  *)
(* one that prints another code was refused by it or lost, and a command   *)
(* that fails on its connection had no effect at all: retrying it is safe. *)
(***************************************************************************)
ZeroMeansDone ==
    phase = "shell" =>
        /\ exit = "0" /\ code = "OK" => effect = "done"
        /\ exit = "0" /\ code = "error" => effect = "refused"
        /\ exit \in {"EINVAL", "usage", "crash"} => effect = "none"

(***************************************************************************)
(* A start that prints anything but 0 has left no task running, so that it *)
(* can be given again: neither a refused one nor one whose reply was lost, *)
(* since the tasks go with the daemon that lost it.  The exception is a    *)
(* TCP connection that breaks while the daemon goes on.                    *)
(***************************************************************************)
NoStrayTask == phase = "shell" /\ code # "OK" /\ ~broken => own = {}

(***************************************************************************)
(* The id a list has shown stops that very task for as long as no one else *)
(* has stopped it, although ids are reused: if it still runs when the stop *)
(* is served, it is the one that is stopped and the answer is 0.           *)
(***************************************************************************)
StopsHeld(c) == held # None /\ c.rpc = "stop" /\ c.kind = held.kind /\ c.id = held.id
ListedIdStops ==
    [][phase = "wait" /\ phase' = "reply" /\ StopsHeld(cmd) /\ alive
          => code' = "OK" /\ ~alive' /\ tasks' = tasks \ {held}]_vars

(***************************************************************************)
(* The filter of every running capture stays inside its program and its    *)
(* scratch memory, whoever sent it.                                        *)
(***************************************************************************)
FiltersStayInside ==
    \A e \in tasks : StaysInside(filter[e.id]) /\ OperandsFit(filter[e.id])

(***************************************************************************)
(* A filter whose fields fit is listed as it was written in its file, the  *)
(* lines that are no instructions apart.                                   *)
(***************************************************************************)
FilterKept ==
    \A e \in tasks :
        Fits(Parsed(given[e.id])) => ToWire(filter[e.id]) = Parsed(given[e.id])
=============================================================================
