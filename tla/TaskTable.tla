------------------------------ MODULE TaskTable ------------------------------
(***************************************************************************)
(* What dabbad promises of its packet tasks: a table of running tasks,     *)
(* each with a kind and an id of its own, and three requests on it, each   *)
(* of which takes effect at once and is answered truthfully.  Queues,      *)
(* memory, threads and descriptors are hidden: module TaskManager has      *)
(* them, and TaskRefinement shows that it implements this specification.   *)
(***************************************************************************)
CONSTANTS
    Ids,      \* pthread_t values
    Faults,   \* the rare failures of the environment this instance allows
    None      \* no id

VARIABLES
    tasks,    \* the running tasks
    reply     \* the last reply and what its request named

Kinds == {"capture", "replay"}
Entry == [kind : Kinds, id : Ids]

Answer(rpc, kind, i, code) ==
    reply' = [rpc |-> rpc, kind |-> kind, id |-> i, code |-> code]

Init ==
    /\ tasks = {}
    /\ reply = [rpc |-> "none", kind |-> "capture", id |-> None, code |-> "OK"]

(* A new task gets an id that no running task has. *)
Added(kind, i) ==
    /\ \A e \in tasks : e.id # i
    /\ tasks' = tasks \cup {[kind |-> kind, id |-> i]}

(***************************************************************************)
(* A start that fails leaves no task behind.  Only a capture whose file    *)
(* header was cut short is refused without an error code.                  *)
(***************************************************************************)
Refused(kind, code) ==
    /\ code = "OK" => kind = "capture" /\ "short_header" \in Faults
    /\ UNCHANGED tasks

Start(kind) ==
    \/ \E i \in Ids : Added(kind, i) /\ Answer("start", kind, None, "OK")
    \/ \E code \in {"OK", "error"} :
          Refused(kind, code) /\ Answer("start", kind, None, code)

(* Mutant: a replay is looked for among the captures. *)
RunningCapture(kind, i) == [kind |-> "capture", id |-> i] \in tasks

Running(kind, i) == [kind |-> kind, id |-> i] \in tasks

(* The task of that kind with that id is stopped, and no other. *)
Removed(kind, i, code) ==
    /\ code = IF Running(kind, i) THEN "OK" ELSE "error"
    /\ tasks' = tasks \ {[kind |-> kind, id |-> i]}

Stop(kind, i) ==
    \E code \in {"OK", "error"} :
        Removed(kind, i, code) /\ Answer("stop", kind, i, code)

(* All tasks of a kind are stopped together. *)
Cleared(kind) == tasks' = {e \in tasks : e.kind # kind}

StopAll(kind) == Cleared(kind) /\ Answer("stop_all", kind, None, "OK")

Next ==
    \E kind \in Kinds :
        \/ Start(kind)
        \/ \E i \in Ids : Stop(kind, i)
        \/ StopAll(kind)

Spec == Init /\ [][Next]_<<tasks, reply>>
=============================================================================
