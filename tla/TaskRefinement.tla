--------------------------- MODULE TaskRefinement ---------------------------
(***************************************************************************)
(* The queues, threads and descriptors of TaskManager implement the table  *)
(* of TaskTable.                                                           *)
(***************************************************************************)
EXTENDS TaskManager

EntryOf(t) == [kind |-> heap[t].kind, id |-> heap[t].id]

(***************************************************************************)
(* The tasks a client can see.  While a stop_all handler works no other    *)
(* request is served, so those it still has to stop count as stopped.      *)
(***************************************************************************)
TableTasks == {EntryOf(t) : t \in {u \in Listed("thread") : heap[u].kind # loop}}

(* The answer the handler at work will give, or the last answer given. *)
TableReply ==
    IF loop # None
    THEN [rpc |-> "stop_all", kind |-> loop, id |-> None, code |-> "OK"]
    ELSE [rpc |-> reply.rpc, kind |-> reply.kind, id |-> reply.id,
          code |-> reply.code]

Table == INSTANCE TaskTable WITH tasks <- TableTasks, reply <- TableReply

(***************************************************************************)
(* To its clients dabbad is a table of tasks with distinct ids on which    *)
(* start, stop and stop_all (capture.c:143-319, replay.c:141-286) take     *)
(* effect at once: a stop_all that unlinks, cancels and frees one task     *)
(* after the other is seen whole, its reply is 0, and every other reply    *)
(* says what happened to the table.                                        *)
(***************************************************************************)
ImplementsTable == Table!Spec
=============================================================================
