-------------------------- MODULE TaskManagerProofs --------------------------
(***************************************************************************)
(* The queues of TaskManager are consistent, and their tasks alive, for    *)
(* every set of addresses, ids and descriptors.                            *)
(***************************************************************************)
EXTENDS TaskRefinement, SequenceTheorems, TLAPS

(* No element of the sequence occurs twice. *)
Distinct(s) == \A m, n \in 1..Len(s) : s[m] = s[n] => m = n

-----------------------------------------------------------------------------
(* What Append and RemoveAt, the list operations of the queues, do to a    *)
(* list without repetitions.                                               *)

(* The elements of a sequence are what its positions hold. *)
LEMMA ToSetElements ==
    ASSUME NEW S, NEW s \in Seq(S)
    PROVE  /\ \A x : x \in ToSet(s) <=> \E n \in 1..Len(s) : s[n] = x
           /\ ToSet(s) \subseteq S
  BY LenProperties DEF ToSet

(* TAILQ_INSERT_TAIL of an entry that is not in the list adds that entry. *)
LEMMA AppendDistinct ==
    ASSUME NEW S, NEW s \in Seq(S), NEW x \in S, Distinct(s), x \notin ToSet(s)
    PROVE  /\ Append(s, x) \in Seq(S)
           /\ Len(Append(s, x)) = Len(s) + 1
           /\ Distinct(Append(s, x))
           /\ ToSet(Append(s, x)) = ToSet(s) \cup {x}
  <1>1. /\ Append(s, x) \in Seq(S)
        /\ Len(Append(s, x)) = Len(s) + 1
        /\ Len(s) \in Nat
        /\ \A n \in 1..(Len(s) + 1) :
              Append(s, x)[n] = IF n <= Len(s) THEN s[n] ELSE x
    BY LenProperties
  <1>2. \A y : y \in ToSet(s) <=> \E n \in 1..Len(s) : s[n] = y
    BY ToSetElements
  <1>3. \A y : y \in ToSet(Append(s, x)) <=>
            \E n \in 1..(Len(s) + 1) : Append(s, x)[n] = y
    BY <1>1, ToSetElements
  <1>4. Distinct(Append(s, x))
    BY <1>1, <1>2 DEF Distinct
  <1>5. ASSUME NEW y PROVE y \in ToSet(Append(s, x)) <=> y \in ToSet(s) \cup {x}
    BY <1>1, <1>2, <1>3
  <1> QED BY <1>1, <1>4, <1>5

(* The positions of what is left after TAILQ_REMOVE. *)
LEMMA RemoveAtElements ==
    ASSUME NEW S, NEW s \in Seq(S), NEW n \in 1..Len(s)
    PROVE  /\ RemoveAt(s, n) \in Seq(S)
           /\ Len(RemoveAt(s, n)) = Len(s) - 1
           /\ \A m \in 1..(Len(s) - 1) :
                 RemoveAt(s, n)[m] = IF m < n THEN s[m] ELSE s[m + 1]
  <1>1. /\ Len(s) \in Nat
        /\ \A m \in 1..Len(s) : s[m] \in S
    BY LenProperties, ElementOfSeq
  <1> DEFINE a == SubSeq(s, 1, n - 1)
             b == SubSeq(s, n + 1, Len(s))
  <1>2. /\ a \in Seq(S)
        /\ Len(a) = n - 1
        /\ \A m \in 1..(n - 1) : a[m] = s[m]
    <2>1. \A m \in 1..(n - 1) : s[m] \in S
      BY <1>1
    <2>2. /\ a \in Seq(S)
          /\ Len(a) = IF 1 <= n - 1 THEN (n - 1) - 1 + 1 ELSE 0
          /\ \A m \in 1..((n - 1) - 1 + 1) : a[m] = s[1 + m - 1]
      BY <1>1, <2>1, SubSeqProperties
    <2> QED BY <1>1, <2>2
  <1>3. /\ b \in Seq(S)
        /\ Len(b) = Len(s) - n
        /\ \A m \in 1..(Len(s) - n) : b[m] = s[n + m]
    <2>1. \A m \in (n + 1)..Len(s) : s[m] \in S
      BY <1>1
    <2>2. /\ b \in Seq(S)
          /\ Len(b) = IF n + 1 <= Len(s) THEN Len(s) - (n + 1) + 1 ELSE 0
          /\ \A m \in 1..(Len(s) - (n + 1) + 1) : b[m] = s[(n + 1) + m - 1]
      BY <1>1, <2>1, SubSeqProperties
    <2> QED BY <1>1, <2>2
  <1> DEFINE c == a \o b
  <1>4. /\ c \in Seq(S)
        /\ Len(c) = Len(a) + Len(b)
        /\ \A m \in 1..(Len(a) + Len(b)) :
              c[m] = IF m <= Len(a) THEN a[m] ELSE b[m - Len(a)]
    BY <1>2, <1>3, ConcatProperties
  <1>5. RemoveAt(s, n) = c
    BY DEF RemoveAt
  <1> HIDE DEF a, b, c
  <1>6. Len(c) = Len(s) - 1
    BY <1>1, <1>2, <1>3, <1>4
  <1>7. ASSUME NEW m \in 1..(Len(s) - 1)
        PROVE  c[m] = IF m < n THEN s[m] ELSE s[m + 1]
    <2>1. c[m] = IF m <= n - 1 THEN a[m] ELSE b[m - (n - 1)]
      BY <1>1, <1>2, <1>3, <1>4
    <2>2. CASE m < n
      BY <1>1, <1>2, <2>1, <2>2
    <2>3. CASE ~(m < n)
      <3>1. m - (n - 1) \in 1..(Len(s) - n) /\ n + (m - (n - 1)) = m + 1
        BY <1>1, <2>3
      <3>2. b[m - (n - 1)] = s[m + 1]
        BY <1>3, <3>1
      <3> QED BY <2>1, <2>3, <3>2
    <2> QED BY <2>2, <2>3
  <1> QED BY <1>4, <1>5, <1>6, <1>7

(* TAILQ_REMOVE of an entry removes that entry and keeps the others. *)
LEMMA RemoveAtDistinct ==
    ASSUME NEW S, NEW s \in Seq(S), NEW n \in 1..Len(s), Distinct(s)
    PROVE  /\ RemoveAt(s, n) \in Seq(S)
           /\ Len(RemoveAt(s, n)) = Len(s) - 1
           /\ Distinct(RemoveAt(s, n))
           /\ ToSet(RemoveAt(s, n)) = ToSet(s) \ {s[n]}
  <1> DEFINE r == RemoveAt(s, n)
  <1>1. /\ r \in Seq(S)
        /\ Len(r) = Len(s) - 1
        /\ Len(s) \in Nat
        /\ \A m \in 1..(Len(s) - 1) : r[m] = IF m < n THEN s[m] ELSE s[m + 1]
    BY RemoveAtElements, LenProperties
  <1> HIDE DEF r
  <1>2. Distinct(r)
    BY <1>1 DEF Distinct
  <1>3. \A y : y \in ToSet(s) <=> \E m \in 1..Len(s) : s[m] = y
    BY ToSetElements
  <1>4. \A y : y \in ToSet(r) <=> \E m \in 1..(Len(s) - 1) : r[m] = y
    BY <1>1, ToSetElements
  <1>5. ASSUME NEW y, y \in ToSet(r) PROVE y \in ToSet(s) \ {s[n]}
    BY <1>1, <1>3, <1>4, <1>5 DEF Distinct
  <1>6. ASSUME NEW y, y \in ToSet(s), y # s[n] PROVE y \in ToSet(r)
    <2>1. PICK m \in 1..Len(s) : s[m] = y
      BY <1>3, <1>6
    <2>2. CASE m < n
      BY <1>1, <1>4, <2>1, <2>2
    <2>3. CASE m > n
      <3>1. m - 1 \in 1..(Len(s) - 1) /\ r[m - 1] = y
        BY <1>1, <2>1, <2>3
      <3> QED BY <1>4, <3>1
    <2> QED BY <1>1, <1>6, <2>1, <2>2, <2>3
  <1> QED BY <1>1, <1>2, <1>5, <1>6 DEF r

-----------------------------------------------------------------------------
(* The inductive invariant.  Beside what is to be proved it says where a   *)
(* stop_all handler stands.                                                *)
IndInv ==
    /\ TypeOK
    /\ QueuesAgree
    /\ ListedTasksRun
    /\ OwnDescriptors
    /\ NoUnreachableWorker
    /\ CursorAtHead

USE DEF Kinds, Queues

(* The strings that name the queues and the kinds differ from each other. *)
LEMMA Names ==
    /\ "thread" \in Queues
    /\ "thread" \notin Kinds
    /\ \A kind \in Kinds : kind \in Queues /\ kind # "thread"
  OBVIOUS

(* What the invariant says of one listed task. *)
LEMMA ListedTask ==
    ASSUME IndInv, NEW q \in Queues, NEW t \in Listed(q)
    PROVE  /\ t \in Tasks
           /\ heap[t] \in Task
           /\ worker[heap[t].id] = [arg |-> t, cancelled |-> FALSE]
           /\ t \in Listed("thread")
           /\ t \in Listed(heap[t].kind)
  <1>1. queue[q] \in Seq(Tasks)
    BY DEF IndInv, TypeOK
  <1>2. t \in Tasks
    BY <1>1, ToSetElements DEF Listed
  <1>3. /\ heap[t] # None
        /\ worker[heap[t].id] = [arg |-> t, cancelled |-> FALSE]
    BY DEF IndInv, ListedTasksRun
  <1>4. heap[t] \in Task
    BY <1>2, <1>3 DEF IndInv, TypeOK
  <1>5. t \in Listed("thread")
    BY <1>2 DEF IndInv, QueuesAgree, SameTasks
  <1>6. heap[t].kind \in Kinds
    BY <1>4 DEF Task
  <1>7. t \in Listed(heap[t].kind)
    BY <1>2, <1>5, <1>6 DEF IndInv, QueuesAgree, SameTasks
  <1> QED BY <1>2, <1>3, <1>4, <1>5, <1>7

(* An id names one listed task. *)
LEMMA IdsUnique ==
    ASSUME IndInv, NEW q \in Queues, NEW t \in Listed(q),
           NEW r \in Queues, NEW u \in Listed(r), heap[t].id = heap[u].id
    PROVE  t = u
  <1>1. worker[heap[t].id] = [arg |-> t, cancelled |-> FALSE]
    BY ListedTask
  <1>2. worker[heap[u].id] = [arg |-> u, cancelled |-> FALSE]
    BY ListedTask
  <1>3. [arg |-> t, cancelled |-> FALSE].arg = [arg |-> u, cancelled |-> FALSE].arg
    BY <1>1, <1>2
  <1> QED BY <1>3

(* A thread, cancelled or not, is not None. *)
LEMMA WorkerNotNone ==
    ASSUME NEW t \in Tasks, NEW b \in BOOLEAN
    PROVE  /\ [arg |-> t, cancelled |-> b] \in Worker
           /\ [arg |-> t, cancelled |-> b] # None
  <1>1. [arg |-> t, cancelled |-> b] \in Worker
    BY Zenon DEF Worker
  <1>2. [arg |-> t, cancelled |-> b] # None
    BY <1>1, NoneAssumption, Zenon
  <1> QED BY <1>1, <1>2, Zenon

(* The invariant holds initially. *)
LEMMA InitInv == Init => IndInv
  <1> SUFFICES ASSUME Init PROVE IndInv
    OBVIOUS
  <1> USE DEF Init
  <1>1. TypeOK
    <2>1. <<>> \in Seq(Tasks)
      BY EmptySeq
    <2>2. reply \in Reply
      BY DEF Reply, Code
    <2> QED BY <2>1, <2>2 DEF TypeOK, Code
  <1>2. \A q \in Queues : Len(queue[q]) = 0 /\ Listed(q) = {}
    <2>1. \A q \in Queues : queue[q] = <<>>
      OBVIOUS
    <2>2. Len(<<>>) = 0 /\ <<>> \in Seq(Tasks)
      BY EmptySeq
    <2>3. ToSet(<<>>) = {}
      BY DEF ToSet
    <2> QED BY <2>1, <2>2, <2>3 DEF Listed
  <1>3. QueuesAgree
    <2>1. LengthsAgree
      BY <1>2 DEF LengthsAgree
    <2>2. NoDuplicates
      BY <1>2 DEF NoDuplicates
    <2>3. SameTasks
      BY <1>2, Names DEF SameTasks
    <2> QED BY <2>1, <2>2, <2>3 DEF QueuesAgree
  <1>4. ListedTasksRun
    BY <1>2 DEF ListedTasksRun
  <1>5. OwnDescriptors
    BY <1>2, Names DEF OwnDescriptors
  <1>6. NoUnreachableWorker
    BY DEF NoUnreachableWorker
  <1>7. CursorAtHead
    BY DEF CursorAtHead
  <1> QED BY <1>1, <1>3, <1>4, <1>5, <1>6, <1>7 DEF IndInv

-----------------------------------------------------------------------------
(* Steps that change no queue and no task.                                 *)

(* Tasks whose thread and descriptors are kept stay as the invariant says. *)
LEMMA KeptTasks ==
    ASSUME IndInv, UNCHANGED <<queue, length, heap>>,
           \A q \in Queues : \A t \in Listed(q) : Undisturbed(t)
    PROVE  QueuesAgree' /\ ListedTasksRun' /\ OwnDescriptors'
  <1>1. \A q : Listed(q)' = Listed(q)
    BY DEF Listed
  <1>2. QueuesAgree'
    <2>1. QueuesAgree
      BY DEF IndInv
    <2>2. LengthsAgree' /\ NoDuplicates'
      BY <2>1 DEF QueuesAgree, LengthsAgree, NoDuplicates
    <2>3. SameTasks'
      BY <1>1, <2>1 DEF QueuesAgree, SameTasks
    <2> QED BY <2>2, <2>3 DEF QueuesAgree
  <1>3. ListedTasksRun'
    BY <1>1 DEF IndInv, ListedTasksRun, Undisturbed
  <1>4. OwnDescriptors'
    BY <1>1, Names DEF IndInv, OwnDescriptors, Undisturbed
  <1> QED BY <1>2, <1>3, <1>4

(* A reply is well typed. *)
LEMMA AnswerType ==
    ASSUME TypeOK, NEW rpc \in {"start", "stop", "stop_all"}, NEW kind \in Kinds,
           NEW i \in Ids \cup {None}, NEW code \in Code, Answer(rpc, kind, i, code)
    PROVE  reply' \in Reply
  <1>1. Len(queue["thread"]) \in Nat
    BY LenProperties, Names DEF TypeOK
  <1> QED BY <1>1 DEF Answer, Reply

(* A start that is refused or whose header write is short changes nothing. *)
LEMMA StartRefusedInv ==
    ASSUME IndInv, NEW kind \in Kinds, loop = None, UNCHANGED <<loop, cursor>>,
           StartRefused(kind) \/ StartHeaderShort(kind)
    PROVE  IndInv'
  <1>1. UNCHANGED <<queue, length, heap, worker, fds>>
    BY DEF StartRefused, StartHeaderShort
  <1>2. errno' \in Code /\ reply' \in Reply
    <2>1. errno \in Code /\ "error" \in Code
      BY DEF IndInv, TypeOK, Code
    <2>2. \E code \in Code : Answer("start", kind, None, code)
      BY <2>1 DEF StartRefused, StartHeaderShort
    <2>3. reply' \in Reply
      BY <2>2, AnswerType DEF IndInv
    <2> QED BY <2>1, <2>3 DEF StartRefused, StartHeaderShort
  <1>3. TypeOK'
    BY <1>1, <1>2 DEF IndInv, TypeOK
  <1>4. \A q \in Queues : \A t \in Listed(q) : Undisturbed(t)
    BY <1>1 DEF Undisturbed
  <1>5. QueuesAgree' /\ ListedTasksRun' /\ OwnDescriptors'
    BY <1>1, <1>4, KeptTasks
  <1>6. NoUnreachableWorker'
    BY <1>1 DEF IndInv, NoUnreachableWorker, Listed
  <1>7. CursorAtHead'
    BY DEF CursorAtHead
  <1> QED BY <1>3, <1>5, <1>6, <1>7 DEF IndInv

(* The PCAP descriptor a failed start forgets belonged to no task. *)
LEMMA StartAbortedInv ==
    ASSUME IndInv, NEW kind \in Kinds, loop = None, UNCHANGED <<loop, cursor>>,
           StartAborted(kind) \/ StartNotDetached(kind)
    PROVE  IndInv'
  <1>1. UNCHANGED <<queue, length, heap>>
    BY DEF StartAborted, StartNotDetached
  <1>2. PICK pcap \in ClosedFds : fds' = [fds EXCEPT ![pcap] = "pcap"]
    BY DEF StartAborted, StartNotDetached
  <1>3. errno' \in Code /\ reply' \in Reply
    <2>1. errno \in Code /\ "error" \in Code
      BY DEF IndInv, TypeOK, Code
    <2>2. Answer("start", kind, None, "error")
      BY DEF StartAborted, StartNotDetached
    <2>3. reply' \in Reply
      BY <2>1, <2>2, AnswerType DEF IndInv
    <2> QED BY <2>1, <2>3 DEF StartAborted, StartNotDetached
  <1>4. \/ UNCHANGED worker
        \/ /\ "detach" \in Faults
           /\ \E t \in Tasks, i \in Ids :
                 /\ worker[i] = None
                 /\ worker' = [worker EXCEPT ![i] = [arg |-> t, cancelled |-> FALSE]]
    BY DEF StartAborted, StartNotDetached
  <1>5. TypeOK'
    <2>1. fds' \in [Fds -> {"closed", "sock", "pcap"}]
      BY <1>2 DEF IndInv, TypeOK
    <2>2. worker' \in [Ids -> Worker \cup {None}]
      BY <1>4, WorkerNotNone DEF IndInv, TypeOK
    <2> QED BY <1>1, <1>3, <2>1, <2>2 DEF IndInv, TypeOK
  <1>6. ASSUME NEW q \in Queues, NEW t \in Listed(q) PROVE Undisturbed(t)
    <2>1. /\ heap[t] \in Task
          /\ worker[heap[t].id] = [arg |-> t, cancelled |-> FALSE]
          /\ t \in Tasks
          /\ t \in Listed(heap[t].kind)
      BY ListedTask
    <2>2. /\ heap[t].id \in Ids
          /\ heap[t].sock \in Fds
          /\ heap[t].pcap \in Fds
          /\ heap[t].kind \in Kinds
      BY <2>1 DEF Task
    <2>3. fds[heap[t].sock] = "sock" /\ fds[heap[t].pcap] = "pcap"
      BY <2>1, <2>2 DEF IndInv, OwnDescriptors
    <2>4. /\ fds'[heap[t].sock] = fds[heap[t].sock]
          /\ fds'[heap[t].pcap] = fds[heap[t].pcap]
      BY <1>2, <2>2, <2>3 DEF ClosedFds, IndInv, TypeOK
    <2>5. worker[heap[t].id] # None
      BY <2>1, WorkerNotNone
    <2>6. worker'[heap[t].id] = worker[heap[t].id]
      BY <1>4, <2>2, <2>5 DEF IndInv, TypeOK
    <2> QED BY <1>1, <2>4, <2>6 DEF Undisturbed
  <1>7. QueuesAgree' /\ ListedTasksRun' /\ OwnDescriptors'
    BY <1>1, <1>6, KeptTasks
  <1>8. NoUnreachableWorker'
    BY <1>1, <1>4 DEF IndInv, NoUnreachableWorker, Listed
  <1>9. CursorAtHead'
    BY DEF CursorAtHead
  <1> QED BY <1>5, <1>7, <1>8, <1>9 DEF IndInv

(* A worker that ends was cancelled, so it is none of a listed task. *)
LEMMA WorkerEndsInv ==
    ASSUME IndInv, NEW i \in Ids, WorkerEnds(i)
    PROVE  IndInv'
  <1>1. UNCHANGED <<queue, length, heap, fds, errno, loop, cursor, reply>>
    BY DEF WorkerEnds
  <1>2. worker' = [worker EXCEPT ![i] = None] /\ worker[i].cancelled
    BY DEF WorkerEnds
  <1>3. TypeOK'
    BY <1>1, <1>2 DEF IndInv, TypeOK
  <1>4. ASSUME NEW q \in Queues, NEW t \in Listed(q) PROVE Undisturbed(t)
    <2>1. /\ heap[t] \in Task
          /\ worker[heap[t].id] = [arg |-> t, cancelled |-> FALSE]
      BY ListedTask
    <2>2. heap[t].id \in Ids /\ ~worker[heap[t].id].cancelled
      BY <2>1 DEF Task
    <2>3. worker'[heap[t].id] = worker[heap[t].id]
      BY <1>2, <2>2 DEF IndInv, TypeOK
    <2> QED BY <1>1, <2>3 DEF Undisturbed
  <1>5. QueuesAgree' /\ ListedTasksRun' /\ OwnDescriptors'
    BY <1>1, <1>4, KeptTasks
  <1>6. NoUnreachableWorker'
    BY <1>1, <1>2 DEF IndInv, NoUnreachableWorker, Listed, TypeOK
  <1>7. CursorAtHead'
    BY <1>1 DEF IndInv, CursorAtHead
  <1> QED BY <1>3, <1>5, <1>6, <1>7 DEF IndInv

-----------------------------------------------------------------------------
(* A start that succeeds: the new task is at a free address, its thread    *)
(* has an unused id and its descriptors were closed, so that no listed     *)
(* task has any of them.                                                   *)

(* dabbad_capture_start() and dabbad_replay_start() insert a sound task. *)
LEMMA StartDoneInv ==
    ASSUME IndInv, NEW kind \in Kinds, loop = None, UNCHANGED <<loop, cursor>>,
           StartDone(kind)
    PROVE  IndInv'
  <1>1. PICK sock \in ClosedFds, pcap \in ClosedFds, t \in Tasks, i \in Ids :
          /\ Lowest(sock, pcap)
          /\ heap[t] = None
          /\ worker[i] = None
          /\ fds' = [fds EXCEPT ![sock] = "sock", ![pcap] = "pcap"]
          /\ heap' = [heap EXCEPT ![t] = [kind |-> kind, id |-> i,
                                          sock |-> sock, pcap |-> pcap]]
          /\ worker' = [worker EXCEPT ![i] = [arg |-> t, cancelled |-> FALSE]]
          /\ Insert(kind, t)
    BY DEF StartDone
  <1> DEFINE new == [kind |-> kind, id |-> i, sock |-> sock, pcap |-> pcap]
  <1>2. /\ sock \in Fds /\ fds[sock] = "closed"
        /\ pcap \in Fds /\ fds[pcap] = "closed"
        /\ sock # pcap
    <2>1. /\ sock \in Fds /\ fds[sock] = "closed"
          /\ pcap \in Fds /\ fds[pcap] = "closed"
      BY DEF ClosedFds
    <2>2. sock < pcap
      BY <1>1 DEF Lowest
    <2>3. sock \in Nat
      BY <2>1, FdsAssumption
    <2>4. sock # pcap
      BY <2>2, <2>3
    <2> QED BY <2>1, <2>4
  <1>3. new \in Task /\ new # None
    BY <1>2, NoneAssumption DEF Task
  <1>4. /\ heap'[t] = new
        /\ \A u \in Tasks \ {t} : heap'[u] = heap[u]
        /\ heap' \in [Tasks -> Task \cup {None}]
    BY <1>1, <1>3 DEF IndInv, TypeOK
  <1>5. /\ worker'[i] = [arg |-> t, cancelled |-> FALSE]
        /\ \A j \in Ids \ {i} : worker'[j] = worker[j]
        /\ worker' \in [Ids -> Worker \cup {None}]
    BY <1>1, WorkerNotNone DEF IndInv, TypeOK
  <1>6. /\ fds'[sock] = "sock" /\ fds'[pcap] = "pcap"
        /\ \A f \in Fds \ {sock, pcap} : fds'[f] = fds[f]
        /\ fds' \in [Fds -> {"closed", "sock", "pcap"}]
    BY <1>1, <1>2 DEF IndInv, TypeOK
  <1>7. \A q \in Queues : t \notin Listed(q)
    BY <1>1 DEF IndInv, ListedTasksRun
  <1>8. \A q \in Queues : queue[q] \in Seq(Tasks) /\ Distinct(queue[q])
    BY DEF IndInv, TypeOK, QueuesAgree, NoDuplicates, Distinct
  <1>9. ASSUME NEW q \in {kind, "thread"}
        PROVE  /\ queue'[q] = Append(queue[q], t)
               /\ length'[q] = length[q] + 1
    <2>1. /\ queue' = [queue EXCEPT !["thread"] = Append(@, t),
                                    ![kind] = Append(@, t)]
          /\ length' = [length EXCEPT !["thread"] = @ + 1, ![kind] = @ + 1]
      BY <1>1 DEF Insert
    <2>2. queue \in [Queues -> Seq(Tasks)] /\ length \in [Queues -> Int]
      BY DEF IndInv, TypeOK
    <2> QED BY <2>1, <2>2, Names
  <1>10. ASSUME NEW q \in Queues \ {kind, "thread"}
         PROVE  queue'[q] = queue[q] /\ length'[q] = length[q]
    BY <1>1, Names DEF Insert, IndInv, TypeOK
  <1>11. DOMAIN queue' = Queues /\ DOMAIN length' = Queues
    BY <1>1 DEF Insert, IndInv, TypeOK
  <1>12. ASSUME NEW q \in Queues
         PROVE  /\ queue'[q] \in Seq(Tasks)
                /\ Distinct(queue'[q])
                /\ length'[q] = Len(queue'[q])
                /\ length'[q] \in Int
                /\ Listed(q)' = Listed(q) \cup (IF q \in {kind, "thread"} THEN {t} ELSE {})
    <2>1. length[q] = Len(queue[q]) /\ length[q] \in Int
      BY DEF IndInv, TypeOK, QueuesAgree, LengthsAgree
    <2>2. CASE q \in {kind, "thread"}
      <3>1. t \notin ToSet(queue[q])
        BY <1>7 DEF Listed
      <3>2. /\ Append(queue[q], t) \in Seq(Tasks)
            /\ Len(Append(queue[q], t)) = Len(queue[q]) + 1
            /\ Distinct(Append(queue[q], t))
            /\ ToSet(Append(queue[q], t)) = ToSet(queue[q]) \cup {t}
        BY <1>8, <3>1, AppendDistinct
      <3>3. queue'[q] = Append(queue[q], t) /\ length'[q] = length[q] + 1
        BY <1>9, <2>2
      <3>4. Listed(q)' = Listed(q) \cup {t}
        BY <3>2, <3>3 DEF Listed
      <3> QED BY <2>1, <2>2, <3>2, <3>3, <3>4
    <2>3. CASE q \notin {kind, "thread"}
      BY <1>8, <1>10, <2>1, <2>3 DEF Listed
    <2> QED BY <2>2, <2>3
  <1>13. TypeOK'
    <2>1. queue' \in [Queues -> Seq(Tasks)] /\ length' \in [Queues -> Int]
      <3>1. queue' = [q \in Queues |-> queue'[q]] /\ length' = [q \in Queues |-> length'[q]]
        BY <1>1, <1>11 DEF Insert, IndInv, TypeOK
      <3> QED BY <1>12, <3>1
    <2>2. "OK" \in Code /\ Answer("start", kind, None, "OK") /\ UNCHANGED errno
      BY DEF StartDone, Code
    <2>3. reply' \in Reply
      BY <2>2, AnswerType DEF IndInv
    <2> QED BY <1>4, <1>5, <1>6, <2>1, <2>2, <2>3 DEF IndInv, TypeOK
  <1>14. ASSUME NEW q \in Queues, NEW u \in Listed(q)
         PROVE  Undisturbed(u) /\ u # t /\ u \in Tasks /\ heap[u] \in Task
    <2>1. /\ heap[u] \in Task
          /\ u \in Tasks
          /\ worker[heap[u].id] = [arg |-> u, cancelled |-> FALSE]
          /\ u \in Listed(heap[u].kind)
      BY ListedTask
    <2>2. /\ heap[u].kind \in Kinds
          /\ heap[u].id \in Ids /\ heap[u].sock \in Fds /\ heap[u].pcap \in Fds
      BY <2>1 DEF Task
    <2>3. fds[heap[u].sock] = "sock" /\ fds[heap[u].pcap] = "pcap"
      BY <2>1, <2>2 DEF IndInv, OwnDescriptors
    <2>4. worker[heap[u].id] # None
      BY <2>1, WorkerNotNone
    <2>5. u # t
      BY <1>7
    <2> QED BY <1>1, <1>2, <1>4, <1>5, <1>6, <2>1, <2>2, <2>3, <2>4, <2>5 DEF Undisturbed
  <1> HIDE DEF new
  <1>15. new.kind = kind /\ new.id = i /\ new.sock = sock /\ new.pcap = pcap
    BY DEF new
  <1>16. QueuesAgree'
    <2>1. LengthsAgree' /\ NoDuplicates'
      BY <1>12 DEF LengthsAgree, NoDuplicates, Distinct
    <2>2. ASSUME NEW u \in Tasks, NEW k \in Kinds
          PROVE  u \in Listed(k)' <=> u \in Listed("thread")' /\ heap'[u].kind = k
      <3>1. u \in Listed(k) <=> u \in Listed("thread") /\ heap[u].kind = k
        BY DEF IndInv, QueuesAgree, SameTasks
      <3>2. CASE u = t
        BY <1>4, <1>7, <1>12, <1>15, <3>2, Names
      <3>3. CASE u # t
        BY <1>4, <1>12, <3>1, <3>3, Names
      <3> QED BY <3>2, <3>3
    <2>3. SameTasks'
      BY <2>2 DEF SameTasks
    <2> QED BY <2>1, <2>3 DEF QueuesAgree
  <1>17. ListedTasksRun'
    <2> SUFFICES ASSUME NEW q \in Queues, NEW u \in Listed(q)'
                 PROVE  /\ heap'[u] # None
                        /\ worker'[heap'[u].id] = [arg |-> u, cancelled |-> FALSE]
      BY DEF ListedTasksRun
    <2>1. CASE u = t
      BY <1>3, <1>4, <1>5, <1>15, <2>1
    <2>2. CASE u # t
      <3>1. u \in Listed(q)
        BY <1>12, <2>2
      <3> QED BY <1>14, <3>1 DEF Undisturbed, IndInv, ListedTasksRun
    <2> QED BY <2>1, <2>2
  <1>18. OwnDescriptors'
    <2> SUFFICES ASSUME NEW q \in Kinds, NEW u \in Listed(q)'
                 PROVE  /\ fds'[heap'[u].sock] = "sock"
                        /\ fds'[heap'[u].pcap] = "pcap"
                        /\ \A r \in Kinds : \A v \in Listed(r)' \ {u} :
                              /\ heap'[v].sock # heap'[u].sock
                              /\ heap'[v].pcap # heap'[u].pcap
      BY DEF OwnDescriptors
    <2>1. ASSUME NEW r \in Kinds, NEW v \in Listed(r)', v # t
          PROVE  /\ v \in Listed(r)
                 /\ heap'[v] = heap[v]
                 /\ fds[heap[v].sock] = "sock" /\ fds[heap[v].pcap] = "pcap"
                 /\ fds'[heap[v].sock] = "sock" /\ fds'[heap[v].pcap] = "pcap"
      <3>1. v \in Listed(r)
        BY <1>12, <2>1, Names
      <3>2. fds[heap[v].sock] = "sock" /\ fds[heap[v].pcap] = "pcap"
        BY <3>1 DEF IndInv, OwnDescriptors
      <3> QED BY <1>14, <3>1, <3>2, Names DEF Undisturbed
    <2>2. CASE u = t
      BY <1>2, <1>4, <1>6, <1>15, <2>1, <2>2
    <2>3. CASE u # t
      <3>1. /\ u \in Listed(q)
            /\ heap'[u] = heap[u]
            /\ fds[heap[u].sock] = "sock" /\ fds[heap[u].pcap] = "pcap"
            /\ fds'[heap[u].sock] = "sock" /\ fds'[heap[u].pcap] = "pcap"
        BY <2>1, <2>3
      <3>2. ASSUME NEW r \in Kinds, NEW v \in Listed(r)', v # u
            PROVE  heap'[v].sock # heap'[u].sock /\ heap'[v].pcap # heap'[u].pcap
        <4>1. CASE v = t
          BY <1>2, <1>4, <1>15, <3>1, <4>1
        <4>2. CASE v # t
          BY <2>1, <3>1, <3>2, <4>2 DEF IndInv, OwnDescriptors
        <4> QED BY <4>1, <4>2
      <3> QED BY <3>1, <3>2
    <2> QED BY <2>2, <2>3
  <1>19. NoUnreachableWorker'
    <2> SUFFICES ASSUME "detach" \notin Faults, NEW j \in Ids,
                        worker'[j] # None, ~worker'[j].cancelled
                 PROVE  \E u \in Listed("thread")' : heap'[u] # None /\ heap'[u].id = j
      BY DEF NoUnreachableWorker
    <2>1. CASE j = i
      <3>1. t \in Listed("thread")'
        BY <1>12, Names
      <3> QED BY <1>3, <1>4, <1>15, <2>1, <3>1
    <2>2. CASE j # i
      <3>1. worker[j] # None /\ ~worker[j].cancelled
        BY <1>5, <2>2
      <3>2. PICK u \in Listed("thread") : heap[u] # None /\ heap[u].id = j
        BY <3>1 DEF IndInv, NoUnreachableWorker
      <3>3. heap'[u] = heap[u]
        BY <1>14, Names DEF Undisturbed
      <3>4. u \in Listed("thread")'
        BY <1>12, Names
      <3> QED BY <3>2, <3>3, <3>4
    <2> QED BY <2>1, <2>2
  <1>20. CursorAtHead'
    BY DEF CursorAtHead
  <1> QED BY <1>13, <1>16, <1>17, <1>18, <1>19, <1>20 DEF IndInv

-----------------------------------------------------------------------------
(* A task is released: it is the one task with its id, so that the entry   *)
(* unlinked from the thread queue is its own and the worker that is        *)
(* cancelled works on it.                                                  *)

(* What Release(t) does to the queues, seen as sets, and to the rest. *)
LEMMA Released ==
    ASSUME IndInv, NEW kind \in Kinds, NEW t \in Listed(kind), Release(t)
    PROVE  /\ heap[t].kind = kind
           /\ \A q \in Queues :
                /\ queue'[q] \in Seq(Tasks)
                /\ Distinct(queue'[q])
                /\ length'[q] = Len(queue'[q])
                /\ length'[q] \in Int
                /\ Listed(q)' = Listed(q) \ {t}
           /\ Len(queue'["thread"]) = Len(queue["thread"]) - 1
           /\ queue' \in [Queues -> Seq(Tasks)]
           /\ length' \in [Queues -> Int]
           /\ queue'[kind] = RemoveAt(queue[kind], Position(kind, t))
           /\ heap' = [heap EXCEPT ![t] = None]
           /\ worker' = [worker EXCEPT ![heap[t].id] = [arg |-> t, cancelled |-> TRUE]]
           /\ fds' = [fds EXCEPT ![heap[t].pcap] = "closed"]
  <1> DEFINE i == heap[t].id
  <1>1. /\ t \in Tasks
        /\ heap[t] \in Task
        /\ worker[i] = [arg |-> t, cancelled |-> FALSE]
        /\ t \in Listed("thread")
    BY ListedTask
  <1>2. heap[t].kind = kind /\ i \in Ids /\ heap[t].pcap \in Fds
    <2>1. heap[t].kind = kind
      BY <1>1 DEF IndInv, QueuesAgree, SameTasks
    <2> QED BY <1>1, <2>1 DEF Task
  <1>3. \A q \in Queues : /\ queue[q] \in Seq(Tasks)
                           /\ Distinct(queue[q])
                           /\ length[q] = Len(queue[q])
    BY DEF IndInv, TypeOK, QueuesAgree, LengthsAgree, NoDuplicates, Distinct
  <1>4. Find("thread", i) \in 1..Len(queue["thread"])
        /\ queue["thread"][Find("thread", i)] = t
    <2>1. PICK n \in 1..Len(queue["thread"]) : queue["thread"][n] = t
      BY <1>1, <1>3, ToSetElements, Names DEF Listed
    <2>2. n \in At("thread", i)
      BY <2>1 DEF At
    <2>3. ASSUME NEW m \in At("thread", i) PROVE m = n
      <3>1. m \in 1..Len(queue["thread"]) /\ heap[queue["thread"][m]].id = i
        BY DEF At
      <3>2. queue["thread"][m] \in Listed("thread")
        BY <1>3, <3>1, ToSetElements, Names DEF Listed
      <3>3. queue["thread"][m] = t
        BY <1>1, <3>1, <3>2, IdsUnique, Names
      <3> QED BY <1>3, <2>1, <3>1, <3>3, Names DEF Distinct
    <2>4. n \in Nat
      BY <1>3, LenProperties, Names
    <2>5. \A m \in At("thread", i) : n <= m
      BY <2>3, <2>4
    <2>6. Find("thread", i) \in At("thread", i)
      BY <2>2, <2>5 DEF Find
    <2> QED BY <2>1, <2>3, <2>6
  <1>5. Position(kind, t) \in 1..Len(queue[kind])
        /\ queue[kind][Position(kind, t)] = t
    <2>1. \E n \in 1..Len(queue[kind]) : queue[kind][n] = t
      BY <1>3, ToSetElements, Names DEF Listed
    <2> QED BY <2>1 DEF Position
  <1>6. /\ queue' = [queue EXCEPT
                        !["thread"] = RemoveAt(@, Find("thread", i)),
                        ![kind] = RemoveAt(@, Position(kind, t))]
        /\ length' = [length EXCEPT !["thread"] = @ - 1, ![kind] = @ - 1]
        /\ worker' = [worker EXCEPT ![i] = [arg |-> @.arg, cancelled |-> TRUE]]
        /\ fds' = [fds EXCEPT ![heap[t].pcap] = "closed"]
        /\ heap' = [heap EXCEPT ![t] = None]
    BY <1>2 DEF Release
  <1> HIDE DEF i
  <1>7. queue \in [Queues -> Seq(Tasks)] /\ length \in [Queues -> Int]
    BY DEF IndInv, TypeOK
  <1>8. /\ queue'["thread"] = RemoveAt(queue["thread"], Find("thread", i))
        /\ queue'[kind] = RemoveAt(queue[kind], Position(kind, t))
        /\ length'["thread"] = length["thread"] - 1
        /\ length'[kind] = length[kind] - 1
        /\ \A q \in Queues \ {kind, "thread"} :
              queue'[q] = queue[q] /\ length'[q] = length[q]
    BY <1>6, <1>7, Names
  <1>9. ASSUME NEW q \in {kind, "thread"}
        PROVE  /\ queue'[q] \in Seq(Tasks)
               /\ Len(queue'[q]) = Len(queue[q]) - 1
               /\ length'[q] = length[q] - 1
               /\ Distinct(queue'[q])
               /\ ToSet(queue'[q]) = ToSet(queue[q]) \ {t}
    <2>1. PICK n \in 1..Len(queue[q]) :
            queue[q][n] = t /\ queue'[q] = RemoveAt(queue[q], n)
      BY <1>4, <1>5, <1>8
    <2>2. queue[q] \in Seq(Tasks) /\ Distinct(queue[q])
      BY <1>3, Names
    <2>3. /\ RemoveAt(queue[q], n) \in Seq(Tasks)
          /\ Len(RemoveAt(queue[q], n)) = Len(queue[q]) - 1
          /\ Distinct(RemoveAt(queue[q], n))
          /\ ToSet(RemoveAt(queue[q], n)) = ToSet(queue[q]) \ {queue[q][n]}
      BY <2>2, RemoveAtDistinct
    <2> QED BY <1>8, <2>1, <2>3
  <1>10. ASSUME NEW q \in Queues
         PROVE  /\ queue'[q] \in Seq(Tasks)
                /\ Distinct(queue'[q])
                /\ length'[q] = Len(queue'[q])
                /\ length'[q] \in Int
                /\ Listed(q)' = Listed(q) \ {t}
    <2>1. length[q] = Len(queue[q]) /\ length[q] \in Int
      BY <1>3, <1>7
    <2>2. CASE q \in {kind, "thread"}
      <3>1. Listed(q)' = Listed(q) \ {t}
        BY <1>9, <2>2 DEF Listed
      <3>2. Len(queue'[q]) = Len(queue[q]) - 1 /\ length'[q] = length[q] - 1
        BY <1>9, <2>2
      <3>3. length'[q] = Len(queue'[q]) /\ length'[q] \in Int
        BY <2>1, <3>2
      <3> QED BY <1>9, <2>2, <3>1, <3>3
    <2>3. CASE q \notin {kind, "thread"}
      <3>1. t \notin Listed(q)
        BY <1>1, <1>2, <2>3 DEF IndInv, QueuesAgree, SameTasks
      <3>2. queue'[q] = queue[q] /\ length'[q] = length[q]
        BY <1>8, <2>3
      <3>3. Listed(q)' = Listed(q) \ {t}
        BY <3>1, <3>2 DEF Listed
      <3> QED BY <1>3, <2>1, <3>2, <3>3
    <2> QED BY <2>2, <2>3
  <1>11. queue' \in [Queues -> Seq(Tasks)] /\ length' \in [Queues -> Int]
    <2>1. /\ queue' = [q \in Queues |-> queue'[q]]
          /\ length' = [q \in Queues |-> length'[q]]
      BY <1>6, <1>7
    <2> QED BY <1>10, <2>1
  <1>12. worker' = [worker EXCEPT ![i] = [arg |-> t, cancelled |-> TRUE]]
    <2>1. worker[i].arg = t
      BY <1>1 DEF i
    <2> QED BY <1>6, <2>1
  <1>13. Len(queue'["thread"]) = Len(queue["thread"]) - 1
    BY <1>9
  <1> QED BY <1>2, <1>6, <1>8, <1>10, <1>11, <1>12, <1>13 DEF i

(* Releasing a task preserves the invariant for the others. *)
LEMMA ReleaseInv ==
    ASSUME IndInv, NEW kind \in Kinds, NEW t \in Listed(kind), Release(t)
    PROVE  /\ \A q \in Queues : \A u \in Listed(q)' : u \in Listed(q) /\ Undisturbed(u)
           /\ QueuesAgree' /\ ListedTasksRun' /\ OwnDescriptors'
           /\ NoUnreachableWorker'
           /\ heap' \in [Tasks -> Task \cup {None}]
           /\ worker' \in [Ids -> Worker \cup {None}]
           /\ fds' \in [Fds -> {"closed", "sock", "pcap"}]
  <1> DEFINE i == heap[t].id
  <1>1. /\ \A q \in Queues :
             /\ Distinct(queue'[q])
             /\ length'[q] = Len(queue'[q])
             /\ Listed(q)' = Listed(q) \ {t}
        /\ heap' = [heap EXCEPT ![t] = None]
        /\ worker' = [worker EXCEPT ![i] = [arg |-> t, cancelled |-> TRUE]]
        /\ fds' = [fds EXCEPT ![heap[t].pcap] = "closed"]
    BY Released
  <1>2. /\ t \in Tasks
        /\ heap[t] \in Task
    BY ListedTask, Names
  <1>3. i \in Ids /\ heap[t].pcap \in Fds
    BY <1>2 DEF Task
  <1>4. /\ heap' \in [Tasks -> Task \cup {None}]
        /\ fds' \in [Fds -> {"closed", "sock", "pcap"}]
    BY <1>1, <1>2, <1>3 DEF IndInv, TypeOK
  <1>5. worker' \in [Ids -> Worker \cup {None}]
    BY <1>1, <1>2, <1>3, WorkerNotNone DEF IndInv, TypeOK
  <1> HIDE DEF i
  <1>6. ASSUME NEW q \in Queues, NEW u \in Listed(q)'
        PROVE  /\ u \in Listed(q)
               /\ u # t
               /\ u \in Tasks
               /\ Undisturbed(u)
    <2>1. u \in Listed(q) /\ u # t
      BY <1>1
    <2>2. /\ u \in Tasks
          /\ heap[u] \in Task
          /\ u \in Listed(heap[u].kind)
      BY <2>1, ListedTask
    <2>3. /\ heap[u].kind \in Kinds
          /\ heap[u].id \in Ids /\ heap[u].sock \in Fds /\ heap[u].pcap \in Fds
      BY <2>2 DEF Task
    <2>4. heap[u].id # i
      BY <2>1, IdsUnique, Names DEF i
    <2>5. /\ fds[heap[u].sock] = "sock"
          /\ fds[heap[t].pcap] = "pcap"
          /\ heap[u].pcap # heap[t].pcap
      BY <2>1, <2>2, <2>3 DEF IndInv, OwnDescriptors
    <2>6. /\ fds'[heap[u].sock] = fds[heap[u].sock]
          /\ fds'[heap[u].pcap] = fds[heap[u].pcap]
      BY <1>1, <2>3, <2>5 DEF IndInv, TypeOK
    <2>7. worker'[heap[u].id] = worker[heap[u].id]
      BY <1>1, <2>3, <2>4 DEF IndInv, TypeOK
    <2>8. heap'[u] = heap[u]
      BY <1>1, <2>1, <2>2 DEF IndInv, TypeOK
    <2> QED BY <2>1, <2>2, <2>6, <2>7, <2>8 DEF Undisturbed
  <1>7. QueuesAgree'
    <2>1. LengthsAgree' /\ NoDuplicates'
      BY <1>1 DEF LengthsAgree, NoDuplicates, Distinct
    <2>2. ASSUME NEW u \in Tasks, NEW k \in Kinds
          PROVE  u \in Listed(k)' <=> u \in Listed("thread")' /\ heap'[u].kind = k
      <3>1. u \in Listed(k) <=> u \in Listed("thread") /\ heap[u].kind = k
        BY DEF IndInv, QueuesAgree, SameTasks
      <3>2. CASE u = t
        BY <1>1, <3>2, Names
      <3>3. CASE u # t
        <4>1. heap'[u] = heap[u]
          BY <1>1, <3>3 DEF IndInv, TypeOK
        <4> QED BY <1>1, <3>1, <3>3, <4>1, Names
      <3> QED BY <3>2, <3>3
    <2>3. SameTasks'
      BY <2>2 DEF SameTasks
    <2> QED BY <2>1, <2>3 DEF QueuesAgree
  <1>8. ListedTasksRun'
    <2> SUFFICES ASSUME NEW q \in Queues, NEW u \in Listed(q)'
                 PROVE  /\ heap'[u] # None
                        /\ worker'[heap'[u].id] = [arg |-> u, cancelled |-> FALSE]
      BY DEF ListedTasksRun
    <2>1. /\ heap[u] # None
          /\ worker[heap[u].id] = [arg |-> u, cancelled |-> FALSE]
      BY <1>6 DEF ListedTasksRun, IndInv
    <2>2. Undisturbed(u)
      BY <1>6
    <2> QED BY <2>1, <2>2 DEF Undisturbed
  <1>9. OwnDescriptors'
    BY <1>6, Names DEF OwnDescriptors, IndInv, Undisturbed
  <1>10. NoUnreachableWorker'
    <2> SUFFICES ASSUME "detach" \notin Faults, NEW j \in Ids,
                        worker'[j] # None, ~worker'[j].cancelled
                 PROVE  \E u \in Listed("thread")' : heap'[u] # None /\ heap'[u].id = j
      BY DEF NoUnreachableWorker
    <2>1. j # i
      BY <1>1, <1>3 DEF IndInv, TypeOK
    <2>2. worker'[j] = worker[j]
      BY <1>1, <2>1 DEF IndInv, TypeOK
    <2>3. PICK u \in Listed("thread") : heap[u] # None /\ heap[u].id = j
      BY <2>2 DEF IndInv, NoUnreachableWorker
    <2>4. u \in Listed("thread")'
      BY <1>1, <2>1, <2>3, Names DEF i
    <2>5. heap'[u] = heap[u]
      BY <1>6, <2>4, Names DEF Undisturbed
    <2> QED BY <2>3, <2>4, <2>5
  <1> QED BY <1>4, <1>5, <1>6, <1>7, <1>8, <1>9, <1>10

(* The entry a stop handler finds is in its queue and has the id. *)
LEMMA StopTarget ==
    ASSUME IndInv, NEW kind \in Kinds, NEW i \in Ids, At(kind, i) # {}
    PROVE  /\ queue[kind][Find(kind, i)] \in Listed(kind)
           /\ heap[queue[kind][Find(kind, i)]].id = i
  <1>1. queue[kind] \in Seq(Tasks) /\ Distinct(queue[kind])
    BY Names DEF IndInv, TypeOK, QueuesAgree, NoDuplicates, Distinct
  <1>2. PICK n : n \in At(kind, i)
    OBVIOUS
  <1>3. n \in 1..Len(queue[kind]) /\ heap[queue[kind][n]].id = i /\ n \in Nat
    BY <1>1, <1>2, LenProperties DEF At
  <1>4. queue[kind][n] \in Listed(kind)
    BY <1>1, <1>3, ToSetElements DEF Listed
  <1>5. ASSUME NEW m \in At(kind, i) PROVE m = n
    <2>1. m \in 1..Len(queue[kind]) /\ heap[queue[kind][m]].id = i
      BY DEF At
    <2>2. queue[kind][m] \in Listed(kind)
      BY <1>1, <2>1, ToSetElements DEF Listed
    <2>3. queue[kind][m] = queue[kind][n]
      BY <1>3, <1>4, <2>1, <2>2, IdsUnique, Names
    <2> QED BY <1>1, <1>3, <2>1, <2>3 DEF Distinct
  <1>6. Find(kind, i) = n
    <2>1. \A m \in At(kind, i) : n <= m
      BY <1>3, <1>5
    <2>2. Find(kind, i) \in At(kind, i)
      BY <1>2, <2>1 DEF Find
    <2> QED BY <1>5, <2>2
  <1> QED BY <1>3, <1>4, <1>6

(* The stop handlers. *)
LEMMA StopInv ==
    ASSUME IndInv, NEW kind \in Kinds, NEW i \in Ids, Stop(kind, i)
    PROVE  IndInv'
  <1>1. loop = None /\ UNCHANGED <<errno, loop, cursor>>
    BY DEF Stop
  <1>2. CursorAtHead'
    BY <1>1 DEF CursorAtHead
  <1>3. "OK" \in Code /\ "error" \in Code
    BY DEF Code
  <1>4. CASE StopFails(kind, i)
    <2>1. UNCHANGED <<queue, length, heap, worker, fds>>
          /\ Answer("stop", kind, i, "error")
      BY <1>4 DEF StopFails
    <2>2. reply' \in Reply
      BY <1>3, <2>1, AnswerType DEF IndInv
    <2>3. TypeOK'
      BY <1>1, <2>1, <2>2 DEF IndInv, TypeOK
    <2>4. \A q \in Queues : \A t \in Listed(q) : Undisturbed(t)
      BY <2>1 DEF Undisturbed
    <2>5. QueuesAgree' /\ ListedTasksRun' /\ OwnDescriptors'
      BY <2>1, <2>4, KeptTasks
    <2>6. NoUnreachableWorker'
      BY <2>1 DEF IndInv, NoUnreachableWorker, Listed
    <2> QED BY <1>2, <2>3, <2>5, <2>6 DEF IndInv
  <1>5. CASE StopDone(kind, i)
    <2> DEFINE t == queue[kind][Find(kind, i)]
    <2>1. Release(t) /\ Answer("stop", kind, i, "OK") /\ At(kind, i) # {}
      BY <1>5 DEF StopDone
    <2>2. t \in Listed(kind)
      BY <2>1, StopTarget
    <2> HIDE DEF t
    <2>3. reply' \in Reply
      BY <1>3, <2>1, AnswerType DEF IndInv
    <2>4. queue' \in [Queues -> Seq(Tasks)] /\ length' \in [Queues -> Int]
      BY <2>1, <2>2, Released
    <2>5. /\ QueuesAgree' /\ ListedTasksRun' /\ OwnDescriptors'
          /\ NoUnreachableWorker'
          /\ heap' \in [Tasks -> Task \cup {None}]
          /\ worker' \in [Ids -> Worker \cup {None}]
          /\ fds' \in [Fds -> {"closed", "sock", "pcap"}]
      BY <2>1, <2>2, ReleaseInv
    <2>6. TypeOK'
      BY <1>1, <2>3, <2>4, <2>5 DEF IndInv, TypeOK
    <2> QED BY <1>2, <2>5, <2>6 DEF IndInv
  <1> QED BY <1>4, <1>5 DEF Stop

(* Where the loop of a stop_all handler stands and where it goes. *)
LEMMA CursorListed ==
    ASSUME IndInv, loop # None
    PROVE  /\ loop \in Kinds
           /\ cursor \in Listed(loop)
           /\ heap[cursor].kind = loop
           /\ queue[loop] \in Seq(Tasks)
           /\ Len(queue[loop]) \in Nat \ {0}
           /\ Position(loop, cursor) = 1
           /\ Following(cursor) = IF Len(queue[loop]) >= 2
                                  THEN queue[loop][2] ELSE None
           /\ Following(cursor) = None <=> Len(queue[loop]) = 1
  <1>1. loop \in Kinds /\ queue[loop] \in Seq(Tasks) /\ Distinct(queue[loop])
    BY Names DEF IndInv, TypeOK, QueuesAgree, NoDuplicates, Distinct
  <1>2. queue[loop] # <<>> /\ cursor = queue[loop][1]
    BY DEF IndInv, CursorAtHead
  <1>3. Len(queue[loop]) \in Nat \ {0}
    BY <1>1, <1>2, EmptySeq
  <1>4. 1 \in 1..Len(queue[loop])
    BY <1>3
  <1>5. cursor \in Listed(loop)
    BY <1>1, <1>2, <1>4, ToSetElements DEF Listed
  <1>6. heap[cursor].kind = loop
    <2>1. cursor \in Tasks
      BY <1>1, <1>5, ListedTask, Names
    <2> QED BY <1>1, <1>5, <2>1 DEF IndInv, QueuesAgree, SameTasks
  <1>7. Position(loop, cursor) = 1
    <2>1. Position(loop, cursor) \in 1..Len(queue[loop])
          /\ queue[loop][Position(loop, cursor)] = cursor
      BY <1>2, <1>4 DEF Position
    <2> QED BY <1>1, <1>2, <1>4, <2>1 DEF Distinct
  <1>8. Following(cursor) = IF Len(queue[loop]) >= 2 THEN queue[loop][2] ELSE None
    <2>1. Following(cursor) = IF 2 \in 1..Len(queue[loop]) THEN queue[loop][2] ELSE None
      BY <1>6, <1>7 DEF Following
    <2> QED BY <1>3, <2>1
  <1>9. Len(queue[loop]) >= 2 => queue[loop][2] # None
    <2>1. ASSUME Len(queue[loop]) >= 2 PROVE queue[loop][2] \in Tasks
      <3>1. 2 \in 1..Len(queue[loop])
        BY <1>3, <2>1
      <3> QED BY <1>1, <3>1, ElementOfSeq
    <2> QED BY <2>1, NoneAssumption
  <1>10. Following(cursor) = None <=> Len(queue[loop]) = 1
    <2> DEFINE len == Len(queue[loop])
    <2>1. len \in Nat \ {0}
      BY <1>3
    <2> HIDE DEF len
    <2>2. len >= 2 \/ len = 1
      BY <2>1
    <2>3. ~(len >= 2 /\ len = 1)
      BY <2>1
    <2>4. CASE Len(queue[loop]) >= 2
      <3>1. Following(cursor) # None
        BY <1>8, <1>9, <2>4
      <3> QED BY <2>3, <2>4, <3>1 DEF len
    <2>5. CASE ~(Len(queue[loop]) >= 2)
      <3>1. Following(cursor) = None
        BY <1>8, <2>5
      <3>2. Len(queue[loop]) = 1
        BY <2>2, <2>5 DEF len
      <3> QED BY <3>1, <3>2
    <2> QED BY <2>4, <2>5
  <1> QED BY <1>1, <1>3, <1>5, <1>6, <1>7, <1>8, <1>10

(* The first entry after the head is removed, and when there is none. *)
LEMMA HeadReleased ==
    ASSUME IndInv, loop # None, Release(cursor)
    PROVE  /\ Following(cursor) = None => queue'[loop] = <<>>
           /\ Following(cursor) # None =>
                 queue'[loop] # <<>> /\ queue'[loop][1] = Following(cursor)
  <1>1. /\ loop \in Kinds
        /\ cursor \in Listed(loop)
        /\ queue[loop] \in Seq(Tasks)
        /\ Len(queue[loop]) \in Nat \ {0}
        /\ Position(loop, cursor) = 1
        /\ Following(cursor) = IF Len(queue[loop]) >= 2
                               THEN queue[loop][2] ELSE None
        /\ Following(cursor) = None <=> Len(queue[loop]) = 1
    BY CursorListed
  <1>2. queue'[loop] = RemoveAt(queue[loop], 1) /\ queue'[loop] \in Seq(Tasks)
    <2>1. loop \in Kinds /\ cursor \in Listed(loop)
      BY <1>1
    <2>2. /\ queue'[loop] = RemoveAt(queue[loop], Position(loop, cursor))
          /\ \A q \in Queues : queue'[q] \in Seq(Tasks)
      BY <2>1, Released
    <2> QED BY <1>1, <2>2, Names
  <1>3. 1 \in 1..Len(queue[loop])
    BY <1>1
  <1>4. /\ Len(RemoveAt(queue[loop], 1)) = Len(queue[loop]) - 1
        /\ \A m \in 1..(Len(queue[loop]) - 1) :
              RemoveAt(queue[loop], 1)[m] =
                IF m < 1 THEN queue[loop][m] ELSE queue[loop][m + 1]
    BY <1>1, <1>3, RemoveAtElements
  <1>5. Following(cursor) = None => queue'[loop] = <<>>
    <2>1. Following(cursor) = None => Len(queue'[loop]) = 0
      BY <1>1, <1>2, <1>4
    <2> QED BY <1>2, <2>1, EmptySeq
  <1>6. ASSUME Following(cursor) # None
        PROVE  queue'[loop] # <<>> /\ queue'[loop][1] = Following(cursor)
    <2>1. Len(queue[loop]) >= 2
      BY <1>1, <1>6
    <2>2. Len(queue'[loop]) >= 1
      BY <1>1, <1>2, <1>4, <2>1
    <2>3. queue'[loop] # <<>>
      BY <2>2, EmptySeq
    <2>4. queue'[loop][1] = queue[loop][2]
      <3>1. 1 \in 1..(Len(queue[loop]) - 1)
        BY <1>1, <2>1
      <3> QED BY <1>2, <1>4, <3>1
    <2> QED BY <1>1, <2>1, <2>3, <2>4
  <1> QED BY <1>5, <1>6

(* A stop_all handler starts its loop at the head of its queue. *)
LEMMA StopAllBeginsInv ==
    ASSUME IndInv, NEW kind \in Kinds, StopAllBegins(kind)
    PROVE  IndInv'
  <1>1. loop = None /\ UNCHANGED <<queue, length, heap, worker, fds, errno>>
    BY DEF StopAllBegins
  <1>2. \/ UNCHANGED <<loop, cursor>> /\ Answer("stop_all", kind, None, "OK")
        \/ /\ queue[kind] # <<>>
           /\ loop' = kind /\ cursor' = queue[kind][1] /\ UNCHANGED reply
    BY DEF StopAllBegins
  <1>3. reply' \in Reply
    <2>1. "OK" \in Code
      BY DEF Code
    <2> QED BY <1>2, <2>1, AnswerType DEF IndInv, TypeOK
  <1>4. CursorAtHead'
    BY <1>1, <1>2 DEF CursorAtHead
  <1>5. cursor' \in Tasks \cup {None}
    <2>1. queue[kind] \in Seq(Tasks)
      BY Names DEF IndInv, TypeOK
    <2>2. queue[kind] # <<>> => queue[kind][1] \in Tasks
      <3>1. queue[kind] # <<>> => 1 \in 1..Len(queue[kind])
        BY <2>1, EmptySeq
      <3> QED BY <2>1, <3>1, ElementOfSeq
    <2> QED BY <1>2, <2>2 DEF IndInv, TypeOK
  <1>6. TypeOK'
    BY <1>1, <1>2, <1>3, <1>5 DEF IndInv, TypeOK
  <1>7. \A q \in Queues : \A t \in Listed(q) : Undisturbed(t)
    BY <1>1 DEF Undisturbed
  <1>8. QueuesAgree' /\ ListedTasksRun' /\ OwnDescriptors'
    BY <1>1, <1>7, KeptTasks
  <1>9. NoUnreachableWorker'
    BY <1>1 DEF IndInv, NoUnreachableWorker, Listed
  <1> QED BY <1>4, <1>6, <1>8, <1>9 DEF IndInv

(* The worker of the entry at the cursor runs, so the loop never breaks. *)
LEMMA CursorCanStop ==
    ASSUME IndInv, loop # None
    PROVE  CanStop(heap[cursor].id)
  <1>1. loop \in Kinds /\ cursor \in Listed(loop)
    BY CursorListed
  <1>2. /\ cursor \in Tasks
        /\ worker[heap[cursor].id] = [arg |-> cursor, cancelled |-> FALSE]
        /\ cursor \in Listed("thread")
    BY <1>1, ListedTask, Names
  <1>3. worker[heap[cursor].id] # None
    BY <1>2, WorkerNotNone
  <1>4. queue["thread"] \in Seq(Tasks)
    BY Names DEF IndInv, TypeOK
  <1>5. \E n \in 1..Len(queue["thread"]) : queue["thread"][n] = cursor
    BY <1>2, <1>4, ToSetElements DEF Listed
  <1> QED BY <1>3, <1>5 DEF CanStop, At

(* An iteration of stop_all releases one task and moves to the next. *)
LEMMA StopAllNextInv ==
    ASSUME IndInv, StopAllNext
    PROVE  IndInv'
  <1>1. loop # None /\ UNCHANGED errno
    BY DEF StopAllNext
  <1>2. CanStop(heap[cursor].id)
    BY <1>1, CursorCanStop
  <1>3. /\ Release(cursor)
        /\ cursor' = Following(cursor)
        /\ IF Following(cursor) = None
           THEN loop' = None /\ Answer("stop_all", loop, None, "OK")
           ELSE UNCHANGED <<loop, reply>>
    BY <1>2 DEF StopAllNext
  <1>4. /\ loop \in Kinds
        /\ cursor \in Listed(loop)
        /\ queue[loop] \in Seq(Tasks)
        /\ Following(cursor) = IF Len(queue[loop]) >= 2
                               THEN queue[loop][2] ELSE None
    BY <1>1, CursorListed
  <1>5. queue' \in [Queues -> Seq(Tasks)] /\ length' \in [Queues -> Int]
    BY <1>3, <1>4, Released
  <1>6. /\ QueuesAgree' /\ ListedTasksRun' /\ OwnDescriptors'
        /\ NoUnreachableWorker'
        /\ heap' \in [Tasks -> Task \cup {None}]
        /\ worker' \in [Ids -> Worker \cup {None}]
        /\ fds' \in [Fds -> {"closed", "sock", "pcap"}]
    BY <1>3, <1>4, ReleaseInv
  <1>7. reply' \in Reply
    <2>1. "OK" \in Code
      BY DEF Code
    <2> QED BY <1>3, <1>4, <2>1, AnswerType DEF IndInv, TypeOK
  <1>8. CursorAtHead'
    <2>1. CASE Following(cursor) = None
      BY <1>3, <2>1 DEF CursorAtHead
    <2>2. CASE Following(cursor) # None
      BY <1>1, <1>3, <2>2, HeadReleased DEF CursorAtHead
    <2> QED BY <2>1, <2>2
  <1>9. cursor' \in Tasks \cup {None}
    <2>1. CASE Following(cursor) = None
      BY <1>3, <2>1
    <2>2. CASE Following(cursor) # None
      <3>1. Len(queue[loop]) >= 2 /\ Following(cursor) = queue[loop][2]
        BY <1>4, <2>2
      <3>2. 2 \in 1..Len(queue[loop])
        BY <1>4, <3>1, LenProperties
      <3> QED BY <1>3, <1>4, <3>1, <3>2, ElementOfSeq
    <2> QED BY <2>1, <2>2
  <1>10. TypeOK'
    BY <1>1, <1>3, <1>4, <1>5, <1>6, <1>7, <1>9 DEF IndInv, TypeOK
  <1> QED BY <1>6, <1>8, <1>10 DEF IndInv

-----------------------------------------------------------------------------
(* Every handler, iteration and end of a thread preserves the invariant. *)
LEMMA NextInv == IndInv /\ [Next]_vars => IndInv'
  <1> SUFFICES ASSUME IndInv, [Next]_vars PROVE IndInv'
    OBVIOUS
  <1>1. ASSUME NEW kind \in Kinds, Start(kind) PROVE IndInv'
    <2>1. loop = None /\ UNCHANGED <<loop, cursor>>
      BY <1>1 DEF Start
    <2>2. CASE StartRefused(kind) \/ StartHeaderShort(kind)
      BY <2>1, <2>2, StartRefusedInv
    <2>3. CASE StartAborted(kind) \/ StartNotDetached(kind)
      BY <2>1, <2>3, StartAbortedInv
    <2>4. CASE StartDone(kind)
      BY <2>1, <2>4, StartDoneInv
    <2> QED BY <1>1, <2>2, <2>3, <2>4 DEF Start
  <1>2. ASSUME NEW kind \in Kinds, NEW i \in Ids, Stop(kind, i) PROVE IndInv'
    BY <1>2, StopInv
  <1>3. ASSUME NEW kind \in Kinds, StopAllBegins(kind) PROVE IndInv'
    BY <1>3, StopAllBeginsInv
  <1>4. CASE StopAllNext
    BY <1>4, StopAllNextInv
  <1>5. ASSUME NEW i \in Ids, WorkerEnds(i) PROVE IndInv'
    BY <1>5, WorkerEndsInv
  <1>6. CASE UNCHANGED vars
    <2>1. UNCHANGED <<queue, length, heap, worker, fds, errno, loop, cursor, reply>>
      BY <1>6 DEF vars
    <2> QED BY <2>1 DEF IndInv, TypeOK, QueuesAgree, LengthsAgree, NoDuplicates,
                        SameTasks, ListedTasksRun, OwnDescriptors,
                        NoUnreachableWorker, CursorAtHead, Listed
  <1> QED BY <1>1, <1>2, <1>3, <1>4, <1>5, <1>6 DEF Next

(***************************************************************************)
(* In every behaviour of the daemon's handlers the invariant holds.        *)
(***************************************************************************)
THEOREM Invariance == Spec => []IndInv
  <1>1. Init => IndInv
    BY InitInv
  <1>2. IndInv /\ [Next]_vars => IndInv'
    BY NextInv
  <1> QED BY <1>1, <1>2, PTL DEF Spec

(***************************************************************************)
(* The handlers keep every structure of the type its declaration says.     *)
(***************************************************************************)
THEOREM TypeCorrect == Spec => []TypeOK
  <1>1. IndInv => TypeOK
    BY DEF IndInv
  <1> QED BY <1>1, Invariance, PTL

(***************************************************************************)
(* The thread queue always holds the captures and the replays, once each,  *)
(* and the length fields the get handlers size their arrays with are true. *)
(***************************************************************************)
THEOREM QueuesAlwaysAgree == Spec => []QueuesAgree
  <1>1. IndInv => QueuesAgree
    BY DEF IndInv
  <1> QED BY <1>1, Invariance, PTL

(***************************************************************************)
(* No queue ever holds a freed task or one whose thread was cancelled or   *)
(* replaced by another one with the same id.                               *)
(***************************************************************************)
THEOREM ListedTasksAlwaysRun == Spec => []ListedTasksRun
  <1>1. IndInv => ListedTasksRun
    BY DEF IndInv
  <1> QED BY <1>1, Invariance, PTL

(***************************************************************************)
(* No two listed tasks share a descriptor, and theirs are open.            *)
(***************************************************************************)
THEOREM DescriptorsAlwaysOwned == Spec => []OwnDescriptors
  <1>1. IndInv => OwnDescriptors
    BY DEF IndInv
  <1> QED BY <1>1, Invariance, PTL

(***************************************************************************)
(* Unless pthread_detach() fails, every thread that was not cancelled can  *)
(* be found and stopped.                                                   *)
(***************************************************************************)
THEOREM WorkersAlwaysReachable == Spec => []NoUnreachableWorker
  <1>1. IndInv => NoUnreachableWorker
    BY DEF IndInv
  <1> QED BY <1>1, Invariance, PTL

-----------------------------------------------------------------------------
(***************************************************************************)
(* What is done to one task never disturbs another, and a task leaves the  *)
(* list only when a stop of its id and kind, or of all of its kind, was    *)
(* requested.                                                              *)
(***************************************************************************)
THEOREM TasksNeverDisturbed == Spec => TasksUndisturbed
  <1> DEFINE Good == \A t \in Listed("thread") :
                        IF t \in Listed("thread")' THEN Undisturbed(t) ELSE Requested(t)
  <1>1. IndInv /\ [Next]_vars => [Good]_vars
    <2> SUFFICES ASSUME IndInv, Next, NEW t \in Listed("thread")
                 PROVE  IF t \in Listed("thread")' THEN Undisturbed(t) ELSE Requested(t)
      OBVIOUS
    <2>1. ASSUME UNCHANGED queue, Undisturbed(t)
          PROVE  IF t \in Listed("thread")' THEN Undisturbed(t) ELSE Requested(t)
      BY <2>1 DEF Listed
    <2>2. /\ t \in Tasks
          /\ heap[t] \in Task
          /\ worker[heap[t].id] = [arg |-> t, cancelled |-> FALSE]
          /\ t \in Listed(heap[t].kind)
      BY ListedTask, Names
    <2>3. /\ heap[t].kind \in Kinds
          /\ heap[t].id \in Ids /\ heap[t].sock \in Fds /\ heap[t].pcap \in Fds
      BY <2>2 DEF Task
    <2>4. /\ fds[heap[t].sock] = "sock" /\ fds[heap[t].pcap] = "pcap"
          /\ worker[heap[t].id] # None
          /\ ~worker[heap[t].id].cancelled
          /\ heap[t] # None
      <3>1. fds[heap[t].sock] = "sock" /\ fds[heap[t].pcap] = "pcap"
        BY <2>2, <2>3 DEF IndInv, OwnDescriptors
      <3>2. worker[heap[t].id] # None
        BY <2>2, WorkerNotNone
      <3>3. ~worker[heap[t].id].cancelled
        BY <2>2
      <3>4. heap[t] # None
        BY <2>2, NoneAssumption
      <3> QED BY <3>1, <3>2, <3>3, <3>4
    <2>5. ASSUME NEW kind \in Kinds, Start(kind)
          PROVE  IF t \in Listed("thread")' THEN Undisturbed(t) ELSE Requested(t)
      <3>1. CASE StartRefused(kind) \/ StartHeaderShort(kind)
        <4>1. UNCHANGED <<queue, heap, worker, fds>>
          BY <3>1 DEF StartRefused, StartHeaderShort
        <4> QED BY <2>1, <4>1 DEF Undisturbed
      <3>2. CASE StartAborted(kind)
        <4>1. /\ UNCHANGED <<queue, heap, worker>>
              /\ \E pcap \in ClosedFds : fds' = [fds EXCEPT ![pcap] = "pcap"]
          BY <3>2 DEF StartAborted
        <4>2. Undisturbed(t)
          BY <2>3, <2>4, <4>1 DEF Undisturbed, ClosedFds, IndInv, TypeOK
        <4> QED BY <2>1, <4>1, <4>2
      <3>3. CASE StartNotDetached(kind)
        <4>1. /\ UNCHANGED <<queue, heap>>
              /\ \E pcap \in ClosedFds : fds' = [fds EXCEPT ![pcap] = "pcap"]
              /\ \E u \in Tasks, i \in Ids :
                    /\ worker[i] = None
                    /\ worker' = [worker EXCEPT ![i] = [arg |-> u, cancelled |-> FALSE]]
          BY <3>3 DEF StartNotDetached
        <4>2. /\ fds'[heap[t].sock] = fds[heap[t].sock]
              /\ fds'[heap[t].pcap] = fds[heap[t].pcap]
          BY <2>3, <2>4, <4>1 DEF ClosedFds, IndInv, TypeOK
        <4>3. worker'[heap[t].id] = worker[heap[t].id]
          BY <2>3, <2>4, <4>1 DEF IndInv, TypeOK
        <4> QED BY <2>1, <4>1, <4>2, <4>3 DEF Undisturbed
      <3>4. CASE StartDone(kind)
        <4>1. PICK sock \in ClosedFds, pcap \in ClosedFds, u \in Tasks, i \in Ids :
                /\ heap[u] = None
                /\ worker[i] = None
                /\ fds' = [fds EXCEPT ![sock] = "sock", ![pcap] = "pcap"]
                /\ heap' = [heap EXCEPT ![u] = [kind |-> kind, id |-> i,
                                                sock |-> sock, pcap |-> pcap]]
                /\ worker' = [worker EXCEPT ![i] = [arg |-> u, cancelled |-> FALSE]]
                /\ Insert(kind, u)
          BY <3>4 DEF StartDone
        <4>2. sock \in Fds /\ fds[sock] = "closed" /\ pcap \in Fds /\ fds[pcap] = "closed"
          BY DEF ClosedFds
        <4>3. /\ fds'[heap[t].sock] = fds[heap[t].sock]
              /\ fds'[heap[t].pcap] = fds[heap[t].pcap]
          BY <2>3, <2>4, <4>1, <4>2 DEF IndInv, TypeOK
        <4>4. heap'[t] = heap[t]
          BY <2>2, <2>4, <4>1 DEF IndInv, TypeOK
        <4>5. worker'[heap[t].id] = worker[heap[t].id]
          BY <2>3, <2>4, <4>1 DEF IndInv, TypeOK
        <4>6. t \in Listed("thread")'
          <5>1. queue["thread"] \in Seq(Tasks) /\ Distinct(queue["thread"])
            BY Names DEF IndInv, TypeOK, QueuesAgree, NoDuplicates, Distinct
          <5>2. u \notin ToSet(queue["thread"])
            BY <4>1, Names DEF IndInv, ListedTasksRun, Listed
          <5>3. ToSet(Append(queue["thread"], u)) = ToSet(queue["thread"]) \cup {u}
            BY <5>1, <5>2, AppendDistinct
          <5>4. queue'["thread"] = Append(queue["thread"], u)
            <6>1. queue' = [queue EXCEPT !["thread"] = Append(@, u),
                                         ![kind] = Append(@, u)]
              BY <4>1 DEF Insert
            <6>2. queue \in [Queues -> Seq(Tasks)]
              BY DEF IndInv, TypeOK
            <6> QED BY <6>1, <6>2, Names
          <5> QED BY <5>3, <5>4 DEF Listed
        <4> QED BY <4>3, <4>4, <4>5, <4>6 DEF Undisturbed
      <3> QED BY <2>5, <3>1, <3>2, <3>3, <3>4 DEF Start
    <2>6. ASSUME NEW kind \in Kinds, NEW u \in Listed(kind), Release(u)
          PROVE  /\ t \in Listed("thread")' => Undisturbed(t)
                 /\ t \notin Listed("thread")' => t = u
                 /\ heap[u].kind = kind
      <3>1. /\ t \in Listed("thread")' => Undisturbed(t)
        BY <2>6, ReleaseInv, Names
      <3>2. Listed("thread")' = Listed("thread") \ {u} /\ heap[u].kind = kind
        BY <2>6, Released, Names
      <3> QED BY <3>1, <3>2
    <2>7. ASSUME NEW kind \in Kinds, NEW i \in Ids, Stop(kind, i)
          PROVE  IF t \in Listed("thread")' THEN Undisturbed(t) ELSE Requested(t)
      <3>1. CASE StopFails(kind, i)
        <4>1. UNCHANGED <<queue, heap, worker, fds>>
          BY <3>1 DEF StopFails
        <4> QED BY <2>1, <4>1 DEF Undisturbed
      <3>2. CASE StopDone(kind, i)
        <4> DEFINE u == queue[kind][Find(kind, i)]
        <4>1. /\ loop = None
              /\ Release(u)
              /\ At(kind, i) # {}
              /\ Answer("stop", kind, i, "OK")
          BY <2>7, <3>2 DEF Stop, StopDone
        <4>2. u \in Listed(kind) /\ heap[u].id = i
          BY <4>1, StopTarget
        <4> HIDE DEF u
        <4>3. /\ t \in Listed("thread")' => Undisturbed(t)
              /\ t \notin Listed("thread")' => t = u
              /\ heap[u].kind = kind
          BY <2>6, <4>1, <4>2
        <4>4. reply'.rpc = "stop" /\ reply'.kind = kind /\ reply'.id = i
          BY <4>1 DEF Answer
        <4> QED BY <4>1, <4>2, <4>3, <4>4 DEF Requested
      <3> QED BY <2>7, <3>1, <3>2 DEF Stop
    <2>8. ASSUME NEW kind \in Kinds, StopAllBegins(kind)
          PROVE  IF t \in Listed("thread")' THEN Undisturbed(t) ELSE Requested(t)
      <3>1. UNCHANGED <<queue, heap, worker, fds>>
        BY <2>8 DEF StopAllBegins
      <3> QED BY <2>1, <3>1 DEF Undisturbed
    <2>9. CASE StopAllNext
      <3>1. loop # None /\ CanStop(heap[cursor].id)
        BY <2>9, CursorCanStop DEF StopAllNext
      <3>2. Release(cursor)
        BY <2>9, <3>1 DEF StopAllNext
      <3>3. loop \in Kinds /\ cursor \in Listed(loop)
        BY <3>1, CursorListed
      <3>4. /\ t \in Listed("thread")' => Undisturbed(t)
            /\ t \notin Listed("thread")' => t = cursor
            /\ heap[cursor].kind = loop
        BY <2>6, <3>2, <3>3
      <3> QED BY <3>1, <3>4 DEF Requested
    <2>10. ASSUME NEW i \in Ids, WorkerEnds(i)
           PROVE  IF t \in Listed("thread")' THEN Undisturbed(t) ELSE Requested(t)
      <3>1. /\ UNCHANGED <<queue, heap, fds>>
            /\ worker' = [worker EXCEPT ![i] = None]
            /\ worker[i].cancelled
        BY <2>10 DEF WorkerEnds
      <3>2. worker'[heap[t].id] = worker[heap[t].id]
        BY <2>3, <2>4, <3>1 DEF IndInv, TypeOK
      <3> QED BY <2>1, <3>1, <3>2 DEF Undisturbed
    <2> QED BY <2>5, <2>7, <2>8, <2>9, <2>10 DEF Next
  <1> QED BY <1>1, Invariance, PTL DEF Spec, TasksUndisturbed

-----------------------------------------------------------------------------
(* Replies.                                                                *)

(* The reply is a record of what the handler says and of what it found. *)
LEMMA Answered ==
    ASSUME NEW rpc, NEW kind, NEW i, NEW code, Answer(rpc, kind, i, code)
    PROVE  /\ reply'.rpc = rpc /\ reply'.kind = kind /\ reply'.id = i
           /\ reply'.code = code /\ reply'.before = Len(queue["thread"])
  BY DEF Answer

(* A start that succeeds lists the new task last. *)
LEMMA StartAppends ==
    ASSUME IndInv, NEW kind \in Kinds, NEW t \in Tasks, Insert(kind, t)
    PROVE  queue'["thread"] = Append(queue["thread"], t)
  <1>1. queue' = [queue EXCEPT !["thread"] = Append(@, t), ![kind] = Append(@, t)]
    BY DEF Insert
  <1>2. queue \in [Queues -> Seq(Tasks)]
    BY DEF IndInv, TypeOK
  <1> QED BY <1>1, <1>2, Names

(***************************************************************************)
(* "Returns 0 on success, else on failure" (dabbad/capture.c:140,191,225), *)
(* for any number of tasks, ids and descriptors: unless a file header is   *)
(* written short, start replies 0 when one more task is listed and only    *)
(* then, stop when there is one less, and stop_all when none of its kind   *)
(* is left.                                                                *)
(***************************************************************************)
THEOREM RepliesAlwaysHonest == "short_header" \notin Faults => (Spec => []RepliesHonest)
  <1> SUFFICES ASSUME "short_header" \notin Faults PROVE Spec => []RepliesHonest
    OBVIOUS
  <1>1. Init => RepliesHonest
    BY DEF Init, RepliesHonest
  <1>2. IndInv /\ RepliesHonest /\ [Next]_vars => RepliesHonest'
    <2> SUFFICES ASSUME IndInv, RepliesHonest, [Next]_vars, loop' = None
                 PROVE  RepliesHonest'
      BY DEF RepliesHonest
    <2>1. Len(queue["thread"]) \in Nat /\ queue["thread"] \in Seq(Tasks)
      BY Names, LenProperties DEF IndInv, TypeOK
    <2>2. ASSUME NEW kind \in Kinds, Start(kind) PROVE RepliesHonest'
      <3>1. CASE StartRefused(kind) \/ StartAborted(kind) \/ StartNotDetached(kind)
        <4>1. Answer("start", kind, None, "error") /\ UNCHANGED queue
          BY <3>1 DEF StartRefused, StartAborted, StartNotDetached
        <4>2. /\ reply'.rpc = "start" /\ reply'.code = "error"
              /\ reply'.before = Len(queue["thread"])
          BY <4>1, Answered
        <4> QED BY <4>1, <4>2 DEF RepliesHonest
      <3>2. CASE StartDone(kind)
        <4>1. Answer("start", kind, None, "OK") /\ \E t \in Tasks : Insert(kind, t)
          BY <3>2 DEF StartDone
        <4>2. /\ reply'.rpc = "start" /\ reply'.code = "OK"
              /\ reply'.before = Len(queue["thread"])
          BY <4>1, Answered
        <4>3. Len(queue'["thread"]) = Len(queue["thread"]) + 1
          BY <2>1, <4>1, StartAppends, LenProperties
        <4> QED BY <4>2, <4>3 DEF RepliesHonest
      <3> QED BY <2>2, <3>1, <3>2 DEF Start, StartHeaderShort
    <2>3. ASSUME NEW kind \in Kinds, NEW i \in Ids, Stop(kind, i) PROVE RepliesHonest'
      <3>1. CASE StopFails(kind, i)
        <4>1. Answer("stop", kind, i, "error") /\ UNCHANGED queue
          BY <3>1 DEF StopFails
        <4>2. /\ reply'.rpc = "stop" /\ reply'.code = "error"
              /\ reply'.before = Len(queue["thread"])
          BY <4>1, Answered
        <4> QED BY <4>1, <4>2 DEF RepliesHonest
      <3>2. CASE StopDone(kind, i)
        <4> DEFINE t == queue[kind][Find(kind, i)]
        <4>1. Answer("stop", kind, i, "OK") /\ Release(t) /\ At(kind, i) # {}
          BY <3>2 DEF StopDone
        <4>2. /\ reply'.rpc = "stop" /\ reply'.code = "OK"
              /\ reply'.before = Len(queue["thread"])
          BY <4>1, Answered
        <4>3. t \in Listed(kind)
          BY <4>1, StopTarget
        <4> HIDE DEF t
        <4>4. Len(queue'["thread"]) = Len(queue["thread"]) - 1
          BY <4>1, <4>3, Released
        <4> QED BY <4>2, <4>4 DEF RepliesHonest
      <3> QED BY <2>3, <3>1, <3>2 DEF Stop
    <2>4. ASSUME NEW kind \in Kinds, StopAllBegins(kind) PROVE RepliesHonest'
      <3>1. kind # None
        BY NoneAssumption
      <3>2. queue[kind] = <<>> /\ UNCHANGED queue /\ Answer("stop_all", kind, None, "OK")
        BY <2>4, <3>1 DEF StopAllBegins
      <3>3. reply'.rpc = "stop_all" /\ reply'.code = "OK" /\ reply'.kind = kind
        BY <3>2, Answered
      <3> QED BY <3>2, <3>3 DEF RepliesHonest
    <2>5. CASE StopAllNext
      <3>1. loop # None /\ CanStop(heap[cursor].id)
        BY <2>5, CursorCanStop DEF StopAllNext
      <3>2. /\ Release(cursor)
            /\ Following(cursor) = None
            /\ Answer("stop_all", loop, None, "OK")
        BY <2>5, <3>1 DEF StopAllNext
      <3>3. reply'.rpc = "stop_all" /\ reply'.code = "OK" /\ reply'.kind = loop
        BY <3>2, Answered
      <3>4. queue'[loop] = <<>>
        BY <3>1, <3>2, HeadReleased
      <3> QED BY <3>3, <3>4 DEF RepliesHonest
    <2>6. ASSUME NEW i \in Ids, WorkerEnds(i) PROVE RepliesHonest'
      BY <2>6 DEF WorkerEnds, RepliesHonest
    <2>7. CASE UNCHANGED vars
      BY <2>7 DEF vars, RepliesHonest
    <2> QED BY <2>2, <2>3, <2>4, <2>5, <2>6, <2>7 DEF Next
  <1> QED BY <1>1, <1>2, Invariance, PTL DEF Spec

-----------------------------------------------------------------------------
(* The refinement of TaskTable.                                            *)

(* The tasks clients see: all listed ones, but those a stop_all has still  *)
(* to stop.                                                                *)
Seen == {u \in Listed("thread") : heap[u].kind # loop}

LEMMA SeenTasks ==
    ASSUME IndInv
    PROVE  /\ TableTasks = {EntryOf(t) : t \in Seen}
           /\ loop = None => Seen = Listed("thread")
           /\ \A t \in Seen : /\ t \in Listed("thread") /\ t \in Tasks
                              /\ heap[t].kind \in Kinds /\ heap[t].id \in Ids
                              /\ worker[heap[t].id] # None
  <1>1. TableTasks = {EntryOf(t) : t \in Seen}
    BY DEF TableTasks, Seen
  <1>2. ASSUME NEW t \in Listed("thread")
        PROVE  /\ t \in Tasks /\ heap[t].kind \in Kinds /\ heap[t].id \in Ids
               /\ worker[heap[t].id] # None
    <2>1. /\ t \in Tasks /\ heap[t] \in Task
          /\ worker[heap[t].id] = [arg |-> t, cancelled |-> FALSE]
      BY ListedTask, Names
    <2>2. worker[heap[t].id] # None
      BY <2>1, WorkerNotNone
    <2> QED BY <2>1, <2>2 DEF Task
  <1>3. loop = None => Seen = Listed("thread")
    BY <1>2, NoneAssumption DEF Seen
  <1> QED BY <1>1, <1>2, <1>3 DEF Seen

(* Steps that keep the tasks clients see keep the table. *)
LEMMA TableKept ==
    ASSUME Seen' = Seen, \A t \in Seen : heap'[t] = heap[t]
    PROVE  TableTasks' = TableTasks
  <1>1. TableTasks = {EntryOf(t) : t \in Seen}
    BY DEF TableTasks, Seen
  <1>2. TableTasks' = {EntryOf(t)' : t \in Seen'}
    BY DEF TableTasks, Seen
  <1> QED BY <1>1, <1>2 DEF EntryOf

(* No reply is awaited: the table's last reply is the daemon's. *)
LEMMA TableAnswered ==
    ASSUME loop' = None, NEW rpc, NEW kind, NEW i, NEW code, Answer(rpc, kind, i, code)
    PROVE  TableReply' = [rpc |-> rpc, kind |-> kind, id |-> i, code |-> code]
  BY Answered DEF TableReply

LEMMA StartRefines ==
    ASSUME IndInv, IndInv', NEW kind \in Kinds, Start(kind)
    PROVE  Table!Start(kind)
  <1>1. loop = None /\ loop' = None
    BY DEF Start
  <1>2. CASE UNCHANGED <<queue, heap>> /\
             \E code \in {"OK", "error"} :
                 /\ code = "OK" => kind = "capture" /\ "short_header" \in Faults
                 /\ Answer("start", kind, None, code)
    <2>1. PICK code \in {"OK", "error"} :
             /\ code = "OK" => kind = "capture" /\ "short_header" \in Faults
             /\ Answer("start", kind, None, code)
      BY <1>2
    <2>2. Seen' = Seen /\ TableTasks' = TableTasks
      BY <1>1, <1>2, TableKept DEF Seen, Listed
    <2>3. TableReply' = [rpc |-> "start", kind |-> kind, id |-> None, code |-> code]
      BY <1>1, <2>1, TableAnswered
    <2> QED BY <2>1, <2>2, <2>3 DEF Table!Start, Table!Refused, Table!Answer
  <1>3. CASE StartRefused(kind) \/ StartAborted(kind) \/ StartNotDetached(kind)
    BY <1>2, <1>3 DEF StartRefused, StartAborted, StartNotDetached
  <1>4. CASE StartHeaderShort(kind)
    BY <1>2, <1>4 DEF StartHeaderShort, IndInv, TypeOK, Code
  <1>5. CASE StartDone(kind)
    <2>1. PICK sock \in Fds, pcap \in Fds, t \in Tasks, i \in Ids :
            /\ heap[t] = None
            /\ worker[i] = None
            /\ heap' = [heap EXCEPT ![t] = [kind |-> kind, id |-> i,
                                            sock |-> sock, pcap |-> pcap]]
            /\ Insert(kind, t)
      BY <1>5 DEF StartDone, ClosedFds
    <2>2. t \notin Listed("thread") /\ Listed("thread")' = Listed("thread") \cup {t}
      <3>1. t \notin ToSet(queue["thread"])
        BY <2>1, Names DEF IndInv, ListedTasksRun, Listed
      <3>2. queue["thread"] \in Seq(Tasks) /\ Distinct(queue["thread"])
        BY Names DEF IndInv, TypeOK, QueuesAgree, NoDuplicates, Distinct
      <3>3. ToSet(Append(queue["thread"], t)) = ToSet(queue["thread"]) \cup {t}
        BY <3>1, <3>2, AppendDistinct
      <3>4. queue'["thread"] = Append(queue["thread"], t)
        BY <2>1, StartAppends
      <3> QED BY <3>1, <3>3, <3>4 DEF Listed
    <2>3. Seen = Listed("thread") /\ Seen' = Listed("thread")'
      <3>1. Seen = Listed("thread")
        BY <1>1, SeenTasks
      <3>2. \A u \in Listed("thread")' : heap'[u].kind # None
        <4>1. ASSUME NEW u \in Listed("thread")' PROVE heap'[u].kind # None
          <5>1. CASE u = t
            BY <2>1, <5>1, NoneAssumption DEF IndInv, TypeOK
          <5>2. CASE u # t
            <6>1. u \in Seen /\ heap'[u] = heap[u]
              BY <2>1, <2>2, <3>1, <5>2, SeenTasks DEF IndInv, TypeOK
            <6> QED BY <6>1, SeenTasks, NoneAssumption
          <5> QED BY <5>1, <5>2
        <4> QED BY <4>1
      <3> QED BY <1>1, <3>1, <3>2 DEF Seen
    <2>4. /\ heap'[t].kind = kind /\ heap'[t].id = i
          /\ \A u \in Seen : heap'[u] = heap[u]
      BY <2>1, <2>2, <2>3, SeenTasks DEF IndInv, TypeOK
    <2>5. TableTasks' = TableTasks \cup {[kind |-> kind, id |-> i]}
      <3>1. TableTasks' = {EntryOf(u)' : u \in Seen'}
        BY DEF TableTasks, Seen
      <3>2. EntryOf(t)' = [kind |-> kind, id |-> i] /\ \A u \in Seen : EntryOf(u)' = EntryOf(u)
        BY <2>4 DEF EntryOf
      <3>3. TableTasks = {EntryOf(u) : u \in Seen} /\ Seen' = Seen \cup {t}
        BY <2>2, <2>3 DEF TableTasks, Seen
      <3> QED BY <3>1, <3>2, <3>3
    <2>6. \A e \in TableTasks : e.id # i
      BY <2>1, SeenTasks DEF EntryOf
    <2>7. TableReply' = [rpc |-> "start", kind |-> kind, id |-> None, code |-> "OK"]
      BY <1>1, <1>5, TableAnswered DEF StartDone
    <2> QED BY <2>5, <2>6, <2>7 DEF Table!Start, Table!Added, Table!Answer
  <1> QED BY <1>3, <1>4, <1>5 DEF Start

LEMMA StopRefines ==
    ASSUME IndInv, IndInv', NEW kind \in Kinds, NEW i \in Ids, Stop(kind, i)
    PROVE  Table!Stop(kind, i)
  <1>1. loop = None /\ loop' = None
    BY DEF Stop
  <1>2. Seen = Listed("thread") /\ Seen' = Listed("thread")'
    <2>1. Seen = Listed("thread")
      BY <1>1, SeenTasks
    <2>2. \A u \in Listed("thread")' : heap'[u].kind # None
      <3>1. ASSUME NEW u \in Listed("thread")' PROVE heap'[u].kind # None
        <4>1. queue'["thread"] \in Seq(Tasks) /\ heap' \in [Tasks -> Task \cup {None}]
          BY Names DEF IndInv, TypeOK
        <4>2. u \in Tasks
          BY <4>1, ToSetElements DEF Listed
        <4>3. heap'[u] # None
          BY Names DEF IndInv, ListedTasksRun
        <4>4. heap'[u].kind \in Kinds
          BY <4>1, <4>2, <4>3 DEF Task
        <4> QED BY <4>4, NoneAssumption
      <3> QED BY <3>1
    <2> QED BY <1>1, <2>1, <2>2 DEF Seen
  <1>3. CASE StopFails(kind, i)
    <2>1. UNCHANGED <<queue, heap>> /\ (At(kind, i) = {} \/ ~CanStop(i))
      BY <1>3 DEF StopFails
    <2>2. TableTasks' = TableTasks
      BY <1>1, <2>1, TableKept DEF Seen, Listed
    <2>3. [kind |-> kind, id |-> i] \notin TableTasks
      <3> SUFFICES ASSUME NEW t \in Seen, EntryOf(t) = [kind |-> kind, id |-> i]
                   PROVE  FALSE
        BY SeenTasks
      <3>1. heap[t].kind = kind /\ heap[t].id = i
        BY DEF EntryOf
      <3>2. t \in Listed("thread") /\ t \in Listed(kind) /\ worker[i] # None
        BY <1>2, <3>1, SeenTasks, ListedTask, Names
      <3>3. queue["thread"] \in Seq(Tasks) /\ queue[kind] \in Seq(Tasks)
        BY Names DEF IndInv, TypeOK
      <3>4. At(kind, i) # {} /\ At("thread", i) # {}
        <4>1. /\ \E n \in 1..Len(queue["thread"]) : queue["thread"][n] = t
              /\ \E n \in 1..Len(queue[kind]) : queue[kind][n] = t
          BY <3>2, <3>3, ToSetElements DEF Listed
        <4> QED BY <3>1, <4>1 DEF At
      <3> QED BY <2>1, <3>2, <3>4 DEF CanStop
    <2>4. TableReply' = [rpc |-> "stop", kind |-> kind, id |-> i, code |-> "error"]
      BY <1>1, <1>3, TableAnswered DEF StopFails
    <2>5. TableTasks' = TableTasks \ {[kind |-> kind, id |-> i]}
      BY <2>2, <2>3
    <2> QED BY <2>3, <2>4, <2>5 DEF Table!Stop, Table!Removed, Table!Running, Table!Answer
  <1>4. CASE StopDone(kind, i)
    <2> DEFINE t == queue[kind][Find(kind, i)]
    <2>1. Release(t) /\ Answer("stop", kind, i, "OK") /\ At(kind, i) # {}
      BY <1>4 DEF StopDone
    <2>2. t \in Listed(kind) /\ heap[t].id = i
      BY <2>1, StopTarget
    <2> HIDE DEF t
    <2>3. /\ heap[t].kind = kind /\ Listed("thread")' = Listed("thread") \ {t}
          /\ heap' = [heap EXCEPT ![t] = None]
      BY <2>1, <2>2, Released, Names
    <2>4. t \in Listed("thread")
      BY <2>2, ListedTask, Names
    <2>5. EntryOf(t) = [kind |-> kind, id |-> i]
      BY <2>2, <2>3 DEF EntryOf
    <2>6. ASSUME NEW u \in Seen, u # t PROVE EntryOf(u) # [kind |-> kind, id |-> i]
      <3>1. heap[u].id # heap[t].id
        BY <1>2, <2>4, <2>6, IdsUnique, Names
      <3>2. EntryOf(u).id = heap[u].id
        BY DEF EntryOf
      <3> QED BY <2>2, <3>1, <3>2
    <2>7. \A u \in Seen' : u \in Seen /\ u # t /\ EntryOf(u)' = EntryOf(u)
      BY <1>2, <2>3, SeenTasks DEF EntryOf, IndInv, TypeOK
    <2>8. TableTasks' = TableTasks \ {[kind |-> kind, id |-> i]}
      <3>1. TableTasks' = {EntryOf(u)' : u \in Seen'}
        BY DEF TableTasks, Seen
      <3>2. TableTasks = {EntryOf(u) : u \in Seen} /\ Seen' = Seen \ {t}
        BY <1>2, <2>3 DEF TableTasks, Seen
      <3> QED BY <2>5, <2>6, <2>7, <3>1, <3>2
    <2>9. [kind |-> kind, id |-> i] \in TableTasks
      BY <1>2, <2>4, <2>5, SeenTasks
    <2>10. TableReply' = [rpc |-> "stop", kind |-> kind, id |-> i, code |-> "OK"]
      BY <1>1, <2>1, TableAnswered
    <2> QED BY <2>8, <2>9, <2>10 DEF Table!Stop, Table!Removed, Table!Running, Table!Answer
  <1> QED BY <1>3, <1>4 DEF Stop

LEMMA StopAllBeginsRefines ==
    ASSUME IndInv, NEW kind \in Kinds, StopAllBegins(kind)
    PROVE  Table!StopAll(kind)
  <1>1. loop = None /\ UNCHANGED <<queue, heap>> /\ kind # None
    BY NoneAssumption DEF StopAllBegins
  <1>2. Seen = Listed("thread") /\ TableTasks = {EntryOf(t) : t \in Seen}
    BY <1>1, SeenTasks
  <1>3. \A t : EntryOf(t)' = EntryOf(t) /\ EntryOf(t).kind = heap[t].kind
    BY <1>1 DEF EntryOf
  <1>4. TableTasks' = {EntryOf(t)' : t \in Seen'}
    BY DEF TableTasks, Seen
  <1>5. CASE queue[kind] = <<>>
    <2>1. loop' = None /\ Answer("stop_all", kind, None, "OK")
      BY <1>1, <1>5 DEF StopAllBegins
    <2>2. TableReply' = [rpc |-> "stop_all", kind |-> kind, id |-> None, code |-> "OK"]
      BY <2>1, TableAnswered
    <2>3. TableTasks' = TableTasks
      BY <1>1, <2>1, TableKept DEF Seen, Listed
    <2>4. \A t \in Seen : heap[t].kind # kind
      <3>1. Listed(kind) = {}
        BY <1>5 DEF Listed, ToSet
      <3> QED BY <1>2, <3>1, SeenTasks DEF IndInv, QueuesAgree, SameTasks
    <2>5. TableTasks' = {e \in TableTasks : e.kind # kind}
      BY <1>2, <1>3, <2>3, <2>4
    <2> QED BY <2>2, <2>5 DEF Table!StopAll, Table!Cleared, Table!Answer
  <1>6. CASE queue[kind] # <<>>
    <2>1. loop' = kind
      BY <1>6 DEF StopAllBegins
    <2>2. TableReply' = [rpc |-> "stop_all", kind |-> kind, id |-> None, code |-> "OK"]
      BY <1>1, <2>1 DEF TableReply
    <2>3. Seen' = {t \in Seen : heap[t].kind # kind}
      BY <1>1, <1>2, <2>1 DEF Seen, Listed
    <2>4. TableTasks' = {e \in TableTasks : e.kind # kind}
      BY <1>2, <1>3, <1>4, <2>3
    <2> QED BY <2>2, <2>4 DEF Table!StopAll, Table!Cleared, Table!Answer
  <1> QED BY <1>5, <1>6

(* To clients the iterations of stop_all are one step, taken when it began. *)
LEMMA StopAllNextStutters ==
    ASSUME IndInv, IndInv', StopAllNext
    PROVE  TableTasks' = TableTasks /\ TableReply' = TableReply
  <1>1. loop # None /\ CanStop(heap[cursor].id)
    BY CursorCanStop DEF StopAllNext
  <1>2. /\ Release(cursor)
        /\ IF Following(cursor) = None
           THEN loop' = None /\ Answer("stop_all", loop, None, "OK")
           ELSE UNCHANGED <<loop, reply>>
    BY <1>1 DEF StopAllNext
  <1>3. loop \in Kinds /\ cursor \in Listed(loop) /\ heap[cursor].kind = loop
    BY <1>1, CursorListed
  <1>4. /\ Listed("thread")' = Listed("thread") \ {cursor}
        /\ Listed(loop) \ {cursor} = (ToSet(queue'[loop]))
        /\ heap' = [heap EXCEPT ![cursor] = None]
    BY <1>2, <1>3, Released, Names DEF Listed
  <1>5. \A t \in Listed("thread")' : heap'[t] = heap[t] /\ heap[t].kind \in Kinds
    <2>1. ASSUME NEW t \in Listed("thread"), t # cursor
          PROVE  heap'[t] = heap[t] /\ heap[t].kind \in Kinds
      <3>1. t \in Tasks /\ heap[t] \in Task
        BY ListedTask, Names
      <3> QED BY <1>4, <2>1, <3>1 DEF Task, IndInv, TypeOK
    <2> QED BY <1>4, <2>1
  <1>6. CASE Following(cursor) = None
    <2>1. loop' = None /\ Answer("stop_all", loop, None, "OK") /\ queue'[loop] = <<>>
      BY <1>1, <1>2, <1>6, HeadReleased
    <2>2. TableReply' = TableReply
      BY <1>1, <2>1, TableAnswered DEF TableReply
    <2>3. Listed(loop) \ {cursor} = {}
      BY <1>4, <2>1 DEF ToSet
    <2>4. ASSUME NEW t \in Listed("thread")' PROVE heap[t].kind # loop
      <3>1. t \in Listed("thread") /\ t # cursor
        BY <1>4
      <3>2. t \in Listed(heap[t].kind)
        BY <3>1, ListedTask, Names
      <3> QED BY <2>3, <3>1, <3>2
    <2>5. Seen' = Listed("thread")'
      BY <1>5, <2>1, NoneAssumption DEF Seen
    <2>6. Seen = Listed("thread")'
      BY <1>3, <1>4, <2>4 DEF Seen
    <2> QED BY <1>5, <2>2, <2>5, <2>6, TableKept
  <1>7. CASE Following(cursor) # None
    <2>1. UNCHANGED <<loop, reply>>
      BY <1>2, <1>7
    <2>2. TableReply' = TableReply
      BY <2>1 DEF TableReply
    <2>3. Seen' = {t \in Listed("thread")' : heap[t].kind # loop}
      BY <1>5, <2>1 DEF Seen
    <2>4. Seen' = Seen
      BY <1>3, <1>4, <2>3 DEF Seen
    <2> QED BY <1>4, <1>5, <2>2, <2>3, <2>4, TableKept
  <1> QED BY <1>6, <1>7

(***************************************************************************)
(* To its clients dabbad is a table of tasks with distinct ids on which    *)
(* start, stop and stop_all (capture.c:143-319, replay.c:141-286) take     *)
(* effect at once and are answered truthfully: each handler is one step of *)
(* TaskTable, and the iterations of a stop_all handler, in which tasks are *)
(* unlinked, cancelled and freed one by one, are none.                     *)
(***************************************************************************)
THEOREM Refinement == Spec => ImplementsTable
  <1>1. Init => Table!Init
    <2> SUFFICES ASSUME Init PROVE Table!Init
      OBVIOUS
    <2>1. Listed("thread") = {}
      BY Names DEF Init, Listed, ToSet
    <2>2. TableTasks = {}
      BY <2>1 DEF TableTasks
    <2>3. TableReply = [rpc |-> "none", kind |-> "capture", id |-> None, code |-> "OK"]
      BY DEF Init, TableReply
    <2> QED BY <2>2, <2>3 DEF Table!Init
  <1>2. IndInv /\ IndInv' /\ [Next]_vars => [Table!Next]_<<TableTasks, TableReply>>
    <2> SUFFICES ASSUME IndInv, IndInv', [Next]_vars
                 PROVE  Table!Next \/ (TableTasks' = TableTasks /\ TableReply' = TableReply)
      OBVIOUS
    <2>1. ASSUME NEW kind \in Kinds, Start(kind) PROVE Table!Next
      BY <2>1, StartRefines DEF Table!Next, Table!Kinds
    <2>2. ASSUME NEW kind \in Kinds, NEW i \in Ids, Stop(kind, i) PROVE Table!Next
      BY <2>2, StopRefines DEF Table!Next, Table!Kinds
    <2>3. ASSUME NEW kind \in Kinds, StopAllBegins(kind) PROVE Table!Next
      BY <2>3, StopAllBeginsRefines DEF Table!Next, Table!Kinds
    <2>4. CASE StopAllNext
      BY <2>4, StopAllNextStutters
    <2>5. CASE UNCHANGED vars \/ \E i \in Ids : WorkerEnds(i)
      <3>1. UNCHANGED <<queue, heap, loop, reply>>
        BY <2>5 DEF vars, WorkerEnds
      <3> QED BY <3>1 DEF TableTasks, TableReply, EntryOf, Listed
    <2> QED BY <2>1, <2>2, <2>3, <2>4, <2>5 DEF Next
  <1> QED BY <1>1, <1>2, Invariance, PTL DEF Spec, ImplementsTable, Table!Spec

=============================================================================
