--------------------------- MODULE ThreadSettings ---------------------------
(***************************************************************************)
(* The scheduling policy, priority and CPU affinity of dabbad's packet     *)
(* threads: the thread commands of dabba (dabba/thread.c,                  *)
(* thread-capabilities.c) and their handlers (dabbad/thread.c), while      *)
(* other programs (chrt, taskset) change the same settings.                *)
(*                                                                         *)
(* dabbad serves one request at a time; a handler is one action for every  *)
(* kernel call that changes something.  Reading the scheduling parameters  *)
(* and then the affinity is one action: other programs change one or the   *)
(* other, so a change in between is as well made before or after both.     *)
(***************************************************************************)
EXTENDS Integers, Sequences, FiniteSets

CONSTANTS
    Threads,   \* pthread_t values
    None,      \* no request, no id, not named
    Online,    \* the CPUs of the machine
    SetSize,   \* CPU_SETSIZE
    Word,      \* the values of an unsigned int
    Short,     \* the values of an int16_t
    MaxPrio,   \* the highest real-time priority
    Requests,  \* the modify requests users send, see Request
    Masks      \* the affinities other programs set

ASSUME SizesAssumption ==
    /\ SetSize \in Nat \ {0}
    /\ Word \in Nat /\ Word >= 2 * SetSize
    /\ MaxPrio \in Nat
    /\ Short \in Nat /\ Short % 2 = 0 /\ Short > 2 * MaxPrio
    /\ Online \subseteq 0..(SetSize - 1) /\ Online # {}
    /\ \A m \in Masks : m \subseteq Online /\ m # {}

VARIABLES
    listed,   \* the threads in packet_thread_queue
    sched,    \* the scheduling parameters of each thread
    cpus,     \* its CPU affinity
    known,    \* the scheduling parameters the C library keeps of it
    pc,       \* where the handler, or the command, is
    job,      \* the modify request being served
    want,     \* sched_prio, sched_policy and run_on of its handler
    code,     \* the code replied
    rows,     \* the entries of the list a get has filled in
    before,   \* (history) the affinity the handler has read
    changed   \* (history) the settings another program has changed since
              \* dabbad has read or written them

vars == <<listed, sched, cpus, known, pc, job, want, code, rows, before, changed>>

Policies == {"fifo", "rr", "other"}
Prios == (-(Short \div 2))..((Short \div 2) - 1)
Sched == [policy : Policies, prio : Prios]
Kinds == {"sched", "cpus"}

-----------------------------------------------------------------------------
(* CPU lists.  A list is a sequence of entries separated by commas: <<a>>, *)
(* <<a, b>> for a-b, <<a, b, s>> for a-b:s, and <<>> where sscanf() finds  *)
(* no number.                                                              *)

Entry(e) == [a |-> e[1], b |-> IF Len(e) > 1 THEN e[2] ELSE e[1],
             s |-> IF Len(e) > 2 THEN e[3] ELSE 1]

Readable(e) == e # <<>> /\ Entry(e).a <= Entry(e).b

(* The values a takes in "while (a <= b) a += s", in an unsigned int. *)
Value(e, k) == (Entry(e).a + k * Entry(e).s) % Word
Loops(e, k) == \A j \in 0..k : Value(e, j) <= Entry(e).b

(* CPU_SET() ignores a CPU that is not in the set. *)
Covered(e) == {Value(e, k) : k \in {k \in 0..Word : Loops(e, k)}} \cap 0..(SetSize - 1)

(* str2cpu_affinity() stops at the first entry it cannot read. *)
ReadableTo(list) == {k \in 1..Len(list) : \A j \in 1..k : Readable(list[j])}
AllReadable(list) == ReadableTo(list) = 1..Len(list) /\ list # <<>>
Endless(list) == \E k \in ReadableTo(list) : Loops(list[k], Word)
Affinity(list) == UNION {Covered(list[k]) : k \in ReadableTo(list)}

(* The CPUs of the mask that follow CPU i without a gap. *)
Following(mask, i) == Cardinality({j \in mask : j > i /\ (i + 1)..j \subseteq mask})

(* What is written for CPU i with r CPUs behind it. *)
Entries(i, r) ==
    CASE r = 0 -> <<<<i>>>>
      [] r = 1 -> <<<<i>>, <<i + 1>>>>
      [] r > 1 -> <<<<i, i + r>>>>

(* Mutant: the second CPU of a pair is not passed over. *)
CpuListPair(mask) ==
    LET walk[at \in Nat \X Nat] ==
          LET i == at[1]
              r == at[2] + Following(mask, i)
          IN  IF i >= SetSize THEN <<>>
              ELSE IF i \notin mask THEN walk[<<i + 1, at[2]>>]
              ELSE Entries(i, r) \o walk[<<IF r = 1 THEN i + 1 ELSE i + r + 1, r>>]
    IN  walk[<<0, 0>>]

(***************************************************************************)
(* cpu_affinity2str(), from CPU i on and with run as at says.  The length  *)
(* of a group, run, is never set back, so that every group behind one of   *)
(* two or more is printed longer than it is.                               *)
(***************************************************************************)
CpuList(mask) ==
    LET walk[at \in Nat \X Nat] ==
          LET i == at[1]
              r == at[2] + Following(mask, i)
          IN  IF i >= SetSize THEN <<>>
              ELSE IF i \notin mask THEN walk[<<i + 1, at[2]>>]
              ELSE Entries(i, r) \o walk[<<i + r + 1, r>>]
    IN  walk[<<0, 0>>]

-----------------------------------------------------------------------------
(* The command line *)

(* str2sched_policy() *)
PolicyOf(name) == IF name \in Policies THEN name ELSE "other"

(* A priority is cut from 32 to 16 bits. *)
Cut(n) == ((n + Short \div 2) % Short) - (Short \div 2)

(* The options of a modify; None is an option that is not given. *)
IsRequest(r) ==
    /\ DOMAIN r = {"id", "policy", "prio", "list"}
    /\ r.prio # None => r.prio \in Int

ASSUME RequestsAssumption ==
    /\ \A r \in Requests : IsRequest(r)
    /\ None \notin Requests
    /\ None \notin Policies

TypeOK ==
    /\ listed \in SUBSET Threads
    /\ sched \in [Threads -> Sched]
    /\ cpus \in [Threads -> (SUBSET Online) \ {{}}]
    /\ known \in [Threads -> Sched \cup {None}]
    /\ pc \in {"idle", "sched", "cpus", "reply", "rows", "shown", "hung"}
    /\ job \in Requests \cup {None}
    /\ want \in [sched : Sched, cpus : SUBSET (0..(SetSize - 1))] \cup {None}
    /\ code \in {"OK", "error", "EINVAL", None}
    /\ DOMAIN rows \in SUBSET Threads
    /\ before \in SUBSET Online
    /\ changed \in SUBSET (Threads \X Kinds)

Default == [policy |-> "other", prio |-> 0]

Init ==
    /\ listed = {}
    /\ sched = [t \in Threads |-> Default]
    /\ cpus = [t \in Threads |-> Online]
    /\ known = [t \in Threads |-> None]
    /\ pc = "idle"
    /\ job = None
    /\ want = None
    /\ code = None
    /\ rows = <<>>
    /\ before = {}
    /\ changed = {}

-----------------------------------------------------------------------------
(* Threads come and go; other programs change them. *)

(* Threads that do not run have the settings a new one inherits from dabbad. *)
Forgotten(gone) ==
    /\ sched' = [t \in Threads |-> IF t \in gone THEN Default ELSE sched[t]]
    /\ cpus' = [t \in Threads |-> IF t \in gone THEN Online ELSE cpus[t]]
    /\ known' = [t \in Threads |-> IF t \in gone THEN None ELSE known[t]]
    /\ changed' = changed \ (gone \X Kinds)

ThreadStarts(t) ==
    /\ pc = "idle"
    /\ t \notin listed
    /\ listed' = listed \cup {t}
    /\ UNCHANGED <<sched, cpus, known, pc, job, want, code, rows, before, changed>>

ThreadStops(t) ==
    /\ pc = "idle"
    /\ t \in listed
    /\ listed' = listed \ {t}
    /\ Forgotten({t})
    /\ UNCHANGED <<pc, job, want, code, rows, before>>

(* chrt and taskset; a real-time policy has a priority, other has none. *)
Other(t) ==
    /\ t \in listed
    /\ \/ /\ \E s \in {Default, [policy |-> "rr", prio |-> MaxPrio]} :
               sched' = [sched EXCEPT ![t] = s]
          /\ changed' = changed \cup {<<t, "sched">>}
          /\ UNCHANGED cpus
       \/ /\ \E m \in Masks : cpus' = [cpus EXCEPT ![t] = m]
          /\ changed' = changed \cup {<<t, "cpus">>}
          /\ UNCHANGED sched
    /\ UNCHANGED <<listed, known, pc, job, want, code, rows, before>>

-----------------------------------------------------------------------------
(* dabbad_thread_modify() *)

(***************************************************************************)
(* pthread_getschedparam() asks the kernel once per thread and then        *)
(* answers with what pthread_setschedparam() was given last.               *)
(***************************************************************************)
SchedKnown(t) == IF known[t] = None THEN sched[t] ELSE known[t]

(* Reading the settings of a thread. *)
Fetch(t) ==
    /\ known' = [known EXCEPT ![t] = SchedKnown(t)]
    /\ changed' = changed \ ({<<t, "cpus">>}
                                \cup {<<u, "sched">> : u \in {t} \cap {v \in Threads : known[v] = None}})

(* Mutant: what is not named is set to its default. *)
WantedDefault(r) ==
    [sched |-> [policy |-> IF r.policy = None THEN "other" ELSE PolicyOf(r.policy),
                prio |-> IF r.prio = None THEN 0 ELSE Cut(r.prio)],
     cpus |-> IF r.list = None THEN Online ELSE Affinity(r.list)]

(* What is not named stays as it was read; a list that cannot be read is   *)
(* taken as far as it was read.                                            *)
Wanted(r) ==
    [sched |-> [policy |-> IF r.policy = None THEN SchedKnown(r.id).policy ELSE PolicyOf(r.policy),
                prio |-> IF r.prio = None THEN SchedKnown(r.id).prio ELSE Cut(r.prio)],
     cpus |-> IF r.list = None THEN cpus[r.id] ELSE Affinity(r.list)]

(* str2cpu_affinity() does not return. *)
Hangs(r) == r.list # None /\ Endless(r.list)

Replied(c) == pc' = "reply" /\ code' = c

(***************************************************************************)
(* A request without an id cannot be unpacked, and the client is told so   *)
(* by its library.  An id that is not listed is answered with 0.           *)
(***************************************************************************)
ModifyNothing(r) ==
    /\ pc = "idle"
    /\ r.id \notin listed
    /\ job' = r
    /\ Replied(IF r.id = None THEN "EINVAL" ELSE "OK")
    /\ UNCHANGED <<listed, sched, cpus, known, want, rows, before, changed>>

ModifyReads(r) ==
    /\ pc = "idle"
    /\ r.id \in listed
    /\ job' = r
    /\ Fetch(r.id)
    /\ want' = Wanted(r)
    /\ before' = cpus[r.id]
    /\ pc' = IF Hangs(r) THEN "hung" ELSE "sched"
    /\ UNCHANGED <<listed, sched, cpus, code, rows>>

(* sched_setscheduler(2), for the kernel and without a privilege *)
SchedValid(s) == s.prio \in IF s.policy = "other" THEN {0} ELSE 1..MaxPrio
SchedAllowed(s) == s.policy = "other"

(* Mutant: the affinity is set first. *)
SetSchedLast ==
    /\ pc = "sched"
    /\ LET mask == want.cpus \cap Online
       IN  cpus' = [cpus EXCEPT ![job.id] = IF mask = {} THEN @ ELSE mask]
    /\ \/ /\ SchedValid(want.sched)
          /\ sched' = [sched EXCEPT ![job.id] = want.sched]
          /\ known' = [known EXCEPT ![job.id] = want.sched]
          /\ changed' = changed \ {<<job.id, "sched">>}
          /\ pc' = "cpus"
          /\ UNCHANGED code
       \/ /\ ~SchedValid(want.sched) \/ ~SchedAllowed(want.sched)
          /\ Replied("error")
          /\ UNCHANGED <<sched, known, changed>>
    /\ UNCHANGED <<listed, job, want, rows, before>>

(* Mutant: the affinity is set whatever the scheduling parameters did. *)
SetSchedGoesOn ==
    /\ pc = "sched"
    /\ pc' = "cpus"
    /\ \/ /\ SchedValid(want.sched)
          /\ sched' = [sched EXCEPT ![job.id] = want.sched]
          /\ known' = [known EXCEPT ![job.id] = want.sched]
          /\ changed' = changed \ {<<job.id, "sched">>}
          /\ UNCHANGED code
       \/ /\ ~SchedValid(want.sched) \/ ~SchedAllowed(want.sched)
          /\ code' = "error"
          /\ UNCHANGED <<sched, known, changed>>
    /\ UNCHANGED <<listed, cpus, job, want, rows, before>>

SetSched ==
    /\ pc = "sched"
    /\ \/ /\ SchedValid(want.sched)
          /\ sched' = [sched EXCEPT ![job.id] = want.sched]
          /\ known' = [known EXCEPT ![job.id] = want.sched]
          /\ changed' = changed \ {<<job.id, "sched">>}
          /\ pc' = "cpus"
          /\ UNCHANGED code
       \/ /\ ~SchedValid(want.sched) \/ ~SchedAllowed(want.sched)
          /\ Replied("error")
          /\ UNCHANGED <<sched, known, changed>>
    /\ UNCHANGED <<listed, cpus, job, want, rows, before>>

(* Mutant: an affinity that is refused is not answered. *)
SetCpusSilent ==
    /\ pc = "cpus"
    /\ want.cpus \cap Online # {}
    /\ cpus' = [cpus EXCEPT ![job.id] = want.cpus \cap Online]
    /\ changed' = changed \ {<<job.id, "cpus">>}
    /\ Replied("OK")
    /\ UNCHANGED <<listed, sched, known, job, want, rows, before>>

(* sched_setaffinity(2) keeps the CPUs there are, and refuses to keep none. *)
SetCpus ==
    /\ pc = "cpus"
    /\ LET mask == want.cpus \cap Online
       IN  \/ /\ mask # {}
              /\ cpus' = [cpus EXCEPT ![job.id] = mask]
              /\ changed' = changed \ {<<job.id, "cpus">>}
              /\ Replied("OK")
           \/ /\ mask = {}
              /\ Replied("error")
              /\ UNCHANGED <<cpus, changed>>
    /\ UNCHANGED <<listed, sched, known, job, want, rows, before>>

-----------------------------------------------------------------------------
(* dabbad_thread_get() and dabbad_thread_capabilities_get() *)

(* Without threads, or without memory, there is no list. *)
Get ==
    /\ pc = "idle"
    /\ pc' \in IF listed = {} THEN {"shown"} ELSE {"rows", "shown"}
    /\ rows' = <<>>
    /\ UNCHANGED <<listed, sched, cpus, known, job, want, code, before, changed>>

GetRow(t) ==
    /\ pc = "rows"
    /\ t \in listed \ DOMAIN rows
    /\ Fetch(t)
    /\ rows' = [u \in DOMAIN rows \cup {t} |->
                   IF u = t THEN [sched |-> SchedKnown(t), list |-> CpuList(cpus[t])]
                            ELSE rows[u]]
    /\ pc' = IF DOMAIN rows' = listed THEN "shown" ELSE "rows"
    /\ UNCHANGED <<listed, sched, cpus, job, want, code, before>>

(* dabbad ends, and its threads with it; a call loses its reply. *)
DaemonEnds ==
    /\ listed' = {}
    /\ Forgotten(Threads)
    /\ rows' = <<>>
    /\ IF pc = "idle" THEN UNCHANGED <<pc, code>> ELSE Replied("EINVAL")
    /\ UNCHANGED <<job, want, before>>

(* The priorities of a policy do not change: the command only prints them. *)
Capabilities ==
    /\ pc = "idle"
    /\ Replied(None)
    /\ UNCHANGED <<listed, sched, cpus, known, job, want, rows, before, changed>>

(***************************************************************************)
(* Without memory for its list dabbad_thread_capabilities_get() reads      *)
(* through a null pointer when it cleans up.                               *)
(***************************************************************************)
CapabilitiesFail ==
    /\ pc = "idle"
    /\ DaemonEnds

(* The closure of the call prints, and the command ends. *)
Display ==
    /\ pc \in {"reply", "shown"}
    /\ pc' = "idle"
    /\ job' = None
    /\ want' = None
    /\ code' = None
    /\ rows' = <<>>
    /\ before' = {}
    /\ UNCHANGED <<listed, sched, cpus, known, changed>>

Next ==
    \/ \E t \in Threads :
          \/ ThreadStarts(t)
          \/ ThreadStops(t)
          \/ Other(t)
          \/ GetRow(t)
    \/ \E r \in Requests : ModifyNothing(r) \/ ModifyReads(r)
    \/ SetSched
    \/ SetCpus
    \/ Get
    \/ Capabilities
    \/ CapabilitiesFail
    \/ DaemonEnds
    \/ Display

Spec == Init /\ [][Next]_vars

(* A handler and a closure run to their end once they have begun. *)
FairSpec ==
    /\ Spec
    /\ WF_vars(SetSched)
    /\ WF_vars(SetCpus)
    /\ WF_vars(\E t \in Threads : GetRow(t))
    /\ WF_vars(Display)

-----------------------------------------------------------------------------
(* Properties *)

Foreign(t, what) == <<t, what>> \in changed

(***************************************************************************)
(* A modify changes only the thread it names, and of it only the settings  *)
(* it names, although the handler reads and writes all of them: unless     *)
(* another program has changed a setting behind the daemon's back, in      *)
(* which case the handler may undo that.                                   *)
(***************************************************************************)
OnlyNamed ==
    [][\A t \in listed \cap listed' :
          /\ ~Foreign(t, "sched") /\ ~Foreign(t, "sched")' =>
                \A f \in {"policy", "prio"} :
                    sched'[t][f] # sched[t][f] => job # None /\ job.id = t /\ job[f] # None
          /\ ~Foreign(t, "cpus") /\ ~Foreign(t, "cpus")' =>
                (cpus'[t] # cpus[t] => job # None /\ job.id = t /\ job.list # None)]_vars

(***************************************************************************)
(* A modify of a listed thread that answers 0 has set all that it names,   *)
(* if its list could be read and its numbers fit: it fails otherwise, or   *)
(* another program has been faster.                                        *)
(***************************************************************************)
ZeroMeansSet ==
    pc = "reply" /\ job # None /\ code = "OK" /\ job.id \in listed =>
        /\ ~Foreign(job.id, "sched") =>
              /\ job.policy \in Policies => sched[job.id].policy = job.policy
              /\ job.prio # None /\ job.prio = Cut(job.prio) => sched[job.id].prio = job.prio
        /\ ~Foreign(job.id, "cpus") =>
              (job.list # None /\ AllReadable(job.list) =>
                  cpus[job.id] = Affinity(job.list) \cap Online)

(***************************************************************************)
(* "If a modification fails no further modifications are applied": after   *)
(* an error the affinity, which comes last, is the one the handler found.  *)
(***************************************************************************)
FailureKeepsAffinity ==
    pc = "reply" /\ job # None /\ code = "error" /\ job.id \in listed
        /\ ~Foreign(job.id, "cpus") => cpus[job.id] = before

(***************************************************************************)
(* What modify answers is true of the thread, whether it is 0 or an error. *)
(***************************************************************************)
AnswersHonest == ZeroMeansSet /\ FailureKeepsAffinity

(***************************************************************************)
(* A get shows the settings threads have, unless another program has       *)
(* changed them since.  A shown CPU list covers the affinity, and is the   *)
(* affinity if given back to modify, when no CPU comes behind its first    *)
(* group of two or more.                                                   *)
(***************************************************************************)
Grouped(mask) == {i \in mask : Following(mask, i) > 0}
NothingBehind(mask) ==
    \A i \in Grouped(mask), j \in mask : j > i => i..j \subseteq mask
ReadsBack(mask) ==
    /\ mask \subseteq Affinity(CpuList(mask))
    /\ NothingBehind(mask) => Affinity(CpuList(mask)) = mask
ShownTrue ==
    \A t \in DOMAIN rows :
        /\ ~Foreign(t, "sched") => rows[t].sched = sched[t]
        /\ ~Foreign(t, "cpus") =>
              /\ cpus[t] \subseteq Affinity(rows[t].list)
              /\ NothingBehind(cpus[t]) => Affinity(rows[t].list) = cpus[t]

(***************************************************************************)
(* Every modify is answered, whatever its CPU list, if no stride in it is  *)
(* 0 and no range ends within a stride of the largest unsigned int.        *)
(***************************************************************************)
Moderate(e) ==
    /\ Len(e) = 3 => e[3] > 0
    /\ \A k \in 1..Len(e) \cap {1, 2} : e[k] + (IF Len(e) = 3 THEN e[3] ELSE 1) < Word
ModerateList(list) == \A k \in 1..Len(list) : Moderate(list[k])
ModifyEnds ==
    job # None /\ (job.list # None => ModerateList(job.list)) ~> job = None
=============================================================================
