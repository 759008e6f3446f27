------------------------ MODULE ThreadSettingsProofs ------------------------
(***************************************************************************)
(* What a modify answers is true of its thread and it changes nothing else,*)
(* and what a get shows is true and reads back, for any number of threads, *)
(* requests and CPUs, while other programs change the same settings        *)
(* between any two calls of the handler.                                   *)
(***************************************************************************)
EXTENDS ThreadSettings, FiniteSetTheorems, SequenceTheorems, WellFoundedInduction, TLAPS

-----------------------------------------------------------------------------
(* The invariant *)

(* What the C library keeps is what the kernel has, unless another program *)
(* has changed it: only then may a get or a modify use old parameters.     *)
Fresh(t) == known[t] # None /\ ~Foreign(t, "sched") => known[t] = sched[t]
LibraryFresh == \A t \in Threads : Fresh(t)

Serving == pc \in {"sched", "cpus"}

(* There is a request from its first step to its reply, and its handler    *)
(* holds whole settings.                                                   *)
Settings == [sched : Sched, cpus : SUBSET (0..(SetSize - 1))]
JobKnown ==
    /\ job # None => job \in Requests
    /\ pc \in {"idle", "rows", "shown"} => job = None
    /\ Serving => job # None /\ job.id \in listed /\ want \in Settings

(* What the handler is about to write: the settings the request names as   *)
(* it names them, and the others as they are unless they are foreign.      *)
WantsNamed ==
    /\ job.policy # None => want.sched.policy = PolicyOf(job.policy)
    /\ job.prio # None => want.sched.prio = Cut(job.prio)
    /\ job.list # None => want.cpus = Affinity(job.list)
KeepsSched ==
    ~Foreign(job.id, "sched") =>
        /\ job.policy = None => want.sched.policy = sched[job.id].policy
        /\ job.prio = None => want.sched.prio = sched[job.id].prio
KeepsCpus ==
    ~Foreign(job.id, "cpus") =>
        /\ job.list = None => want.cpus = cpus[job.id]
        /\ cpus[job.id] = before

HandlerInv ==
    /\ Serving => WantsNamed /\ KeepsCpus
    /\ pc = "sched" => KeepsSched
    /\ pc = "cpus" /\ ~Foreign(job.id, "sched") => sched[job.id] = want.sched

IndInv == TypeOK /\ LibraryFresh /\ JobKnown /\ HandlerInv /\ AnswersHonest

-----------------------------------------------------------------------------
(* Types *)

(* A priority that was cut to 16 bits fits. *)
LEMMA CutType ==
    ASSUME NEW n \in Int
    PROVE  Cut(n) \in Prios
  <1>1. Short \in Nat /\ Short % 2 = 0 /\ Short > 0
    BY SizesAssumption
  <1>2. Short \div 2 \in Nat /\ Short = 2 * (Short \div 2)
    BY <1>1
  <1>3. \A m \in Int : m % Short \in 0..(Short - 1)
    BY <1>1
  <1>4. (n + (Short \div 2)) % Short \in 0..(Short - 1)
    BY <1>2, <1>3
  <1> DEFINE h == Short \div 2
             c == (n + h) % Short
  <1>5. Cut(n) = c - h /\ Prios = (-h)..(h - 1)
    BY DEF Cut, Prios
  <1>6. h \in Nat /\ Short = 2 * h /\ c \in 0..(Short - 1)
    BY <1>2, <1>4
  <1> HIDE DEF h, c
  <1> QED BY <1>5, <1>6

LEMMA SchedTypes ==
    /\ Default \in Sched
    /\ [policy |-> "rr", prio |-> MaxPrio] \in Sched
  <1>1. 0 \in Prios /\ MaxPrio \in Prios
    BY SizesAssumption DEF Prios
  <1> QED BY <1>1 DEF Default, Sched, Policies

(* What the handler is about to write is a setting. *)
LEMMA WantedType ==
    ASSUME TypeOK, NEW r \in Requests, r.id \in Threads
    PROVE  /\ SchedKnown(r.id) \in Sched
           /\ Wanted(r) \in Settings
  <1>1. SchedKnown(r.id) \in Sched
    BY DEF TypeOK, SchedKnown
  <1>2. SchedKnown(r.id).policy \in Policies /\ SchedKnown(r.id).prio \in Prios
    BY <1>1 DEF Sched
  <1>3. Wanted(r).sched.policy \in Policies
    BY <1>2 DEF Wanted, PolicyOf, Policies
  <1>4. Wanted(r).sched.prio \in Prios
    <2>1. r.prio # None => Cut(r.prio) \in Prios
      BY RequestsAssumption, CutType DEF IsRequest
    <2> QED BY <1>2, <2>1 DEF Wanted
  <1>5. Wanted(r).cpus \in SUBSET (0..(SetSize - 1))
    <2>1. cpus[r.id] \subseteq 0..(SetSize - 1)
      BY SizesAssumption DEF TypeOK
    <2>2. ASSUME NEW list PROVE Affinity(list) \subseteq 0..(SetSize - 1)
      BY DEF Affinity, Covered
    <2> QED BY <2>1, <2>2 DEF Wanted
  <1> QED BY <1>1, <1>3, <1>4, <1>5 DEF Wanted, Sched, Settings

(* Threads that are gone have the settings of new ones. *)
LEMMA ForgottenType ==
    ASSUME TypeOK, NEW gone, Forgotten(gone)
    PROVE  /\ sched' \in [Threads -> Sched]
           /\ cpus' \in [Threads -> (SUBSET Online) \ {{}}]
           /\ known' \in [Threads -> Sched \cup {None}]
           /\ changed' \in SUBSET (Threads \X Kinds)
  <1>1. sched' \in [Threads -> Sched]
    BY SchedTypes DEF TypeOK, Forgotten
  <1>2. cpus' \in [Threads -> (SUBSET Online) \ {{}}]
    <2>1. Online \in (SUBSET Online) \ {{}}
      BY SizesAssumption
    <2>2. \A t \in Threads : cpus[t] \in (SUBSET Online) \ {{}}
      BY DEF TypeOK
    <2> QED BY <2>1, <2>2 DEF Forgotten
  <1>3. known' \in [Threads -> Sched \cup {None}]
    BY DEF TypeOK, Forgotten
  <1>4. changed' \in SUBSET (Threads \X Kinds)
    BY DEF TypeOK, Forgotten
  <1> QED BY <1>1, <1>2, <1>3, <1>4

LEMMA FetchType ==
    ASSUME TypeOK, NEW t \in Threads, Fetch(t)
    PROVE  /\ known' \in [Threads -> Sched \cup {None}]
           /\ changed' \in SUBSET (Threads \X Kinds)
  BY DEF TypeOK, Fetch, SchedKnown

LEMMA DaemonEndsType ==
    ASSUME TypeOK, DaemonEnds
    PROVE  TypeOK'
  <1>1. DOMAIN rows' = {}
    BY DEF DaemonEnds
  <1>2. pc' \in {"idle", "sched", "cpus", "reply", "rows", "shown", "hung"}
        /\ code' \in {"OK", "error", "EINVAL", None}
    BY DEF TypeOK, DaemonEnds, Replied
  <1> QED BY <1>1, <1>2, ForgottenType DEF TypeOK, DaemonEnds

LEMMA TypeKept ==
    ASSUME TypeOK, JobKnown, Next
    PROVE  TypeOK'
  <1>1. ASSUME NEW t \in Threads, ThreadStarts(t) PROVE TypeOK'
    BY <1>1 DEF TypeOK, ThreadStarts
  <1>2. ASSUME NEW t \in Threads, ThreadStops(t) PROVE TypeOK'
    BY <1>2, ForgottenType DEF TypeOK, ThreadStops
  <1>3. ASSUME NEW t \in Threads, Other(t) PROVE TypeOK'
    <2>1. CASE UNCHANGED cpus
      BY <1>3, <2>1, SchedTypes DEF TypeOK, Other, Kinds
    <2>2. CASE UNCHANGED sched
      <3>1. cpus' \in [Threads -> (SUBSET Online) \ {{}}]
        <4>1. CASE UNCHANGED cpus
          BY <4>1 DEF TypeOK
        <4>2. ASSUME NEW m \in Masks, cpus' = [cpus EXCEPT ![t] = m]
              PROVE  cpus' \in [Threads -> (SUBSET Online) \ {{}}]
          <5>1. m \in (SUBSET Online) \ {{}}
            BY SizesAssumption
          <5> QED BY <4>2, <5>1 DEF TypeOK
        <4> QED BY <1>3, <4>1, <4>2 DEF Other
      <3>2. changed' \in SUBSET (Threads \X Kinds)
        BY <1>3 DEF TypeOK, Other, Kinds
      <3> QED BY <1>3, <2>2, <3>1, <3>2 DEF TypeOK, Other
    <2> QED BY <1>3, <2>1, <2>2 DEF Other
  <1>4. ASSUME NEW t \in Threads, GetRow(t) PROVE TypeOK'
    <2>1. DOMAIN rows' \in SUBSET Threads
      BY <1>4 DEF TypeOK, GetRow
    <2> QED BY <1>4, <2>1, FetchType DEF TypeOK, GetRow
  <1>5. ASSUME NEW r \in Requests, ModifyNothing(r) PROVE TypeOK'
    BY <1>5 DEF TypeOK, ModifyNothing, Replied
  <1>6. ASSUME NEW r \in Requests, ModifyReads(r) PROVE TypeOK'
    <2>1. r.id \in Threads
      BY <1>6 DEF TypeOK, ModifyReads
    <2>2. cpus[r.id] \subseteq Online
      BY <2>1 DEF TypeOK
    <2> QED BY <1>6, <2>1, <2>2, FetchType, WantedType DEF TypeOK, ModifyReads, Settings
  <1>7. CASE SetSched
    <2>1. job.id \in Threads
      BY <1>7 DEF TypeOK, JobKnown, Serving, SetSched
    <2>2. CASE UNCHANGED sched
      BY <1>7, <2>2 DEF TypeOK, SetSched, Replied
    <2>3. want.sched \in Sched
      BY <1>7 DEF SetSched, JobKnown, Serving, Settings
    <2> QED BY <1>7, <2>1, <2>2, <2>3 DEF TypeOK, SetSched, Replied
  <1>8. CASE SetCpus
    <2>1. job.id \in Threads
      BY <1>8 DEF TypeOK, JobKnown, Serving, SetCpus
    <2>2. cpus' \in [Threads -> (SUBSET Online) \ {{}}]
      <3>1. CASE UNCHANGED cpus
        BY <3>1 DEF TypeOK
      <3>2. CASE /\ want.cpus \cap Online # {}
                 /\ cpus' = [cpus EXCEPT ![job.id] = want.cpus \cap Online]
        <4>1. want.cpus \cap Online \in (SUBSET Online) \ {{}}
          BY <3>2
        <4> QED BY <2>1, <3>2, <4>1 DEF TypeOK
      <3> QED BY <1>8, <3>1, <3>2 DEF SetCpus
    <2> QED BY <1>8, <2>1, <2>2 DEF TypeOK, SetCpus, Replied
  <1>9. CASE Get
    <2>1. DOMAIN rows' = {}
      BY <1>9 DEF Get
    <2> QED BY <1>9, <2>1 DEF TypeOK, Get
  <1>10. CASE Capabilities
    BY <1>10 DEF TypeOK, Capabilities, Replied
  <1>11. CASE DaemonEnds
    BY <1>11, DaemonEndsType
  <1>12. CASE Display
    <2>1. DOMAIN rows' = {}
      BY <1>12 DEF Display
    <2> QED BY <1>12, <2>1 DEF TypeOK, Display
  <1> QED BY <1>1, <1>2, <1>3, <1>4, <1>5, <1>6, <1>7, <1>8, <1>9, <1>10,
             <1>11, <1>12 DEF Next, CapabilitiesFail

-----------------------------------------------------------------------------
(* What the C library keeps *)

(* A thread whose settings are not touched stays as fresh as it was. *)
LEMMA FreshStays ==
    ASSUME NEW t, Fresh(t), known'[t] = known[t], sched'[t] = sched[t],
           Foreign(t, "sched") => Foreign(t, "sched")'
    PROVE  Fresh(t)'
  BY DEF Fresh

(* A setting is forgotten with its thread, and only then. *)
LEMMA ForgottenForeign ==
    ASSUME NEW gone, Forgotten(gone), NEW t \in Threads, NEW what
    PROVE  /\ t \in gone => known'[t] = None
           /\ t \notin gone => /\ Foreign(t, what)' <=> Foreign(t, what)
                              /\ known'[t] = known[t]
                              /\ sched'[t] = sched[t]
                              /\ cpus'[t] = cpus[t]
  BY DEF Forgotten, Foreign

LEMMA ForgottenFresh ==
    ASSUME LibraryFresh, NEW gone, Forgotten(gone)
    PROVE  LibraryFresh'
  <1> SUFFICES ASSUME NEW t \in Threads PROVE Fresh(t)'
    BY DEF LibraryFresh
  <1>1. CASE t \in gone
    BY <1>1, ForgottenForeign DEF Fresh
  <1>2. CASE t \notin gone
    BY <1>2, ForgottenForeign, FreshStays DEF LibraryFresh
  <1> QED BY <1>1, <1>2

(* Reading a thread for the first time takes its parameters as they are;   *)
(* later the library answers, and a foreign change stays one.              *)
LEMMA FetchForeign ==
    ASSUME TypeOK, NEW t \in Threads, Fetch(t), NEW u \in Threads
    PROVE  /\ known'[u] = IF u = t THEN SchedKnown(t) ELSE known[u]
           /\ Foreign(u, "sched")' <=>
                 Foreign(u, "sched") /\ ~(u = t /\ known[t] = None)
           /\ Foreign(u, "cpus")' <=> Foreign(u, "cpus") /\ u # t
  <1>1. known'[u] = IF u = t THEN SchedKnown(t) ELSE known[u]
    BY DEF TypeOK, Fetch
  <1>2. <<u, "sched">> \in changed' <=>
           <<u, "sched">> \in changed /\ ~(u = t /\ known[t] = None)
    BY DEF Fetch
  <1>3. <<u, "cpus">> \in changed' <=> <<u, "cpus">> \in changed /\ u # t
    BY DEF Fetch
  <1> QED BY <1>1, <1>2, <1>3 DEF Foreign

LEMMA FetchFresh ==
    ASSUME TypeOK, LibraryFresh, NEW t \in Threads, Fetch(t), UNCHANGED sched
    PROVE  LibraryFresh'
  <1> SUFFICES ASSUME NEW u \in Threads PROVE Fresh(u)'
    BY DEF LibraryFresh
  <1>1. Fresh(u)
    BY DEF LibraryFresh
  <1>2. CASE u = t /\ known[t] = None
    BY <1>2, FetchForeign DEF Fresh, SchedKnown
  <1>3. CASE ~(u = t /\ known[t] = None)
    <2>1. known'[u] = known[u] /\ (Foreign(u, "sched") => Foreign(u, "sched")')
      BY <1>3, FetchForeign DEF SchedKnown
    <2> QED BY <1>1, <2>1, FreshStays
  <1> QED BY <1>2, <1>3

LEMMA FreshKept ==
    ASSUME IndInv, Next
    PROVE  LibraryFresh'
  <1>1. TypeOK /\ LibraryFresh /\ JobKnown
    BY DEF IndInv
  <1>2. ASSUME UNCHANGED <<sched, known, changed>> PROVE LibraryFresh'
    BY <1>1, <1>2 DEF LibraryFresh, Fresh, Foreign
  <1>3. ASSUME NEW t \in Threads, ThreadStarts(t) PROVE LibraryFresh'
    BY <1>2, <1>3 DEF ThreadStarts
  <1>4. ASSUME NEW t \in Threads, ThreadStops(t) PROVE LibraryFresh'
    BY <1>1, <1>4, ForgottenFresh DEF ThreadStops
  <1>5. ASSUME NEW t \in Threads, Other(t) PROVE LibraryFresh'
    <2> SUFFICES ASSUME NEW u \in Threads PROVE Fresh(u)'
      BY DEF LibraryFresh
    <2>1. known'[u] = known[u] /\ Fresh(u)
      BY <1>1, <1>5 DEF Other, LibraryFresh
    <2>2. changed \subseteq changed'
      BY <1>5 DEF Other
    <2>3. sched'[u] = sched[u] \/ <<u, "sched">> \in changed'
      BY <1>1, <1>5 DEF Other, TypeOK
    <2> QED BY <2>1, <2>2, <2>3 DEF Fresh, Foreign
  <1>6. ASSUME NEW t \in Threads, GetRow(t) PROVE LibraryFresh'
    BY <1>1, <1>6, FetchFresh DEF GetRow
  <1>7. ASSUME NEW r \in Requests, ModifyNothing(r) PROVE LibraryFresh'
    BY <1>2, <1>7 DEF ModifyNothing
  <1>8. ASSUME NEW r \in Requests, ModifyReads(r) PROVE LibraryFresh'
    BY <1>1, <1>8, FetchFresh DEF ModifyReads, TypeOK
  <1>9. CASE SetSched
    <2>1. CASE UNCHANGED <<sched, known, changed>>
      BY <1>2, <2>1
    <2>2. CASE /\ sched' = [sched EXCEPT ![job.id] = want.sched]
               /\ known' = [known EXCEPT ![job.id] = want.sched]
               /\ changed' = changed \ {<<job.id, "sched">>}
      <3> SUFFICES ASSUME NEW u \in Threads PROVE Fresh(u)'
        BY DEF LibraryFresh
      <3>1. CASE u = job.id
        BY <1>1, <2>2, <3>1 DEF TypeOK, Fresh
      <3>2. CASE u # job.id
        <4>1. known'[u] = known[u] /\ sched'[u] = sched[u] /\ Fresh(u)
          BY <1>1, <2>2, <3>2 DEF TypeOK, LibraryFresh
        <4>2. <<u, "sched">> \in changed => <<u, "sched">> \in changed'
          BY <2>2, <3>2
        <4> QED BY <4>1, <4>2, FreshStays DEF Foreign
      <3> QED BY <3>1, <3>2
    <2> QED BY <1>9, <2>1, <2>2 DEF SetSched
  <1>10. CASE SetCpus
    <2> SUFFICES ASSUME NEW u \in Threads PROVE Fresh(u)'
      BY DEF LibraryFresh
    <2>1. known'[u] = known[u] /\ sched'[u] = sched[u] /\ Fresh(u)
      BY <1>1, <1>10 DEF SetCpus, LibraryFresh
    <2>2. <<u, "sched">> \in changed => <<u, "sched">> \in changed'
      BY <1>10 DEF SetCpus
    <2> QED BY <2>1, <2>2, FreshStays DEF Foreign
  <1>11. CASE Get
    BY <1>2, <1>11 DEF Get
  <1>12. CASE Capabilities
    BY <1>2, <1>12 DEF Capabilities
  <1>13. CASE DaemonEnds
    BY <1>1, <1>13, ForgottenFresh DEF DaemonEnds
  <1>14. CASE Display
    BY <1>2, <1>14 DEF Display
  <1> QED BY <1>3, <1>4, <1>5, <1>6, <1>7, <1>8, <1>9, <1>10, <1>11, <1>12,
             <1>13, <1>14 DEF Next, CapabilitiesFail

(* A request is served to its reply while its thread is listed. *)
LEMMA JobKept ==
    ASSUME IndInv, Next
    PROVE  JobKnown'
  <1>1. TypeOK /\ JobKnown
    BY DEF IndInv
  <1>2. ASSUME NEW t \in Threads, ThreadStarts(t) \/ ThreadStops(t) \/ Other(t) \/ GetRow(t)
        PROVE JobKnown'
    BY <1>1, <1>2 DEF JobKnown, Serving, ThreadStarts, ThreadStops, Other, GetRow
  <1>3. ASSUME NEW r \in Requests, ModifyNothing(r) PROVE JobKnown'
    BY <1>1, <1>3 DEF JobKnown, Serving, ModifyNothing, Replied
  <1>4. ASSUME NEW r \in Requests, ModifyReads(r) PROVE JobKnown'
    <2>1. r.id \in Threads /\ r # None
      BY <1>1, <1>4, RequestsAssumption DEF TypeOK, ModifyReads
    <2> QED BY <1>1, <1>4, <2>1, WantedType DEF JobKnown, Serving, ModifyReads
  <1>5. CASE SetSched
    BY <1>1, <1>5 DEF JobKnown, Serving, SetSched, Replied
  <1>6. CASE SetCpus
    BY <1>1, <1>6 DEF JobKnown, Serving, SetCpus, Replied
  <1>7. CASE Get
    BY <1>1, <1>7 DEF JobKnown, Serving, Get
  <1>8. CASE Capabilities
    BY <1>1, <1>8 DEF JobKnown, Serving, Capabilities, Replied
  <1>9. CASE DaemonEnds
    BY <1>1, <1>9 DEF JobKnown, Serving, DaemonEnds, Replied
  <1>10. CASE Display
    BY <1>1, <1>10 DEF JobKnown, Serving, Display
  <1> QED BY <1>2, <1>3, <1>4, <1>5, <1>6, <1>7, <1>8, <1>9, <1>10
          DEF Next, CapabilitiesFail

-----------------------------------------------------------------------------
(* The handler and its answer *)

(* Another program changes a setting or marks it as foreign, never neither. *)
LEMMA OtherMarks ==
    ASSUME TypeOK, NEW t \in Threads, Other(t), NEW u \in Threads
    PROVE  /\ ~Foreign(u, "sched")' => ~Foreign(u, "sched") /\ sched'[u] = sched[u]
           /\ ~Foreign(u, "cpus")' => ~Foreign(u, "cpus") /\ cpus'[u] = cpus[u]
  <1>1. changed \subseteq changed'
    BY DEF Other
  <1>2. sched'[u] = sched[u] \/ <<u, "sched">> \in changed'
    BY DEF Other, TypeOK
  <1>3. cpus'[u] = cpus[u] \/ <<u, "cpus">> \in changed'
    BY DEF Other, TypeOK
  <1> QED BY <1>1, <1>2, <1>3 DEF Foreign

(* What is read is what is written back. *)
LEMMA ReadsKeep ==
    ASSUME TypeOK, LibraryFresh, NEW r \in Requests, ModifyReads(r)
    PROVE  WantsNamed' /\ KeepsCpus' /\ KeepsSched'
  <1>1. r.id \in Threads /\ job' = r /\ want' = Wanted(r) /\ before' = cpus[r.id]
    BY DEF TypeOK, ModifyReads
  <1>2. UNCHANGED <<sched, cpus>> /\ Fetch(r.id)
    BY DEF ModifyReads
  <1>3. WantsNamed'
    BY <1>1 DEF WantsNamed, Wanted
  <1>4. KeepsCpus'
    BY <1>1, <1>2 DEF KeepsCpus, Wanted
  <1>5. ~Foreign(r.id, "sched")' => SchedKnown(r.id) = sched[r.id]
    <2>1. CASE known[r.id] = None
      BY <2>1 DEF SchedKnown
    <2>2. CASE known[r.id] # None
      BY <1>1, <1>2, <2>2, FetchForeign DEF LibraryFresh, Fresh, SchedKnown
    <2> QED BY <2>1, <2>2
  <1>6. /\ r.policy = None => want'.sched.policy = SchedKnown(r.id).policy
        /\ r.prio = None => want'.sched.prio = SchedKnown(r.id).prio
    BY <1>1 DEF Wanted
  <1>7. KeepsSched'
    BY <1>1, <1>2, <1>5, <1>6 DEF KeepsSched
  <1> QED BY <1>3, <1>4, <1>7

LEMMA HandlerKept ==
    ASSUME IndInv, Next
    PROVE  HandlerInv'
  <1>1. TypeOK /\ JobKnown /\ HandlerInv /\ LibraryFresh
    BY DEF IndInv
  <1>2. ASSUME ~Serving' PROVE HandlerInv'
    BY <1>2 DEF HandlerInv, Serving
  <1>3. ASSUME NEW t \in Threads, Other(t) PROVE HandlerInv'
    <2> SUFFICES ASSUME Serving' PROVE HandlerInv'
      BY <1>2
    <2>1. UNCHANGED <<pc, job, want, before>>
      BY <1>3 DEF Other
    <2>2. job.id \in Threads /\ Serving
      BY <1>1, <2>1 DEF Serving, JobKnown, TypeOK
    <2>3. /\ ~Foreign(job.id, "sched")' =>
                ~Foreign(job.id, "sched") /\ sched'[job.id] = sched[job.id]
          /\ ~Foreign(job.id, "cpus")' =>
                ~Foreign(job.id, "cpus") /\ cpus'[job.id] = cpus[job.id]
      <3>1. PICK u \in Threads : u = job.id
        BY <2>2
      <3>2. u = job'.id
        BY <2>1, <3>1
      <3> QED BY <1>1, <1>3, <3>1, <3>2, OtherMarks DEF Foreign
    <2>4. WantsNamed'
      BY <1>1, <2>1, <2>2 DEF HandlerInv, WantsNamed
    <2>5. KeepsCpus'
      BY <1>1, <2>1, <2>2, <2>3 DEF HandlerInv, KeepsCpus
    <2>6. pc = "sched" => KeepsSched'
      BY <1>1, <2>1, <2>3 DEF HandlerInv, KeepsSched
    <2>7. pc = "cpus" /\ ~Foreign(job.id, "sched")' => sched'[job.id] = want.sched
      BY <1>1, <2>3 DEF HandlerInv
    <2> QED BY <2>1, <2>4, <2>5, <2>6, <2>7 DEF HandlerInv
  <1>4. ASSUME NEW r \in Requests, ModifyReads(r) PROVE HandlerInv'
    <2>1. pc' # "cpus"
      BY <1>4 DEF ModifyReads
    <2> QED BY <1>1, <1>4, <2>1, ReadsKeep DEF HandlerInv
  <1>5. CASE SetSched
    <2> SUFFICES ASSUME Serving' PROVE HandlerInv'
      BY <1>2
    <2>1. /\ sched' = [sched EXCEPT ![job.id] = want.sched]
          /\ changed' = changed \ {<<job.id, "sched">>}
          /\ pc = "sched"
          /\ pc' = "cpus"
          /\ UNCHANGED <<cpus, job, want, before>>
      BY <1>5 DEF SetSched, Serving, Replied
    <2>2. job.id \in Threads
      BY <1>1, <2>1 DEF Serving, JobKnown, TypeOK
    <2>3. sched'[job.id] = want.sched
      BY <1>1, <2>1, <2>2 DEF TypeOK
    <2>4. WantsNamed'
      BY <1>1, <2>1 DEF HandlerInv, WantsNamed, Serving
    <2>5. <<job.id, "cpus">> \in changed => <<job.id, "cpus">> \in changed'
      BY <2>1
    <2>6. KeepsCpus'
      BY <1>1, <2>1, <2>5 DEF HandlerInv, KeepsCpus, Serving, Foreign
    <2> QED BY <2>1, <2>3, <2>4, <2>6 DEF HandlerInv
  <1>6. CASE SetCpus
    <2>1. ~Serving'
      BY <1>6 DEF SetCpus, Serving, Replied
    <2> QED BY <1>2, <2>1
  <1>7. ASSUME NEW t \in Threads, ThreadStarts(t) \/ ThreadStops(t) \/ GetRow(t)
        PROVE  HandlerInv'
    BY <1>2, <1>7 DEF ThreadStarts, ThreadStops, GetRow, Serving
  <1>8. ASSUME NEW r \in Requests, ModifyNothing(r) PROVE HandlerInv'
    BY <1>2, <1>8 DEF ModifyNothing, Replied, Serving
  <1>9. CASE Get \/ Capabilities \/ DaemonEnds \/ Display
    BY <1>2, <1>9 DEF Get, Capabilities, DaemonEnds, Display, Replied, Serving
  <1> QED BY <1>3, <1>4, <1>5, <1>6, <1>7, <1>8, <1>9 DEF Next, CapabilitiesFail

(* The affinity comes last: with it all that the request names is set. *)
LEMMA SetCpusHonest ==
    ASSUME IndInv, SetCpus
    PROVE  AnswersHonest'
  <1>1. TypeOK /\ JobKnown /\ HandlerInv
    BY DEF IndInv
  <1>2. pc = "cpus" /\ UNCHANGED <<sched, job, want, before>>
    BY DEF SetCpus
  <1>3. job.id \in Threads /\ WantsNamed /\ KeepsCpus
    BY <1>1, <1>2 DEF JobKnown, HandlerInv, Serving, TypeOK
  <1>4. ASSUME code' = "OK" PROVE cpus'[job.id] = want.cpus \cap Online
    BY <1>1, <1>3, <1>4 DEF SetCpus, Replied, TypeOK
  <1>5. ASSUME code' = "error" PROVE UNCHANGED <<cpus, changed>>
    BY <1>5 DEF SetCpus, Replied
  <1>6. <<job.id, "sched">> \in changed => <<job.id, "sched">> \in changed'
    BY DEF SetCpus
  <1>7. ~Foreign(job.id, "sched")' => sched'[job.id] = want.sched
    BY <1>1, <1>2, <1>6 DEF HandlerInv, Foreign
  <1>8. ZeroMeansSet'
    <2> SUFFICES ASSUME code' = "OK"
                 PROVE  /\ ~Foreign(job.id, "sched")' =>
                              /\ job.policy \in Policies => sched'[job.id].policy = job.policy
                              /\ job.prio # None /\ job.prio = Cut(job.prio)
                                    => sched'[job.id].prio = job.prio
                        /\ job.list # None /\ AllReadable(job.list) =>
                              cpus'[job.id] = Affinity(job.list) \cap Online
      BY <1>2 DEF ZeroMeansSet
    <2>1. job.policy \in Policies => want.sched.policy = job.policy
      BY <1>3, RequestsAssumption DEF WantsNamed, PolicyOf
    <2>2. job.prio # None /\ job.prio = Cut(job.prio) => want.sched.prio = job.prio
      BY <1>3 DEF WantsNamed
    <2>3. job.list # None => want.cpus = Affinity(job.list)
      BY <1>3 DEF WantsNamed
    <2> QED BY <1>4, <1>7, <2>1, <2>2, <2>3
  <1>9. FailureKeepsAffinity'
    BY <1>2, <1>3, <1>5 DEF FailureKeepsAffinity, KeepsCpus, Foreign
  <1> QED BY <1>8, <1>9 DEF AnswersHonest

(* A reply that has been made stays true. *)
LEMMA HonestKept ==
    ASSUME IndInv, Next
    PROVE  AnswersHonest'
  <1>1. TypeOK /\ JobKnown /\ HandlerInv /\ AnswersHonest
    BY DEF IndInv
  <1>2. ASSUME ~(pc' = "reply" /\ job' # None /\ job'.id \in listed') PROVE AnswersHonest'
    BY <1>2 DEF AnswersHonest, ZeroMeansSet, FailureKeepsAffinity
  <1>3. ASSUME NEW t \in Threads, Other(t) PROVE AnswersHonest'
    <2> SUFFICES ASSUME pc' = "reply", job' # None, job'.id \in listed'
                 PROVE  AnswersHonest'
      BY <1>2
    <2>1. UNCHANGED <<listed, pc, job, code, before>>
      BY <1>3 DEF Other
    <2>2. job.id \in Threads
      BY <1>1, <2>1 DEF TypeOK
    <2>3. /\ ~Foreign(job.id, "sched")' =>
                ~Foreign(job.id, "sched") /\ sched'[job.id] = sched[job.id]
          /\ ~Foreign(job.id, "cpus")' =>
                ~Foreign(job.id, "cpus") /\ cpus'[job.id] = cpus[job.id]
      <3>1. PICK u \in Threads : u = job.id
        BY <2>2
      <3>2. u = job'.id
        BY <2>1, <3>1
      <3> QED BY <1>1, <1>3, <3>1, <3>2, OtherMarks DEF Foreign
    <2>4. ZeroMeansSet'
      BY <1>1, <2>1, <2>3 DEF AnswersHonest, ZeroMeansSet
    <2>5. FailureKeepsAffinity'
      BY <1>1, <2>1, <2>3 DEF AnswersHonest, FailureKeepsAffinity
    <2> QED BY <2>4, <2>5 DEF AnswersHonest
  <1>4. CASE SetSched
    <2> SUFFICES ASSUME pc' = "reply" PROVE AnswersHonest'
      BY <1>2
    <2>1. /\ code' = "error"
          /\ pc = "sched"
          /\ UNCHANGED <<listed, cpus, job, before, changed>>
      BY <1>4 DEF SetSched, Replied
    <2>2. KeepsCpus
      BY <1>1, <2>1 DEF HandlerInv, Serving
    <2> QED BY <2>1, <2>2 DEF AnswersHonest, ZeroMeansSet, FailureKeepsAffinity, KeepsCpus, Foreign
  <1>5. CASE SetCpus
    BY <1>5, SetCpusHonest
  <1>6. ASSUME NEW t \in Threads, ThreadStarts(t) \/ ThreadStops(t) \/ GetRow(t)
        PROVE  AnswersHonest'
    BY <1>2, <1>6 DEF ThreadStarts, ThreadStops, GetRow
  <1>7. ASSUME NEW r \in Requests, ModifyNothing(r) \/ ModifyReads(r) PROVE AnswersHonest'
    BY <1>2, <1>7 DEF ModifyNothing, ModifyReads
  <1>8. CASE Get \/ DaemonEnds \/ Display
    BY <1>2, <1>8 DEF Get, DaemonEnds, Display
  <1>9. CASE Capabilities
    BY <1>1, <1>2, <1>9 DEF Capabilities, JobKnown
  <1> QED BY <1>3, <1>4, <1>5, <1>6, <1>7, <1>8, <1>9 DEF Next, CapabilitiesFail

-----------------------------------------------------------------------------
(* The results *)

(* Every step of the handlers and of other programs keeps the invariant. *)
THEOREM Invariance == Spec => []IndInv
  <1>1. Init => IndInv
    <2> SUFFICES ASSUME Init PROVE IndInv
      OBVIOUS
    <2>1. cpus \in [Threads -> (SUBSET Online) \ {{}}]
      <3>1. Online \in (SUBSET Online) \ {{}}
        BY SizesAssumption
      <3> QED BY <3>1 DEF Init
    <2>2. DOMAIN rows = {}
      BY DEF Init
    <2>3. TypeOK
      BY <2>1, <2>2, SchedTypes DEF Init, TypeOK
    <2>4. LibraryFresh /\ JobKnown /\ HandlerInv
      BY DEF Init, LibraryFresh, Fresh, JobKnown, HandlerInv, Serving
    <2>5. AnswersHonest
      BY DEF Init, AnswersHonest, ZeroMeansSet, FailureKeepsAffinity
    <2> QED BY <2>3, <2>4, <2>5 DEF IndInv
  <1>2. IndInv /\ [Next]_vars => IndInv'
    <2>1. CASE IndInv /\ Next
      BY <2>1, TypeKept, FreshKept, JobKept, HandlerKept, HonestKept DEF IndInv
    <2>2. CASE IndInv /\ UNCHANGED vars
      <3>1. /\ UNCHANGED <<listed, sched, cpus, known, pc, job>>
            /\ UNCHANGED <<want, code, rows, before, changed>>
        BY <2>2 DEF vars
      <3>2. TypeOK' /\ LibraryFresh' /\ JobKnown'
        BY <2>2, <3>1 DEF IndInv, TypeOK, LibraryFresh, Fresh, JobKnown, Serving, Foreign
      <3>3. HandlerInv'
        BY <2>2, <3>1 DEF IndInv, HandlerInv, Serving, WantsNamed, KeepsCpus,
                          KeepsSched, Foreign
      <3>4. AnswersHonest'
        BY <2>2, <3>1 DEF IndInv, AnswersHonest, ZeroMeansSet, FailureKeepsAffinity, Foreign
      <3> QED BY <3>2, <3>3, <3>4 DEF IndInv
    <2> QED BY <2>1, <2>2
  <1> QED BY <1>1, <1>2, PTL DEF Spec

(* The variables keep their types; the affinity of a thread is never empty. *)
THEOREM TypeCorrect == Spec => []TypeOK
  <1>1. IndInv => TypeOK
    BY DEF IndInv
  <1> QED BY <1>1, Invariance, PTL

(***************************************************************************)
(* A modify of a listed thread that answers 0 has set all that it names,   *)
(* and one that answers an error has left the affinity as it found it,     *)
(* unless another program has been at the same setting in between.         *)
(***************************************************************************)
THEOREM AnswersAreHonest == Spec => []AnswersHonest
  <1>1. IndInv => AnswersHonest
    BY DEF IndInv
  <1> QED BY <1>1, Invariance, PTL

(* The settings of one thread, of which a step may change what is named. *)
SchedNamed(t) ==
    ~Foreign(t, "sched") /\ ~Foreign(t, "sched")' =>
        \A f \in {"policy", "prio"} :
            sched'[t][f] # sched[t][f] => job # None /\ job.id = t /\ job[f] # None
CpusNamed(t) ==
    ~Foreign(t, "cpus") /\ ~Foreign(t, "cpus")' =>
        (cpus'[t] # cpus[t] => job # None /\ job.id = t /\ job.list # None)

LEMMA SetSchedNamed ==
    ASSUME IndInv, SetSched, NEW t \in Threads
    PROVE  SchedNamed(t)
  <1>1. TypeOK /\ job # None /\ KeepsSched
    BY DEF IndInv, JobKnown, HandlerInv, Serving, SetSched
  <1>2. CASE UNCHANGED sched
    BY <1>2 DEF SchedNamed
  <1>3. CASE sched' = [sched EXCEPT ![job.id] = want.sched]
    <2>1. CASE t # job.id
      BY <1>1, <1>3, <2>1 DEF TypeOK, SchedNamed
    <2>2. CASE t = job.id
      <3>1. sched'[t] = want.sched
        BY <1>1, <1>3, <2>2 DEF TypeOK
      <3> QED BY <1>1, <2>2, <3>1 DEF SchedNamed, KeepsSched
    <2> QED BY <2>1, <2>2
  <1> QED BY <1>2, <1>3 DEF SetSched

LEMMA SetCpusNamed ==
    ASSUME IndInv, SetCpus, NEW t \in Threads
    PROVE  CpusNamed(t)
  <1>1. TypeOK /\ job # None /\ KeepsCpus
    BY DEF IndInv, JobKnown, HandlerInv, Serving, SetCpus
  <1>2. CASE UNCHANGED cpus
    BY <1>2 DEF CpusNamed
  <1>3. CASE cpus' = [cpus EXCEPT ![job.id] = want.cpus \cap Online]
    <2>1. CASE t # job.id
      BY <1>1, <1>3, <2>1 DEF TypeOK, CpusNamed
    <2>2. CASE t = job.id
      <3>1. cpus'[t] = want.cpus \cap Online /\ cpus[t] \subseteq Online
        BY <1>1, <1>3, <2>2 DEF TypeOK
      <3> QED BY <1>1, <2>2, <3>1 DEF CpusNamed, KeepsCpus
    <2> QED BY <2>1, <2>2
  <1> QED BY <1>2, <1>3 DEF SetCpus

(***************************************************************************)
(* A modify changes only the thread and the settings it names, although    *)
(* the handler writes back all of them from what it has read, part of it   *)
(* from the C library's memory: unless another program changes a setting   *)
(* behind the daemon's back.                                               *)
(***************************************************************************)
THEOREM ChangesOnlyNamed == Spec => OnlyNamed
  <1>1. ASSUME IndInv, [Next]_vars, NEW t \in listed \cap listed'
        PROVE  SchedNamed(t) /\ CpusNamed(t)
    <2>1. t \in Threads /\ TypeOK
      BY <1>1 DEF IndInv, TypeOK
    <2>2. ASSUME sched'[t] = sched[t] PROVE SchedNamed(t)
      BY <2>2 DEF SchedNamed
    <2>3. ASSUME cpus'[t] = cpus[t] PROVE CpusNamed(t)
      BY <2>3 DEF CpusNamed
    <2>4. CASE UNCHANGED <<sched, cpus>>
      BY <2>2, <2>3, <2>4
    <2>5. CASE SetSched
      <3>1. cpus' = cpus
        BY <2>5 DEF SetSched
      <3> QED BY <1>1, <2>1, <2>3, <2>5, <3>1, SetSchedNamed
    <2>6. CASE SetCpus
      <3>1. sched' = sched
        BY <2>6 DEF SetCpus
      <3> QED BY <1>1, <2>1, <2>2, <2>6, <3>1, SetCpusNamed
    <2>7. ASSUME NEW u \in Threads, ThreadStops(u) PROVE SchedNamed(t) /\ CpusNamed(t)
      <3>1. t \notin {u} /\ Forgotten({u})
        BY <1>1, <2>7 DEF ThreadStops
      <3> QED BY <2>1, <2>2, <2>3, <3>1, ForgottenForeign
    <2>8. ASSUME NEW u \in Threads, Other(u) PROVE SchedNamed(t) /\ CpusNamed(t)
      <3>1. /\ ~Foreign(t, "sched")' => sched'[t] = sched[t]
            /\ ~Foreign(t, "cpus")' => cpus'[t] = cpus[t]
        BY <2>1, <2>8, OtherMarks
      <3> QED BY <3>1 DEF SchedNamed, CpusNamed
    <2>9. CASE DaemonEnds
      BY <1>1, <2>9 DEF DaemonEnds
    <2>10. ASSUME NEW u \in Threads, ThreadStarts(u) \/ GetRow(u)
           PROVE  SchedNamed(t) /\ CpusNamed(t)
      BY <2>4, <2>10 DEF ThreadStarts, GetRow
    <2>11. ASSUME NEW r \in Requests, ModifyNothing(r) \/ ModifyReads(r)
           PROVE  SchedNamed(t) /\ CpusNamed(t)
      BY <2>4, <2>11 DEF ModifyNothing, ModifyReads
    <2>12. CASE Get \/ Capabilities \/ Display \/ UNCHANGED vars
      BY <2>4, <2>12 DEF Get, Capabilities, Display, vars
    <2> QED BY <1>1, <2>5, <2>6, <2>7, <2>8, <2>9, <2>10, <2>11, <2>12
            DEF Next, CapabilitiesFail
  <1>2. IndInv /\ [Next]_vars =>
           [\A t \in listed \cap listed' : SchedNamed(t) /\ CpusNamed(t)]_vars
    BY <1>1
  <1>3. [\A t \in listed \cap listed' : SchedNamed(t) /\ CpusNamed(t)]_vars =>
        [\A t \in listed \cap listed' :
          /\ ~Foreign(t, "sched") /\ ~Foreign(t, "sched")' =>
                \A f \in {"policy", "prio"} :
                    sched'[t][f] # sched[t][f] => job # None /\ job.id = t /\ job[f] # None
          /\ ~Foreign(t, "cpus") /\ ~Foreign(t, "cpus")' =>
                (cpus'[t] # cpus[t] => job # None /\ job.id = t /\ job.list # None)]_vars
    BY DEF SchedNamed, CpusNamed
  <1> QED BY <1>2, <1>3, Invariance, PTL DEF Spec, OnlyNamed

-----------------------------------------------------------------------------
(* CPU lists.  CpuList is the value at <<0, 0>> of a recursive function;   *)
(* it is shown first that there is such a function.                        *)

CpuSets == SUBSET (0..(SetSize - 1))

LEMMA Least ==
    ASSUME NEW D, D \subseteq Nat, D # {}
    PROVE  \E m \in D : \A n \in D : m <= n
  <1> DEFINE Less == {p \in Nat \X Nat : p[1] < p[2]}
  <1>1. IsWellFoundedOn(Less, Nat)
    BY NatLessThanWellFounded DEF OpToRel
  <1>2. PICK m \in D : \A n \in D : ~(<<n, m>> \in Less)
    <2> HIDE DEF Less
    <2> QED BY <1>1, WFMin
  <1>3. \A y, z \in Nat : y < z => <<y, z>> \in Less
    OBVIOUS
  <1> HIDE DEF Less
  <1>4. ASSUME NEW n \in D PROVE m <= n
    <2>1. m \in Nat /\ n \in Nat /\ ~(n < m)
      BY <1>2, <1>3
    <2> QED BY <2>1
  <1> QED BY <1>4

(* A group of CPUs ends in front of the first one that is not in the mask. *)
LEMMA GroupEnds ==
    ASSUME NEW mask \in CpuSets, NEW i \in Nat
    PROVE  \E m \in Nat : /\ m > i /\ m \notin mask /\ (i + 1)..(m - 1) \subseteq mask
                          /\ Following(mask, i) = m - 1 - i
  <1> DEFINE Free == {n \in Nat : n > i /\ n \notin mask}
  <1>1. SetSize \in Nat /\ \A j \in mask : j \in Nat /\ j < SetSize
    BY SizesAssumption DEF CpuSets
  <1>2. i + 1 + SetSize \in Free
    <2>1. i + 1 + SetSize \in Nat /\ i + 1 + SetSize > i /\ ~(i + 1 + SetSize < SetSize)
      BY <1>1
    <2> QED BY <1>1, <2>1
  <1>3. PICK m \in Free : \A n \in Free : m <= n
    <2>1. Free \subseteq Nat /\ Free # {}
      BY <1>2
    <2> HIDE DEF Free
    <2> QED BY <2>1, Least
  <1>4. m \in Nat /\ m > i /\ m \notin mask
    BY <1>3
  <1>5. (i + 1)..(m - 1) \subseteq mask
    <2> SUFFICES ASSUME NEW j \in (i + 1)..(m - 1) PROVE j \in mask
      OBVIOUS
    <2>1. j \in Nat /\ j > i /\ ~(m <= j)
      BY <1>4
    <2> QED BY <1>3, <2>1
  <1>6. {j \in mask : j > i /\ (i + 1)..j \subseteq mask} = (i + 1)..(m - 1)
    <2>1. ASSUME NEW j \in mask, j > i, (i + 1)..j \subseteq mask
          PROVE  j \in (i + 1)..(m - 1)
      <3>1. j \in Nat
        BY <1>1
      <3>2. m <= j => m \in (i + 1)..j
        BY <1>4, <3>1
      <3> QED BY <1>4, <2>1, <3>1, <3>2
    <2>2. ASSUME NEW j \in (i + 1)..(m - 1)
          PROVE  j \in mask /\ j > i /\ (i + 1)..j \subseteq mask
      <3>1. (i + 1)..j \subseteq (i + 1)..(m - 1)
        BY <1>4
      <3> QED BY <1>4, <1>5, <3>1
    <2> QED BY <2>1, <2>2
  <1>7. Cardinality((i + 1)..(m - 1)) = m - 1 - i
    <2>1. i + 1 \in Int /\ m - 1 \in Int
      BY <1>4
    <2>2. Cardinality((i + 1)..(m - 1))
             = IF i + 1 > m - 1 THEN 0 ELSE (m - 1) - (i + 1) + 1
      BY <2>1, FS_Interval
    <2> QED BY <1>4, <2>2
  <1>8. Following(mask, i) = m - 1 - i
    BY <1>6, <1>7 DEF Following
  <1> QED BY <1>4, <1>5, <1>8

LEMMA FollowingType ==
    ASSUME NEW mask \in CpuSets, NEW i \in Nat
    PROVE  Following(mask, i) \in Nat
  <1>1. PICK m \in Nat : m > i /\ Following(mask, i) = m - 1 - i
    BY GroupEnds
  <1> QED BY <1>1

(* One round of the loop of cpu_affinity2str(), and all rounds after it. *)
WalkAt(mask, at, walk) ==
    LET i == at[1]
        r == at[2] + Following(mask, i)
    IN  IF i >= SetSize THEN <<>>
        ELSE IF i \notin mask THEN walk[<<i + 1, at[2]>>]
        ELSE Entries(i, r) \o walk[<<i + r + 1, r>>]

Places(low) == {at \in Nat \X Nat : at[1] >= low}
WalksFrom(mask, low, walk) == walk = [at \in Places(low) |-> WalkAt(mask, at, walk)]

(* The three cases of a round. *)
LEMMA WalkEnds ==
    ASSUME NEW mask \in CpuSets, NEW i \in Nat, NEW run \in Nat, NEW walk, i >= SetSize
    PROVE  WalkAt(mask, <<i, run>>, walk) = <<>>
  BY DEF WalkAt

LEMMA WalkPasses ==
    ASSUME NEW mask \in CpuSets, NEW i \in Nat, NEW run \in Nat, NEW walk,
           ~(i >= SetSize), i \notin mask
    PROVE  WalkAt(mask, <<i, run>>, walk) = walk[<<i + 1, run>>]
  BY DEF WalkAt

LEMMA WalkWrites ==
    ASSUME NEW mask \in CpuSets, NEW i \in mask, NEW run \in Nat, NEW walk
    PROVE  WalkAt(mask, <<i, run>>, walk) =
              Entries(i, run + Following(mask, i))
                 \o walk[<<i + (run + Following(mask, i)) + 1, run + Following(mask, i)>>]
  <1>1. ~(i >= SetSize)
    BY SizesAssumption DEF CpuSets
  <1> QED BY <1>1 DEF WalkAt

(* What a round writes depends on later rounds only. *)
LEMMA WalksOnwards ==
    ASSUME NEW mask \in CpuSets, NEW i \in Nat, NEW run \in Nat, NEW f, NEW g,
           \A at \in Places(i + 1) : f[at] = g[at]
    PROVE  WalkAt(mask, <<i, run>>, f) = WalkAt(mask, <<i, run>>, g)
  <1> DEFINE r == run + Following(mask, i)
  <1>1. r \in Nat
    BY FollowingType
  <1>2. \A j, q \in Nat : j >= i + 1 => f[<<j, q>>] = g[<<j, q>>]
    BY DEF Places
  <1>3. CASE i >= SetSize
    BY <1>3, WalkEnds
  <1>4. CASE ~(i >= SetSize) /\ i \notin mask
    <2>1. f[<<i + 1, run>>] = g[<<i + 1, run>>]
      BY <1>2
    <2> QED BY <1>4, <2>1, WalkPasses
  <1>5. CASE i \in mask
    <2>1. f[<<i + r + 1, r>>] = g[<<i + r + 1, r>>]
      <3> HIDE DEF r
      <3> QED BY <1>1, <1>2
    <2>2. /\ WalkAt(mask, <<i, run>>, f) = Entries(i, r) \o f[<<i + r + 1, r>>]
          /\ WalkAt(mask, <<i, run>>, g) = Entries(i, r) \o g[<<i + r + 1, r>>]
      BY <1>5, WalkWrites, Zenon
    <2> HIDE DEF r
    <2> QED BY <2>1, <2>2
  <1> QED BY <1>3, <1>4, <1>5

(* If the loop can go on from a CPU, then from the one before as well. *)
LEMMA WalksFromBefore ==
    ASSUME NEW mask \in CpuSets, NEW low \in Nat \ {0}, NEW g, WalksFrom(mask, low, g)
    PROVE  \E h : WalksFrom(mask, low - 1, h)
  <1> DEFINE h == [at \in Places(low - 1) |->
                     IF at[1] = low - 1 THEN WalkAt(mask, at, g) ELSE g[at]]
  <1>1. low \in Nat /\ low - 1 \in Nat
    OBVIOUS
  <1>2. \A at \in Places(low) : at \in Places(low - 1) /\ at[1] # low - 1
    BY <1>1 DEF Places
  <1>3. \A at \in Places(low) : h[at] = g[at]
    BY <1>2
  <1>4. ASSUME NEW at \in Places(low - 1) PROVE h[at] = WalkAt(mask, at, h)
    <2>1. PICK i \in Nat, run \in Nat : at = <<i, run>> /\ i >= low - 1
      BY DEF Places
    <2>2. at[1] = i
      BY <2>1
    <2>3. \A p \in Places(i + 1) : p \in Places(low)
      BY <1>1, <2>1 DEF Places
    <2>4. \A p \in Places(i + 1) : h[p] = g[p]
      BY <1>3, <2>3
    <2>5. WalkAt(mask, at, h) = WalkAt(mask, at, g)
      <3> HIDE DEF h
      <3> QED BY <2>1, <2>4, WalksOnwards
    <2>6. CASE i = low - 1
      BY <2>2, <2>5, <2>6
    <2>7. CASE i # low - 1
      <3>1. at \in Places(low)
        BY <1>1, <2>1, <2>7 DEF Places
      <3>2. g[at] = WalkAt(mask, at, g)
        BY <3>1 DEF WalksFrom
      <3> QED BY <1>3, <2>5, <3>1, <3>2
    <2> QED BY <2>6, <2>7
  <1>5. h = [at \in Places(low - 1) |-> h[at]]
    OBVIOUS
  <1>6. h = [at \in Places(low - 1) |-> WalkAt(mask, at, h)]
    <2> HIDE DEF h
    <2> QED BY <1>4, <1>5
  <1>7. WalksFrom(mask, low - 1, h)
    BY <1>6 DEF WalksFrom
  <1> QED BY <1>7

LEMMA WalksExists ==
    ASSUME NEW mask \in CpuSets
    PROVE  \E f : WalksFrom(mask, 0, f)
  <1> DEFINE D == {n \in Nat : \E f : WalksFrom(mask, n, f)}
  <1>1. SetSize \in D
    <2> DEFINE f == [at \in Places(SetSize) |-> <<>>]
    <2>1. SetSize \in Nat
      BY SizesAssumption
    <2>2. ASSUME NEW at \in Places(SetSize) PROVE WalkAt(mask, at, f) = <<>>
      <3>1. PICK i \in Nat, run \in Nat : at = <<i, run>> /\ i >= SetSize
        BY DEF Places
      <3> HIDE DEF f
      <3> QED BY <3>1, WalkEnds
    <2>3. f = [at \in Places(SetSize) |-> WalkAt(mask, at, f)]
      BY <2>2
    <2>4. WalksFrom(mask, SetSize, f)
      BY <2>3 DEF WalksFrom
    <2> QED BY <2>1, <2>4
  <1>2. PICK m \in D : \A n \in D : m <= n
    <2>1. D \subseteq Nat /\ D # {}
      BY <1>1
    <2> HIDE DEF D
    <2> QED BY <2>1, Least
  <1>3. CASE m # 0
    <2>1. m \in Nat \ {0} /\ m - 1 \in Nat /\ ~(m <= m - 1)
      BY <1>3
    <2>2. PICK g : WalksFrom(mask, m, g)
      OBVIOUS
    <2>3. m - 1 \in D
      BY <2>1, <2>2, WalksFromBefore
    <2> QED BY <1>2, <2>1, <2>3
  <1>4. CASE m = 0
    BY <1>4
  <1> QED BY <1>3, <1>4

(* CpuList is what a function with that recursion has at its beginning. *)
LEMMA CpuListUnfolds ==
    ASSUME NEW mask \in CpuSets
    PROVE  \E f : /\ CpuList(mask) = f[<<0, 0>>]
                  /\ \A i, run \in Nat : f[<<i, run>>] = WalkAt(mask, <<i, run>>, f)
  <1> DEFINE f == CHOOSE g : g = [at \in Nat \X Nat |-> WalkAt(mask, at, g)]
  <1>1. Places(0) = Nat \X Nat
    BY DEF Places
  <1>2. \E g : g = [at \in Nat \X Nat |-> WalkAt(mask, at, g)]
    BY <1>1, WalksExists DEF WalksFrom
  <1>3. f = [at \in Nat \X Nat |-> WalkAt(mask, at, f)]
    BY <1>2, Zenon
  <1>4. CpuList(mask) = f[<<0, 0>>]
    BY DEF CpuList, WalkAt
  <1>5. \A i, run \in Nat : f[<<i, run>>] = WalkAt(mask, <<i, run>>, f)
    <2> HIDE DEF f
    <2> QED BY <1>3
  <1> QED BY <1>4, <1>5

(* What such a list says.  All of its entries can be read. *)

IsList(list) ==
    /\ list \in Seq(Seq(Nat))
    /\ \A k \in 1..Len(list) : Readable(list[k])
Shows(list) == UNION {Covered(list[k]) : k \in 1..Len(list)}

LEMMA ShowsAll ==
    ASSUME NEW list, IsList(list)
    PROVE  Affinity(list) = Shows(list)
  <1>1. Len(list) \in Nat
    BY LenProperties DEF IsList
  <1>2. ReadableTo(list) = 1..Len(list)
    <2>1. ASSUME NEW k \in 1..Len(list), NEW j \in 1..k PROVE Readable(list[j])
      <3>1. j \in 1..Len(list)
        BY <1>1
      <3> QED BY <3>1 DEF IsList
    <2> QED BY <2>1 DEF ReadableTo
  <1> QED BY <1>2 DEF Affinity, Shows

LEMMA ShowsBoth ==
    ASSUME NEW s, NEW t, IsList(s), IsList(t)
    PROVE  IsList(s \o t) /\ Shows(s \o t) = Shows(s) \cup Shows(t)
  <1> DEFINE st == s \o t
  <1>1. /\ s \in Seq(Seq(Nat)) /\ t \in Seq(Seq(Nat))
        /\ Len(s) \in Nat /\ Len(t) \in Nat
    BY LenProperties DEF IsList
  <1>2. /\ st \in Seq(Seq(Nat)) /\ Len(st) = Len(s) + Len(t)
        /\ \A k \in 1..(Len(s) + Len(t)) :
              st[k] = IF k <= Len(s) THEN s[k] ELSE t[k - Len(s)]
    BY <1>1, ConcatProperties
  <1> HIDE DEF st
  <1>3. ASSUME NEW k \in 1..Len(st)
        PROVE  \/ k \in 1..Len(s) /\ st[k] = s[k]
               \/ k - Len(s) \in 1..Len(t) /\ st[k] = t[k - Len(s)]
    <2>1. CASE k <= Len(s)
      BY <1>1, <1>2, <2>1
    <2>2. CASE ~(k <= Len(s))
      <3>1. k - Len(s) \in 1..Len(t)
        BY <1>1, <1>2, <2>2
      <3> QED BY <1>2, <2>2, <3>1
    <2> QED BY <2>1, <2>2
  <1>4. \A k \in 1..Len(s) : k \in 1..Len(st) /\ st[k] = s[k]
    BY <1>1, <1>2
  <1>5. ASSUME NEW k \in 1..Len(t)
        PROVE  k + Len(s) \in 1..Len(st) /\ st[k + Len(s)] = t[k]
    <2>1. /\ k + Len(s) \in 1..(Len(s) + Len(t)) /\ ~(k + Len(s) <= Len(s))
          /\ (k + Len(s)) - Len(s) = k
      BY <1>1
    <2> QED BY <1>2, <2>1
  <1>6. IsList(st)
    BY <1>2, <1>3 DEF IsList
  <1>7. Shows(st) = Shows(s) \cup Shows(t)
    <2>1. ASSUME NEW x \in Shows(st) PROVE x \in Shows(s) \cup Shows(t)
      <3>1. PICK k \in 1..Len(st) : x \in Covered(st[k])
        BY DEF Shows
      <3> QED BY <1>3, <3>1 DEF Shows
    <2>2. ASSUME NEW x \in Shows(s) PROVE x \in Shows(st)
      <3>1. PICK k \in 1..Len(s) : x \in Covered(s[k])
        BY DEF Shows
      <3> QED BY <1>4, <3>1 DEF Shows
    <2>3. ASSUME NEW x \in Shows(t) PROVE x \in Shows(st)
      <3>1. PICK k \in 1..Len(t) : x \in Covered(t[k])
        BY DEF Shows
      <3> QED BY <1>5, <3>1 DEF Shows
    <2> QED BY <2>1, <2>2, <2>3
  <1> QED BY <1>6, <1>7 DEF st

(***************************************************************************)
(* Reading a-b sets the CPUs from a to b that fit into the set, and no     *)
(* other if b does: there the unsigned int is far from its end.            *)
(***************************************************************************)
LEMMA RangeCovered ==
    ASSUME NEW e, NEW a \in Nat, NEW b \in Nat, a <= b,
           Entry(e) = [a |-> a, b |-> b, s |-> 1]
    PROVE  /\ \A x \in a..b : x < SetSize => x \in Covered(e)
           /\ b < SetSize => Covered(e) \subseteq a..b
  <1>1. SetSize \in Nat \ {0} /\ Word \in Nat /\ Word >= 2 * SetSize
    BY SizesAssumption
  <1>2. \A k \in Nat : Value(e, k) = (a + k) % Word
    BY DEF Value
  <1>3. \A n \in Nat : n < Word => n % Word = n
    BY <1>1
  <1>4. ASSUME NEW x \in a..b, x < SetSize PROVE x \in Covered(e)
    <2>1. x - a \in 0..Word /\ x < Word /\ a + (x - a) = x /\ x \in 0..(SetSize - 1)
      BY <1>1, <1>4
    <2>2. ASSUME NEW j \in 0..(x - a) PROVE Value(e, j) <= b
      <3>1. j \in Nat /\ a + j \in Nat /\ a + j < Word /\ a + j <= b
        BY <1>1, <2>1
      <3> QED BY <1>2, <1>3, <3>1
    <2>3. Loops(e, x - a)
      BY <2>2 DEF Loops
    <2>4. Value(e, x - a) = x
      BY <1>2, <1>3, <2>1
    <2> QED BY <2>1, <2>3, <2>4 DEF Covered
  <1>5. ASSUME b < SetSize, NEW x \in Covered(e) PROVE x \in a..b
    <2>1. PICK k \in 0..Word : Loops(e, k) /\ x = Value(e, k)
      BY DEF Covered
    <2>2. k <= b - a
      <3> SUFFICES ASSUME ~(k <= b - a) PROVE FALSE
        OBVIOUS
      <3>1. /\ b - a + 1 \in 0..k /\ b - a + 1 \in Nat
            /\ a + (b - a + 1) = b + 1 /\ b + 1 \in Nat /\ b + 1 < Word
        BY <1>1, <1>5
      <3>2. Value(e, b - a + 1) = b + 1
        BY <1>2, <1>3, <3>1
      <3>3. Value(e, b - a + 1) <= b
        BY <2>1, <3>1 DEF Loops
      <3> QED BY <3>2, <3>3
    <2>3. a + k \in Nat /\ a + k < Word /\ a + k \in a..b /\ k \in Nat
      BY <1>1, <1>5, <2>2
    <2> QED BY <1>2, <1>3, <2>1, <2>3
  <1> QED BY <1>4, <1>5

(* The entries of a group show the group. *)
LEMMA EntriesShow ==
    ASSUME NEW i \in Nat, NEW r \in Nat
    PROVE  /\ IsList(Entries(i, r))
           /\ \A x \in i..(i + r) : x < SetSize => x \in Shows(Entries(i, r))
           /\ i + r < SetSize => Shows(Entries(i, r)) \subseteq i..(i + r)
  <1>1. SetSize \in Nat
    BY SizesAssumption
  <1>2. ASSUME NEW a \in Nat
        PROVE  /\ <<a>> \in Seq(Nat) /\ Readable(<<a>>)
               /\ a < SetSize => a \in Covered(<<a>>) /\ Covered(<<a>>) \subseteq {a}
    <2>1. Entry(<<a>>) = [a |-> a, b |-> a, s |-> 1]
      BY DEF Entry
    <2>2. a \in a..a /\ a..a \subseteq {a}
      OBVIOUS
    <2>3. Readable(<<a>>) /\ <<a>> \in Seq(Nat)
      BY <2>1 DEF Readable
    <2>4. /\ \A x \in a..a : x < SetSize => x \in Covered(<<a>>)
          /\ a < SetSize => Covered(<<a>>) \subseteq a..a
      BY <2>1, RangeCovered
    <2> QED BY <2>2, <2>3, <2>4
  <1>3. CASE r = 0
    <2>1. Entries(i, r) = <<<<i>>>>
      BY <1>3 DEF Entries
    <2>2. IsList(<<<<i>>>>)
      BY <1>2 DEF IsList
    <2>3. Shows(<<<<i>>>>) = Covered(<<i>>)
      BY DEF Shows
    <2>4. i..(i + r) = {i}
      BY <1>3
    <2> QED BY <1>2, <1>3, <2>1, <2>2, <2>3, <2>4
  <1>4. CASE r = 1
    <2>1. Entries(i, r) = <<<<i>>, <<i + 1>>>>
      BY <1>4 DEF Entries
    <2>2. IsList(<<<<i>>, <<i + 1>>>>)
      BY <1>2 DEF IsList
    <2>3. Shows(<<<<i>>, <<i + 1>>>>) = Covered(<<i>>) \cup Covered(<<i + 1>>)
      <3> DEFINE list == <<<<i>>, <<i + 1>>>>
      <3>1. 1..Len(list) = {1, 2} /\ list[1] = <<i>> /\ list[2] = <<i + 1>>
        OBVIOUS
      <3> HIDE DEF list
      <3>2. Shows(list) = Covered(<<i>>) \cup Covered(<<i + 1>>)
        BY <3>1 DEF Shows
      <3> QED BY <3>2 DEF list
    <2>4. i..(i + r) = {i, i + 1} /\ i + 1 \in Nat
      BY <1>4
    <2>5. i + 1 < SetSize => i < SetSize
      BY <1>1
    <2> QED BY <1>2, <1>4, <2>1, <2>2, <2>3, <2>4, <2>5
  <1>5. CASE r > 1
    <2> DEFINE e == <<i, i + r>>
    <2>1. Entries(i, r) = <<e>>
      BY <1>5 DEF Entries
    <2>2. Entry(e) = [a |-> i, b |-> i + r, s |-> 1]
      BY DEF Entry
    <2>3. i + r \in Nat /\ i <= i + r
      OBVIOUS
    <2>4. e \in Seq(Nat) /\ Readable(e)
      BY <2>2, <2>3 DEF Readable
    <2> HIDE DEF e
    <2>5. IsList(<<e>>) /\ Shows(<<e>>) = Covered(e)
      BY <2>4 DEF IsList, Shows
    <2> QED BY <2>1, <2>2, <2>3, <2>5, RangeCovered
  <1> QED BY <1>3, <1>4, <1>5

(***************************************************************************)
(* What is written from CPU i on shows every CPU of the mask that is left, *)
(* nothing if there is none, and no other as long as run is 0 and nothing  *)
(* comes behind the first group.                                           *)
(***************************************************************************)
Says(mask, i, run, list) ==
    /\ IsList(list)
    /\ \A j \in mask : j >= i => j \in Shows(list)
    /\ (\A j \in mask : j < i) => Shows(list) = {}
    /\ run = 0 /\ NothingBehind(mask) => Shows(list) \subseteq mask

LEMMA RoundSays ==
    ASSUME NEW mask \in CpuSets, NEW f, NEW i \in Nat, NEW run \in Nat,
           f[<<i, run>>] = WalkAt(mask, <<i, run>>, f),
           \A j, q \in Nat : j > i => Says(mask, j, q, f[<<j, q>>])
    PROVE  Says(mask, i, run, f[<<i, run>>])
  <1> DEFINE w == f[<<i, run>>]
  <1>1. SetSize \in Nat /\ \A j \in mask : j \in Nat /\ j < SetSize
    BY SizesAssumption DEF CpuSets
  <1>2. CASE i >= SetSize
    <2>1. w = <<>>
      BY <1>2, WalkEnds
    <2>2. IsList(<<>>) /\ Shows(<<>>) = {}
      BY DEF IsList, Shows
    <2>3. \A j \in mask : ~(j >= i)
      BY <1>1, <1>2
    <2> QED BY <2>1, <2>2, <2>3 DEF Says
  <1>3. CASE ~(i >= SetSize) /\ i \notin mask
    <2>1. w = f[<<i + 1, run>>]
      BY <1>3, WalkPasses
    <2>2. Says(mask, i + 1, run, f[<<i + 1, run>>])
      OBVIOUS
    <2>3. \A j \in mask : (j >= i => j >= i + 1) /\ (j < i => j < i + 1)
      BY <1>1, <1>3
    <2> QED BY <2>1, <2>2, <2>3 DEF Says
  <1>4. CASE i \in mask
    <2> DEFINE r == run + Following(mask, i)
               rest == f[<<i + r + 1, r>>]
    <2>1. w = Entries(i, r) \o rest
      BY <1>4, WalkWrites, Zenon
    <2>2. PICK m \in Nat : /\ m > i /\ m \notin mask /\ (i + 1)..(m - 1) \subseteq mask
                           /\ Following(mask, i) = m - 1 - i
      BY GroupEnds
    <2>3. r \in Nat /\ (run = 0 => r = m - 1 - i)
      BY <2>2
    <2> HIDE DEF r
    <2>4. Says(mask, i + r + 1, r, rest)
      <3>1. i + r + 1 \in Nat /\ i + r + 1 > i
        BY <2>3
      <3> QED BY <2>3, <3>1
    <2>5. /\ IsList(Entries(i, r))
          /\ \A x \in i..(i + r) : x < SetSize => x \in Shows(Entries(i, r))
          /\ i + r < SetSize => Shows(Entries(i, r)) \subseteq i..(i + r)
      BY <2>3, EntriesShow
    <2> HIDE DEF rest, w
    <2>6. IsList(w) /\ Shows(w) = Shows(Entries(i, r)) \cup Shows(rest)
      BY <2>1, <2>4, <2>5, ShowsBoth DEF Says
    <2>7. ASSUME NEW j \in mask, j >= i PROVE j \in Shows(w)
      <3>1. j \in Nat /\ j < SetSize
        BY <1>1
      <3>2. CASE j <= i + r
        <4>1. j \in i..(i + r)
          BY <2>3, <2>7, <3>1, <3>2
        <4> QED BY <2>5, <2>6, <3>1, <4>1
      <3>3. CASE ~(j <= i + r)
        <4>1. j >= i + r + 1
          BY <2>3, <3>1, <3>3
        <4> QED BY <2>4, <2>6, <4>1 DEF Says
      <3> QED BY <3>2, <3>3
    <2>8. ~(\A j \in mask : j < i)
      <3>1. ~(i < i)
        OBVIOUS
      <3> QED BY <1>4, <3>1
    <2>9. ASSUME run = 0, NothingBehind(mask) PROVE Shows(w) \subseteq mask
      <3>1. r = m - 1 - i /\ i + r = m - 1 /\ r = Following(mask, i)
        BY <2>2, <2>3, <2>9
      <3>2. i..(i + r) \subseteq mask
        <4>1. ASSUME NEW x \in i..(i + r) PROVE x = i \/ x \in (i + 1)..(m - 1)
          BY <2>2, <2>3, <3>1
        <4> QED BY <1>4, <2>2, <4>1
      <3>3. i + r < SetSize
        <4>1. i + r \in i..(i + r)
          BY <2>3
        <4> QED BY <1>1, <3>2, <4>1
      <3>4. Shows(Entries(i, r)) \subseteq mask
        BY <2>5, <3>2, <3>3
      <3>5. CASE r = 0
        BY <2>4, <2>6, <2>9, <3>4, <3>5 DEF Says
      <3>6. CASE r # 0
        <4>1. i \in Grouped(mask)
          BY <1>4, <2>3, <3>1, <3>6 DEF Grouped
        <4>2. ASSUME NEW j \in mask PROVE j < i + r + 1
          <5> SUFFICES ASSUME ~(j < i + r + 1) PROVE FALSE
            OBVIOUS
          <5>1. j \in Nat /\ j > i /\ m \in i..j
            BY <1>1, <2>2, <2>3, <3>1
          <5>2. i..j \subseteq mask
            BY <2>9, <4>1, <5>1 DEF NothingBehind
          <5> QED BY <2>2, <5>1, <5>2
        <4>3. Shows(rest) = {}
          BY <2>4, <4>2 DEF Says
        <4> QED BY <2>6, <3>4, <4>3
      <3> QED BY <3>5, <3>6
    <2>10. Says(mask, i, run, w)
      BY <2>6, <2>7, <2>8, <2>9 DEF Says
    <2> QED BY <2>10 DEF w
  <1> QED BY <1>2, <1>3, <1>4

(***************************************************************************)
(* The list cpu_affinity2str() writes of an affinity, read by              *)
(* str2cpu_affinity(), covers the affinity, and is the affinity when no    *)
(* CPU comes behind its first group of two or more.                        *)
(***************************************************************************)
THEOREM ListReadsBack ==
    ASSUME NEW mask \in CpuSets
    PROVE  ReadsBack(mask)
  <1>1. PICK f : /\ CpuList(mask) = f[<<0, 0>>]
                 /\ \A i, run \in Nat : f[<<i, run>>] = WalkAt(mask, <<i, run>>, f)
    BY CpuListUnfolds
  <1> DEFINE Said(i) == \A run \in Nat : Says(mask, i, run, f[<<i, run>>])
             D == {n \in Nat : \A i \in Nat : i >= n => Said(i)}
  <1>2. SetSize \in D
    <2>1. SetSize \in Nat /\ \A j \in mask : j \in Nat /\ j < SetSize
      BY SizesAssumption DEF CpuSets
    <2>2. ASSUME NEW i \in Nat, i >= SetSize, NEW run \in Nat
          PROVE  Says(mask, i, run, f[<<i, run>>])
      <3>1. f[<<i, run>>] = <<>>
        BY <1>1, <2>2, WalkEnds
      <3>2. IsList(<<>>) /\ Shows(<<>>) = {}
        BY DEF IsList, Shows
      <3>3. \A j \in mask : ~(j >= i)
        BY <2>1, <2>2
      <3> QED BY <3>1, <3>2, <3>3 DEF Says
    <2> QED BY <2>1, <2>2
  <1>3. PICK m \in D : \A n \in D : m <= n
    <2>1. D \subseteq Nat /\ D # {}
      BY <1>2
    <2> HIDE DEF D
    <2> QED BY <2>1, Least
  <1>4. m = 0
    <2> SUFFICES ASSUME m # 0 PROVE FALSE
      OBVIOUS
    <2>1. m \in Nat /\ m - 1 \in Nat /\ ~(m <= m - 1)
      OBVIOUS
    <2>2. \A j \in Nat : j >= m => Said(j)
      OBVIOUS
    <2> HIDE DEF D
    <2>3. \A j, q \in Nat : j > m - 1 => Says(mask, j, q, f[<<j, q>>])
      BY <2>1, <2>2
    <2>4. Said(m - 1)
      BY <1>1, <2>1, <2>3, RoundSays
    <2>5. \A i \in Nat : i >= m - 1 => i = m - 1 \/ i >= m
      BY <2>1
    <2> HIDE DEF Said
    <2>6. m - 1 \in D
      BY <2>1, <2>2, <2>4, <2>5 DEF D
    <2> QED BY <1>3, <2>1, <2>6
  <1>5. Says(mask, 0, 0, CpuList(mask))
    BY <1>1, <1>3, <1>4
  <1>6. mask \subseteq Shows(CpuList(mask))
    <2>1. \A j \in mask : j >= 0
      BY SizesAssumption DEF CpuSets
    <2> QED BY <1>5, <2>1 DEF Says
  <1>7. Affinity(CpuList(mask)) = Shows(CpuList(mask))
    BY <1>5, ShowsAll DEF Says
  <1> QED BY <1>5, <1>6, <1>7 DEF Says, ReadsBack

-----------------------------------------------------------------------------
(* Lists *)

(* A row holds the settings of its thread, foreign changes apart, and the  *)
(* list is given up with the command.                                      *)
RowTrue(t) ==
    /\ ~Foreign(t, "sched") => rows[t].sched = sched[t]
    /\ ~Foreign(t, "cpus") => rows[t].list = CpuList(cpus[t])
RowsInv ==
    /\ \A t \in DOMAIN rows : RowTrue(t)
    /\ pc \notin {"rows", "shown"} => DOMAIN rows = {}

(* Filling in a row leaves the others true. *)
LEMMA RowFilled ==
    ASSUME IndInv, RowsInv, NEW t \in Threads, GetRow(t)
    PROVE  RowsInv'
  <1>1. TypeOK /\ LibraryFresh /\ Fetch(t) /\ UNCHANGED <<sched, cpus>>
    BY DEF IndInv, GetRow
  <1>2. DOMAIN rows' = DOMAIN rows \cup {t} /\ pc' \in {"rows", "shown"}
    BY DEF GetRow
  <1>3. ASSUME NEW u \in DOMAIN rows' PROVE RowTrue(u)'
    <2>1. u \in Threads
      BY <1>1, <1>2 DEF TypeOK
    <2>2. CASE u = t
      <3>1. rows'[u].sched = SchedKnown(t) /\ rows'[u].list = CpuList(cpus[t])
        BY <2>2 DEF GetRow
      <3>2. ~Foreign(t, "sched")' => SchedKnown(t) = sched[t]
        BY <1>1, FetchForeign DEF SchedKnown, LibraryFresh, Fresh
      <3> QED BY <1>1, <2>2, <3>1, <3>2 DEF RowTrue
    <2>3. CASE u # t
      <3>1. rows'[u] = rows[u] /\ u \in DOMAIN rows
        BY <2>3 DEF GetRow
      <3>2. /\ Foreign(u, "sched")' <=> Foreign(u, "sched")
            /\ Foreign(u, "cpus")' <=> Foreign(u, "cpus")
        BY <1>1, <2>1, <2>3, FetchForeign
      <3> QED BY <1>1, <3>1, <3>2 DEF RowsInv, RowTrue
    <2> QED BY <2>2, <2>3
  <1> QED BY <1>2, <1>3 DEF RowsInv

LEMMA RowsKept ==
    ASSUME IndInv, RowsInv, Next
    PROVE  RowsInv'
  <1>1. TypeOK
    BY DEF IndInv
  <1>2. ASSUME DOMAIN rows' = {} PROVE RowsInv'
    BY <1>2 DEF RowsInv
  <1>3. ASSUME UNCHANGED rows, pc \notin {"rows", "shown"} PROVE RowsInv'
    BY <1>2, <1>3 DEF RowsInv
  <1>4. ASSUME NEW t \in Threads, GetRow(t) PROVE RowsInv'
    BY <1>4, RowFilled
  <1>5. ASSUME NEW t \in Threads, Other(t) PROVE RowsInv'
    <2>1. UNCHANGED <<rows, pc>>
      BY <1>5 DEF Other
    <2>2. ASSUME NEW u \in DOMAIN rows' PROVE RowTrue(u)'
      <3>1. u \in Threads /\ RowTrue(u)
        BY <1>1, <2>1 DEF TypeOK, RowsInv
      <3> QED BY <1>1, <1>5, <2>1, <3>1, OtherMarks DEF RowTrue
    <2> QED BY <2>1, <2>2 DEF RowsInv
  <1>6. ASSUME NEW t \in Threads, ThreadStarts(t) \/ ThreadStops(t) PROVE RowsInv'
    BY <1>3, <1>6 DEF ThreadStarts, ThreadStops
  <1>7. ASSUME NEW r \in Requests, ModifyNothing(r) \/ ModifyReads(r) PROVE RowsInv'
    BY <1>3, <1>7 DEF ModifyNothing, ModifyReads
  <1>8. CASE SetSched \/ SetCpus \/ Capabilities
    BY <1>3, <1>8 DEF SetSched, SetCpus, Capabilities
  <1>9. CASE Get \/ DaemonEnds \/ Display
    <2>1. rows' = <<>>
      BY <1>9 DEF Get, DaemonEnds, Display
    <2> QED BY <1>2, <2>1
  <1> QED BY <1>4, <1>5, <1>6, <1>7, <1>8, <1>9 DEF Next, CapabilitiesFail

(***************************************************************************)
(* A get shows the settings threads have, unless another program has       *)
(* changed them since, for all threads and all interleavings of the rows   *)
(* with such changes; and the affinity it shows reads back.                *)
(***************************************************************************)
THEOREM ShownIsTrue == Spec => []ShownTrue
  <1>1. Init => RowsInv
    <2>1. Init => DOMAIN rows = {}
      BY DEF Init
    <2> QED BY <2>1 DEF RowsInv
  <1>2. IndInv /\ RowsInv /\ [Next]_vars => RowsInv'
    <2>1. CASE UNCHANGED vars /\ RowsInv
      BY <2>1 DEF vars, RowsInv, RowTrue, Foreign
    <2> QED BY <2>1, RowsKept
  <1>3. ASSUME IndInv, RowsInv PROVE ShownTrue
    <2> SUFFICES ASSUME NEW t \in DOMAIN rows
                 PROVE  /\ ~Foreign(t, "sched") => rows[t].sched = sched[t]
                        /\ ~Foreign(t, "cpus") =>
                              /\ cpus[t] \subseteq Affinity(rows[t].list)
                              /\ NothingBehind(cpus[t]) => Affinity(rows[t].list) = cpus[t]
      BY DEF ShownTrue
    <2>1. cpus[t] \in (SUBSET Online) \ {{}} /\ RowTrue(t)
      BY <1>3 DEF IndInv, TypeOK, RowsInv
    <2>2. ReadsBack(cpus[t])
      BY <2>1, ListReadsBack, SizesAssumption DEF CpuSets
    <2> QED BY <2>1, <2>2 DEF RowTrue, ReadsBack
  <1> QED BY <1>1, <1>2, <1>3, Invariance, PTL DEF Spec

=============================================================================
