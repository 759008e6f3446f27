-------------------------- MODULE TaskClientProofs --------------------------
(***************************************************************************)
(* What a dabba command prints is true of the daemon, and the filters of   *)
(* its captures are safe, for any number of ids, files and other clients   *)
(* and however often the daemon ends and starts.                           *)
(***************************************************************************)
EXTENDS TaskClient, SequenceTheorems, TLAPS

-----------------------------------------------------------------------------
(* What ldab_sock_filter_is_valid() guarantees of every program, whatever   *)
(* its length and the widths of its fields.                                *)

(* The instructions of a program and its length are what Seq says. *)
LEMMA Instructions ==
    ASSUME NEW prog \in Seq(Native), NEW n \in 1..Len(prog)
    PROVE  /\ Len(prog) \in Nat
           /\ n \in Nat \ {0}
           /\ prog[n] \in Native
           /\ prog[n].k \in Nat
           /\ prog[n].jt \in Nat
           /\ prog[n].jf \in Nat
  <1>1. Len(prog) \in Nat /\ prog[n] \in Native
    BY LenProperties, ElementOfSeq
  <1>2. n \in Nat \ {0}
    BY <1>1
  <1>3. /\ prog[n].k \in 0..(Word - 1)
        /\ prog[n].jt \in 0..(Byte - 1)
        /\ prog[n].jf \in 0..(Byte - 1)
    BY <1>1 DEF Native
  <1>4. prog[n].k \in Nat /\ prog[n].jt \in Nat /\ prog[n].jf \in Nat
    BY <1>3, WidthsAssumption
  <1> QED BY <1>1, <1>2, <1>4

(* A number below the width of its field is stored as it is. *)
LEMMA Remainder ==
    ASSUME NEW w \in Nat \ {0}, NEW a \in 0..(w - 1)
    PROVE  a % w = a
  OBVIOUS

(* A sum of indices that wraps is still an index. *)
LEMMA Wrapped ==
    ASSUME NEW a \in Nat
    PROVE  a % Word \in Nat /\ (a < Word => a % Word = a)
  BY WidthsAssumption

(* The last instruction of a valid program is a return, so one that is not *)
(* has another one behind it.                                              *)
LEMMA NotLast ==
    ASSUME NEW prog \in Seq(Native), IsValid(prog), NEW n \in 1..Len(prog),
           ClassOf(prog[n].code) # RET
    PROVE  n + 1 \in 1..Len(prog)
  <1>1. Len(prog) \in Nat /\ ClassOf(prog[Len(prog)].code) = RET
    BY LenProperties DEF IsValid
  <1>2. n # Len(prog)
    BY <1>1
  <1> QED BY <1>1, <1>2

(***************************************************************************)
(* A filter that dabbad accepts never leaves its program: every jump has   *)
(* its target inside, also one that wraps, and the last instruction is a   *)
(* return (libdabba/sock-filter.c:86-140).                                 *)
(***************************************************************************)
THEOREM ValidStaysInside ==
    ASSUME NEW prog \in Seq(Native), IsValid(prog)
    PROVE  StaysInside(prog)
  <1> SUFFICES ASSUME NEW n \in 1..Len(prog)
               PROVE  After(prog, n) \subseteq 1..Len(prog)
    BY DEF StaysInside
  <1>1. /\ Len(prog) \in Nat
        /\ n \in Nat
        /\ prog[n].k \in Nat
        /\ prog[n].jt \in Nat
        /\ prog[n].jf \in Nat
    BY Instructions
  <1>2. CASE ClassOf(prog[n].code) = RET
    BY <1>2 DEF After
  <1>3. CASE ClassOf(prog[n].code) \notin {RET, JMP}
    <2>1. After(prog, n) = {n + 1}
      BY <1>3 DEF After
    <2> QED BY <1>3, <2>1, NotLast
  <1>4. CASE ClassOf(prog[n].code) = JMP
    <2>1. ValidJump(prog[n], n, Len(prog))
      BY <1>4 DEF IsValid, ValidInstruction
    <2>2. ClassOf(prog[n].code) # RET
      BY <1>4 DEF JMP, RET
    <2>3. CASE OpOf(prog[n].code) = JA
      <3>1. After(prog, n) = {((n + prog[n].k) % Word) + 1}
        BY <1>4, <2>2, <2>3 DEF After
      <3>2. (n + prog[n].k) % Word < Len(prog)
        BY <2>1, <2>3 DEF ValidJump, JA
      <3>3. (n + prog[n].k) % Word \in Nat
        BY <1>1, Wrapped
      <3> QED BY <1>1, <3>1, <3>2, <3>3
    <2>4. CASE OpOf(prog[n].code) # JA
      <3>1. After(prog, n) = {n + prog[n].jt + 1, n + prog[n].jf + 1}
        BY <1>4, <2>2, <2>4 DEF After
      <3>2. n + prog[n].jt < Len(prog) /\ n + prog[n].jf < Len(prog)
        BY <2>1, <2>4 DEF ValidJump
      <3> QED BY <1>1, <3>1, <3>2
    <2> QED BY <2>3, <2>4
  <1> QED BY <1>2, <1>3, <1>4

(***************************************************************************)
(* An accepted filter goes forward only, and so returns, provided that no  *)
(* unconditional jump wraps around 2^32.  The proviso is needed: the test  *)
(* of line 116 adds k to a uint32_t, and 2^32 - 1 makes it a jump back.    *)
(***************************************************************************)
THEOREM ValidGoesForward ==
    ASSUME NEW prog \in Seq(Native), IsValid(prog), NoWrap(prog)
    PROVE  GoesForward(prog)
  <1> SUFFICES ASSUME NEW n \in 1..Len(prog), NEW m \in After(prog, n)
               PROVE  m > n
    BY DEF GoesForward
  <1>1. /\ n \in Nat
        /\ prog[n].k \in Nat
        /\ prog[n].jt \in Nat
        /\ prog[n].jf \in Nat
    BY Instructions
  <1>2. (n + prog[n].k) % Word = n + prog[n].k
    <2>1. n + prog[n].k < Word
      BY DEF NoWrap
    <2>2. n + prog[n].k \in Nat
      BY <1>1
    <2> QED BY <2>1, <2>2, Wrapped
  <1>3. m \in {n + 1, n + prog[n].k + 1, n + prog[n].jt + 1, n + prog[n].jf + 1}
    BY <1>2 DEF After
  <1> QED BY <1>1, <1>3

(***************************************************************************)
(* An accepted filter addresses its scratch memory inside its bounds and   *)
(* divides by no constant zero (libdabba/sock-filter.c:33-85).             *)
(***************************************************************************)
THEOREM ValidOperandsFit ==
    ASSUME NEW prog \in Seq(Native), IsValid(prog)
    PROVE  OperandsFit(prog)
  <1> SUFFICES ASSUME NEW n \in 1..Len(prog)
               PROVE  /\ UsesMemory(prog[n]) => prog[n].k < MemWords
                      /\ ClassOf(prog[n].code) = ALU /\ OpOf(prog[n].code) = DIV
                            /\ prog[n].k = 0
                            => ~ByConstant(prog[n].code)
    BY DEF OperandsFit
  <1>1. ValidInstruction(prog[n], n, Len(prog))
    BY DEF IsValid
  <1>2. UsesMemory(prog[n]) => prog[n].k < MemWords
    BY <1>1 DEF ValidInstruction, UsesMemory, ValidLoad, ValidStore
  <1>3. ClassOf(prog[n].code) = ALU /\ OpOf(prog[n].code) = DIV /\ prog[n].k = 0
           => ~ByConstant(prog[n].code)
    BY <1>1 DEF ValidInstruction, ValidAlu
  <1> QED BY <1>2, <1>3

(***************************************************************************)
(* A filter whose fields fit those of a sock_fprog reaches the kernel as   *)
(* it was written, and is listed as it was written                         *)
(* (dabbad/sock-filter.c:62-135).                                          *)
(***************************************************************************)
THEOREM ConversionKeeps ==
    ASSUME NEW prog, Fits(prog)
    PROVE  ToNative(prog) = prog /\ ToWire(ToNative(prog)) = prog
  <1>1. prog \in Seq(Native) /\ Len(prog) \in Nat /\ Len(prog) < Short
    BY LenProperties DEF Fits
  <1>2. Len(prog) % Short = Len(prog)
    BY <1>1, WidthsAssumption
  <1>3. ASSUME NEW n \in 1..Len(prog)
        PROVE  /\ [code |-> prog[n].code % Short, jt |-> prog[n].jt % Byte,
                   jf |-> prog[n].jf % Byte, k |-> prog[n].k] = prog[n]
               /\ [code |-> prog[n].code, jt |-> prog[n].jt,
                   jf |-> prog[n].jf, k |-> prog[n].k] = prog[n]
    <2>1. prog[n] \in Native
      BY <1>1, Instructions
    <2>2. /\ prog[n].code % Short = prog[n].code
          /\ prog[n].jt % Byte = prog[n].jt
          /\ prog[n].jf % Byte = prog[n].jf
      <3>1. /\ prog[n].code \in 0..(Short - 1)
            /\ prog[n].jt \in 0..(Byte - 1)
            /\ prog[n].jf \in 0..(Byte - 1)
        BY <2>1 DEF Native
      <3> QED BY <3>1, Remainder, WidthsAssumption
    <2> QED BY <2>1, <2>2 DEF Native
  <1>4. prog = [n \in 1..Len(prog) |-> prog[n]]
    BY <1>1, LenProperties
  <1>5. ToNative(prog) = prog
    BY <1>2, <1>3, <1>4 DEF ToNative
  <1>6. ToWire(prog) = prog
    BY <1>3, <1>4 DEF ToWire
  <1> QED BY <1>5, <1>6

-----------------------------------------------------------------------------
(* The filter of a request *)

(* A number that is cut fits. *)
LEMMA CutFits ==
    ASSUME NEW w \in Nat \ {0}, NEW a \in Nat
    PROVE  a % w \in 0..(w - 1)
  OBVIOUS

(* What a message carries is stored in the fields of a sock_fprog. *)
LEMMA NativeType ==
    ASSUME NEW prog \in Seq(Wire)
    PROVE  ToNative(prog) \in Seq(Native)
  <1>1. Len(prog) \in Nat /\ \A n \in 1..Len(prog) : prog[n] \in Wire
    BY LenProperties, ElementOfSeq
  <1>2. Len(prog) % Short \in Nat /\ Len(prog) % Short <= Len(prog)
    BY <1>1, WidthsAssumption
  <1> DEFINE len == Len(prog) % Short
             ins(n) == [code |-> prog[n].code % Short, jt |-> prog[n].jt % Byte,
                        jf |-> prog[n].jf % Byte, k |-> prog[n].k]
  <1>3. ASSUME NEW n \in 1..len PROVE ins(n) \in Native
    <2>1. prog[n] \in Wire
      BY <1>1, <1>2
    <2>2. /\ prog[n].code \in Nat
          /\ prog[n].jt \in Nat
          /\ prog[n].jf \in Nat
          /\ prog[n].k \in 0..(Word - 1)
      BY <2>1, WidthsAssumption DEF Wire
    <2>3. /\ prog[n].code % Short \in 0..(Short - 1)
          /\ prog[n].jt % Byte \in 0..(Byte - 1)
          /\ prog[n].jf % Byte \in 0..(Byte - 1)
      <3>1. Short \in Nat \ {0} /\ Byte \in Nat \ {0}
        BY WidthsAssumption
      <3> QED BY <2>2, <3>1, CutFits
    <2> QED BY <2>2, <2>3 DEF Native
  <1>4. [n \in 1..len |-> ins(n)] \in [1..len -> Native]
    BY <1>3
  <1>5. len \in Nat
    BY <1>2
  <1>6. ToNative(prog) = [n \in 1..len |-> ins(n)]
    BY DEF ToNative
  <1> HIDE DEF len, ins
  <1> QED BY <1>4, <1>5, <1>6, IsASeq

(* Without a program nothing is attached. *)
LEMMA NoProgram == ToNative(<<>>) = <<>>
  <1>1. Len(<<>>) % Short = 0
    BY WidthsAssumption
  <1>2. 1..(Len(<<>>) % Short) = {}
    BY <1>1
  <1> QED BY <1>2 DEF ToNative

(* What was attached stays inside the program and the scratch memory. *)
LEMMA AttachedIsSafe ==
    ASSUME NEW file \in Files, Readable(file), Attachable(file)
    PROVE  /\ ToNative(Parsed(file)) \in Seq(Native)
           /\ StaysInside(ToNative(Parsed(file)))
           /\ OperandsFit(ToNative(Parsed(file)))
  <1>1. Parsed(file) \in Seq(Wire)
    BY FilesAssumption
  <1>2. ToNative(Parsed(file)) \in Seq(Native)
    BY <1>1, NativeType
  <1>3. CASE Parsed(file) = <<>>
    <2>1. ToNative(Parsed(file)) = <<>>
      BY <1>3, NoProgram
    <2>2. 1..Len(<<>>) = {}
      OBVIOUS
    <2>3. StaysInside(<<>>)
      BY <2>2 DEF StaysInside
    <2>4. OperandsFit(<<>>)
      BY <2>2 DEF OperandsFit
    <2> QED BY <1>2, <2>1, <2>3, <2>4
  <1>4. CASE Parsed(file) # <<>>
    <2>1. IsValid(ToNative(Parsed(file)))
      BY <1>4 DEF Attachable
    <2> QED BY <1>2, <2>1, ValidStaysInside, ValidOperandsFit
  <1> QED BY <1>3, <1>4

-----------------------------------------------------------------------------
(* The invariant, by what it is about. *)

(* A task is known by its id, which no other running task has. *)
IdsUnique == \A e, f \in tasks : e.id = f.id => e = f

(* The filter of a task is the one of the file it was given. *)
FromFile(i) ==
    /\ Readable(given[i])
    /\ Attachable(given[i])
    /\ filter[i] = ToNative(Parsed(given[i]))
FiltersFromFiles == \A e \in tasks : FromFile(e.id)

DaemonInv ==
    /\ tasks \in SUBSET Entry
    /\ filter \in [Ids -> Seq(Native)]
    /\ given \in [Ids -> Files]
    /\ IdsUnique
    /\ FiltersFromFiles

(* A command that runs is one that was read, and what it will print agrees *)
(* with what the daemon has done for it.                                   *)
CommandInv ==
    /\ phase \in Phases
    /\ phase # "shell" => cmd \in Command /\ Readable(cmd.file)
    /\ phase \in {"connect", "wait"} => effect = "none"
    /\ phase = "reply" /\ code = "OK" => effect = "done"
    /\ phase = "reply" /\ code = "error" => effect = "refused"
    /\ ZeroMeansDone

(* What the user has read is still there, or known to be gone. *)
ObserverInv ==
    /\ list \in SUBSET Entry
    /\ held \in Entry \cup {None}
    /\ alive \in BOOLEAN
    /\ alive => held \in tasks
    /\ kept \subseteq tasks

(* A task runs for the command only if its start was answered with 0, or   *)
(* the connection broke on the way.                                        *)
StrayInv ==
    /\ own \subseteq tasks
    /\ broken \in BOOLEAN
    /\ phase \in {"connect", "wait"} => own = {}
    /\ phase = "reply" /\ code # "OK" => own = {}
    /\ phase = "lost" /\ ~broken => own = {}
    /\ NoStrayTask

IndInv == DaemonInv /\ CommandInv /\ ObserverInv /\ StrayInv

-----------------------------------------------------------------------------
(* Commands *)

(* What the fields of a command may hold. *)
LEMMA CommandFields ==
    ASSUME NEW c \in Command
    PROVE  /\ c.rpc \in {"start", "stop", "stop_all", "get"}
           /\ c.rpc # "get" => c.kind \in Kinds
           /\ c.file \in Files
  BY FilesAssumption
     DEF Command, CaptureStart, CaptureStop, CaptureStopAll, CaptureGet,
         ReplayStart, ReplayStop, ReplayStopAll, ReplayGet, ThreadGet, Kinds

-----------------------------------------------------------------------------
(* Requests on the table *)

(* A task that has started has an id of its own and the filter of its file. *)
LEMMA StartKeeps ==
    ASSUME DaemonInv, NEW kind \in Kinds, NEW file \in Files, Readable(file),
           NEW c, Start(kind, file, c)
    PROVE  DaemonInv'
  <1>1. CASE Table!Refused(kind, c) /\ UNCHANGED <<filter, given>>
    BY <1>1 DEF DaemonInv, IdsUnique, FiltersFromFiles, FromFile, Table!Refused
  <1>2. ASSUME Attachable(file), NEW i \in Ids, Table!Added(kind, i),
               filter' = [filter EXCEPT ![i] = ToNative(Parsed(file))],
               given' = [given EXCEPT ![i] = file]
        PROVE  DaemonInv'
    <2> DEFINE new == [kind |-> kind, id |-> i]
    <2>1. /\ \A e \in tasks : e.id # i
          /\ tasks' = tasks \cup {new}
      BY <1>2 DEF Table!Added
    <2>2. new \in Entry /\ new.id = i
      BY DEF Entry
    <2>3. ToNative(Parsed(file)) \in Seq(Native)
      BY <1>2, AttachedIsSafe
    <2>4. /\ filter' \in [Ids -> Seq(Native)]
          /\ given' \in [Ids -> Files]
      BY <1>2, <2>3 DEF DaemonInv
    <2>5. tasks' \in SUBSET Entry
      BY <2>1, <2>2 DEF DaemonInv
    <2>6. IdsUnique'
      BY <2>1, <2>2 DEF DaemonInv, IdsUnique
    <2>7. ASSUME NEW e \in tasks' PROVE FromFile(e.id)'
      <3>1. CASE e = new
        <4>1. given'[i] = file /\ filter'[i] = ToNative(Parsed(file))
          BY <1>2 DEF DaemonInv
        <4> QED BY <1>2, <2>2, <3>1, <4>1 DEF FromFile
      <3>2. CASE e \in tasks
        <4>1. e.id \in Ids /\ e.id # i
          BY <2>1, <3>2 DEF DaemonInv, Entry
        <4>2. given'[e.id] = given[e.id] /\ filter'[e.id] = filter[e.id]
          BY <1>2, <4>1 DEF DaemonInv
        <4>3. FromFile(e.id)
          BY <3>2 DEF DaemonInv, FiltersFromFiles
        <4> QED BY <4>2, <4>3 DEF FromFile
      <3> QED BY <2>1, <3>1, <3>2
    <2> QED BY <2>4, <2>5, <2>6, <2>7 DEF DaemonInv, FiltersFromFiles
  <1> QED BY <1>1, <1>2 DEF Start

(* The tasks that go take their filters with them, and no other's. *)
LEMMA EndKeeps ==
    ASSUME DaemonInv, tasks' \subseteq tasks,
           NEW gone, Forget(gone), \A e \in tasks' : e.id \notin gone
    PROVE  DaemonInv'
  <1>1. filter' \in [Ids -> Seq(Native)] /\ given' \in [Ids -> Files]
    <2>1. <<>> \in Seq(Native) /\ <<>> \in Files
      BY FilesAssumption, EmptySeq
    <2> QED BY <2>1 DEF DaemonInv, Forget
  <1>2. tasks' \in SUBSET Entry /\ IdsUnique'
    BY DEF DaemonInv, IdsUnique
  <1>3. ASSUME NEW e \in tasks' PROVE FromFile(e.id)'
    <2>1. e.id \in Ids /\ FromFile(e.id)
      BY DEF DaemonInv, FiltersFromFiles, Entry
    <2>2. given'[e.id] = given[e.id] /\ filter'[e.id] = filter[e.id]
      BY <2>1 DEF Forget
    <2> QED BY <2>1, <2>2 DEF FromFile
  <1> QED BY <1>1, <1>2, <1>3 DEF DaemonInv, FiltersFromFiles

(* A task that stays shares its id with none that goes. *)
LEMMA OthersStay ==
    ASSUME DaemonInv, tasks' \subseteq tasks,
           Forget({e.id : e \in tasks \ tasks'})
    PROVE  DaemonInv'
  <1>1. \A e \in tasks' : e.id \notin {f.id : f \in tasks \ tasks'}
    BY DEF DaemonInv, IdsUnique
  <1> QED BY <1>1, EndKeeps

(* Every request of any client keeps the table and its filters sound. *)
LEMMA StopKeeps ==
    ASSUME DaemonInv, NEW kind, NEW i, NEW c, Stop(kind, i, c)
    PROVE  DaemonInv'
  BY OthersStay DEF Stop, Table!Removed

LEMMA StopAllKeeps ==
    ASSUME DaemonInv, NEW kind, StopAll(kind)
    PROVE  DaemonInv'
  BY OthersStay DEF StopAll, Table!Cleared

LEMMA ServeTaskKeeps ==
    ASSUME IndInv, phase = "wait", ServeTask
    PROVE  DaemonInv'
  <1>1. DaemonInv /\ cmd \in Command /\ Readable(cmd.file)
    BY DEF IndInv, CommandInv
  <1>2. PICK c \in {"OK", "error"} :
           \/ cmd.rpc = "start" /\ Start(cmd.kind, cmd.file, c)
           \/ cmd.rpc = "stop" /\ Stop(cmd.kind, cmd.id, c)
           \/ cmd.rpc = "stop_all" /\ c = "OK" /\ StopAll(cmd.kind)
    BY DEF ServeTask
  <1>3. CASE cmd.rpc = "start" /\ Start(cmd.kind, cmd.file, c)
    <2>1. cmd.kind \in Kinds /\ cmd.file \in Files
      BY <1>1, <1>3, CommandFields
    <2> QED BY <1>1, <1>3, <2>1, StartKeeps
  <1>4. CASE Stop(cmd.kind, cmd.id, c)
    BY <1>1, <1>4, StopKeeps
  <1>5. CASE StopAll(cmd.kind)
    BY <1>1, <1>5, StopAllKeeps
  <1> QED BY <1>2, <1>3, <1>4, <1>5

LEMMA ServeOtherKeeps ==
    ASSUME DaemonInv, ServeOther
    PROVE  DaemonInv'
  <1>1. PICK kind \in Kinds, c \in {"OK", "error"} :
           \/ \E file \in {f \in Files : Readable(f)} : Start(kind, file, c)
           \/ \E i \in Ids : Stop(kind, i, c)
           \/ StopAll(kind)
    BY DEF ServeOther
  <1>2. CASE \E file \in {f \in Files : Readable(f)} : Start(kind, file, c)
    BY <1>2, StartKeeps
  <1>3. CASE \E i \in Ids : Stop(kind, i, c)
    BY <1>3, StopKeeps
  <1>4. CASE StopAll(kind)
    BY <1>4, StopAllKeeps
  <1> QED BY <1>1, <1>2, <1>3, <1>4

-----------------------------------------------------------------------------
(* Every step keeps the invariant, part by part. *)

LEMMA DaemonKept ==
    ASSUME IndInv, Next
    PROVE  DaemonInv'
  <1>1. ASSUME UNCHANGED <<tasks, filter, given>> PROVE DaemonInv'
    BY <1>1 DEF IndInv, DaemonInv, IdsUnique, FiltersFromFiles, FromFile
  <1>2. ASSUME NEW c \in Command, Type(c) PROVE DaemonInv'
    BY <1>1, <1>2 DEF Type, daemon
  <1>3. CASE Dispatch
    BY <1>1, <1>3 DEF Dispatch, daemon
  <1>4. CASE Serve
    <2>1. CASE ServeTask
      BY <1>4, <2>1, ServeTaskKeeps DEF Serve
    <2>2. CASE ServeGet
      BY <1>1, <2>2 DEF ServeGet
    <2> QED BY <1>4, <2>1, <2>2 DEF Serve
  <1>5. CASE ServeOther
    BY <1>5, ServeOtherKeeps DEF IndInv
  <1>6. CASE DaemonEnds
    <2>1. tasks' = {} /\ Forget(Ids)
      BY <1>6 DEF DaemonEnds
    <2> QED BY <2>1, EndKeeps DEF IndInv
  <1>7. CASE DaemonStarts
    BY <1>1, <1>7 DEF DaemonStarts
  <1>8. CASE Display
    BY <1>1, <1>8 DEF Display, daemon
  <1>9. CASE DisplayLost
    BY <1>1, <1>9 DEF DisplayLost, daemon
  <1>10. CASE Hangs
    BY <1>1, <1>10 DEF Hangs
  <1>11. CASE ConnectionBreaks
    BY <1>1, <1>11 DEF ConnectionBreaks, daemon
  <1> QED BY <1>2, <1>3, <1>4, <1>5, <1>6, <1>7, <1>8, <1>9, <1>10, <1>11 DEF Next

LEMMA CommandKept ==
    ASSUME IndInv, Next
    PROVE  CommandInv'
  <1> USE NoneAssumption DEF CommandInv, ZeroMeansDone, Phases
  <1>1. CommandInv
    BY DEF IndInv
  <1>2. ASSUME NEW c \in Command, Type(c) PROVE CommandInv'
    BY <1>1, <1>2 DEF Type, Rejected, WildWrite
  <1>3. CASE Dispatch
    BY <1>1, <1>3 DEF Dispatch, Ends, Sends
  <1>4. CASE Serve
    <2>1. CASE ServeTask
      <3>1. PICK c \in {"OK", "error"} : Answered(c, {}, Outcome(c))
        BY <2>1 DEF ServeTask
      <3>2. phase' = "reply" /\ code' = c /\ effect' = Outcome(c)
        BY <3>1 DEF Answered
      <3>3. cmd' = cmd /\ phase = "wait"
        BY <1>4 DEF Serve
      <3> QED BY <1>1, <3>2, <3>3 DEF Outcome
    <2>2. CASE ServeGet
      BY <1>1, <1>4, <2>2 DEF Serve, ServeGet, Answered
    <2> QED BY <1>4, <2>1, <2>2 DEF Serve
  <1>5. CASE ServeOther
    BY <1>1, <1>5 DEF ServeOther, command
  <1>6. CASE DaemonEnds
    BY <1>1, <1>6 DEF DaemonEnds
  <1>7. CASE DaemonStarts
    BY <1>1, <1>7 DEF DaemonStarts, command
  <1>8. CASE Display
    <2>1. /\ phase = "reply"
          /\ phase' = "shell"
          /\ exit' = "0"
          /\ UNCHANGED <<code, effect>>
      BY <1>8 DEF Display, Ends
    <2> QED BY <1>1, <2>1
  <1>9. CASE DisplayLost
    BY <1>1, <1>9 DEF DisplayLost, Ends
  <1>10. CASE Hangs
    BY <1>1, <1>10 DEF Hangs, command
  <1>11. CASE ConnectionBreaks
    BY <1>1, <1>11 DEF ConnectionBreaks
  <1> QED BY <1>2, <1>3, <1>4, <1>5, <1>6, <1>7, <1>8, <1>9, <1>10, <1>11 DEF Next

(* What Observed keeps, for a step of the daemon that is no answer. *)
LEMMA ObservedKeeps ==
    ASSUME ObserverInv, Observed, UNCHANGED <<list, held>>,
           ~(phase = "wait" /\ phase' = "reply")
    PROVE  ObserverInv'
  BY DEF ObserverInv, Observed

LEMMA ObserverKept ==
    ASSUME IndInv, Next
    PROVE  ObserverInv'
  <1>1. ObserverInv /\ phase \in Phases
    BY DEF IndInv, CommandInv
  <1>2. ASSUME NEW c \in Command, Type(c) PROVE ObserverInv'
    BY <1>1, <1>2 DEF Type, ObserverInv, daemon
  <1>3. CASE Dispatch
    BY <1>1, <1>3 DEF Dispatch, Ends, Sends, ObserverInv, daemon
  <1>4. CASE Serve
    <2>1. phase = "wait" /\ phase' = "reply" /\ held' = held /\ Observed
      BY <1>4 DEF Serve, ServeTask, ServeGet, Answered
    <2>2. list' = {} \/ (list' = Shown(cmd.kind) /\ tasks' = tasks)
      BY <1>4 DEF Serve, ServeTask, ServeGet, Answered
    <2>3. list' \in SUBSET Entry /\ list' \subseteq tasks'
      BY <2>2 DEF Shown, IndInv, DaemonInv
    <2>4. kept' = list' /\ (alive' <=> alive /\ held \in tasks') /\ alive' \in BOOLEAN
      BY <2>1 DEF Observed
    <2> QED BY <1>1, <2>1, <2>3, <2>4 DEF ObserverInv
  <1>5. CASE ServeOther
    BY <1>1, <1>5, ObservedKeeps DEF ServeOther, command
  <1>6. CASE DaemonEnds
    BY <1>1, <1>6, ObservedKeeps DEF DaemonEnds
  <1>7. CASE DaemonStarts
    BY <1>1, <1>7 DEF DaemonStarts, ObserverInv, command, history
  <1>8. CASE Display
    <2>1. CASE list = {}
      BY <1>1, <1>8, <2>1 DEF Display, Ends, ObserverInv, daemon
    <2>2. CASE list # {}
      <3>1. PICK e \in list : held' = e /\ alive' = (e \in kept)
        BY <1>8, <2>2 DEF Display
      <3>2. UNCHANGED tasks /\ list' = {} /\ kept' = {}
        BY <1>8 DEF Display, Ends, daemon
      <3>3. held' \in Entry
        BY <1>1, <3>1 DEF ObserverInv
      <3>4. alive' \in BOOLEAN /\ (alive' => held' \in tasks')
        <4>1. kept \subseteq tasks
          BY <1>1 DEF ObserverInv
        <4>2. alive' <=> e \in kept
          BY <3>1
        <4>3. alive' \in BOOLEAN
          BY <3>1
        <4>4. alive' => held' \in tasks'
          BY <3>1, <3>2, <4>1, <4>2
        <4> QED BY <4>3, <4>4
      <3> QED BY <3>2, <3>3, <3>4 DEF ObserverInv
    <2> QED BY <2>1, <2>2
  <1>9. CASE DisplayLost
    BY <1>1, <1>9 DEF DisplayLost, Ends, ObserverInv, daemon
  <1>10. CASE Hangs
    BY <1>1, <1>10 DEF Hangs, ObserverInv, command, history
  <1>11. CASE ConnectionBreaks
    BY <1>1, <1>11 DEF ConnectionBreaks, ObserverInv, daemon
  <1> QED BY <1>2, <1>3, <1>4, <1>5, <1>6, <1>7, <1>8, <1>9, <1>10, <1>11 DEF Next

(* An answer other than 0 leaves the table without a new task. *)
LEMMA NothingStarted ==
    ASSUME Serve, code' # "OK"
    PROVE  tasks' \subseteq tasks
  <1>1. CASE ServeGet
    BY <1>1 DEF ServeGet
  <1>2. CASE ServeTask
    <2>1. PICK c \in {"OK", "error"} :
             /\ \/ cmd.rpc = "start" /\ Start(cmd.kind, cmd.file, c)
                \/ cmd.rpc = "stop" /\ Stop(cmd.kind, cmd.id, c)
                \/ cmd.rpc = "stop_all" /\ c = "OK" /\ StopAll(cmd.kind)
             /\ Answered(c, {}, Outcome(c))
      BY <1>2 DEF ServeTask
    <2>2. c # "OK"
      BY <2>1 DEF Answered
    <2>3. CASE Start(cmd.kind, cmd.file, c)
      BY <2>2, <2>3 DEF Start, Table!Refused
    <2>4. CASE Stop(cmd.kind, cmd.id, c)
      BY <2>4 DEF Stop, Table!Removed
    <2> QED BY <2>1, <2>2, <2>3, <2>4
  <1> QED BY <1>1, <1>2 DEF Serve

(* Whatever ends a command, a task of its own runs on only behind a 0 or a *)
(* broken connection.                                                      *)
LEMMA StrayKept ==
    ASSUME IndInv, Next
    PROVE  StrayInv'
  <1> USE DEF StrayInv, NoStrayTask
  <1>1. StrayInv /\ phase \in Phases
    BY DEF IndInv, CommandInv
  <1>2. ASSUME NEW c \in Command, Type(c) PROVE StrayInv'
    <2>1. own' = {} /\ broken' = FALSE
      BY <1>2 DEF Type
    <2> QED BY <2>1
  <1>3. CASE Dispatch
    <2>1. /\ phase = "connect" /\ phase' \in {"connect", "wait", "shell"}
          /\ UNCHANGED <<tasks, own, broken>>
      BY <1>3 DEF Dispatch, Ends, Sends, daemon
    <2> QED BY <1>1, <2>1
  <1>4. CASE Serve
    <2>1. /\ phase' = "reply" /\ broken' = broken
          /\ own' = tasks' \ tasks
      BY <1>4 DEF Serve, ServeTask, ServeGet, Answered, Observed
    <2>2. code' # "OK" => own' = {}
      BY <1>4, <2>1, NothingStarted
    <2> QED BY <1>1, <2>1, <2>2
  <1>5. CASE ServeOther
    <2>1. UNCHANGED <<phase, code, broken>> /\ own' = own \cap tasks'
      BY <1>5 DEF ServeOther, command, Observed
    <2> QED BY <1>1, <2>1
  <1>6. CASE DaemonEnds
    <2>1. /\ tasks' = {} /\ broken' = broken
          /\ own' = own \cap tasks'
      BY <1>6 DEF DaemonEnds, Observed
    <2>2. own' = {}
      BY <2>1
    <2> QED BY <1>1, <2>1, <2>2
  <1>7. CASE DaemonStarts
    BY <1>1, <1>7 DEF DaemonStarts, command, history
  <1>8. CASE Display
    <2>1. phase = "reply" /\ phase' = "shell" /\ UNCHANGED <<tasks, code, own, broken>>
      BY <1>8 DEF Display, Ends, daemon
    <2> QED BY <1>1, <2>1
  <1>9. CASE DisplayLost
    <2>1. phase = "lost" /\ phase' = "shell" /\ UNCHANGED <<tasks, own, broken>>
      BY <1>9 DEF DisplayLost, Ends, daemon
    <2> QED BY <1>1, <2>1
  <1>10. CASE Hangs
    BY <1>1, <1>10 DEF Hangs, command, history
  <1>11. CASE ConnectionBreaks
    <2>1. phase' = "lost" /\ broken' = TRUE /\ UNCHANGED <<tasks, own>>
      BY <1>11 DEF ConnectionBreaks, daemon
    <2> QED BY <1>1, <2>1
  <1> QED BY <1>2, <1>3, <1>4, <1>5, <1>6, <1>7, <1>8, <1>9, <1>10, <1>11 DEF Next

-----------------------------------------------------------------------------
(* The results *)

(* Init and every step, other clients' and the daemon's own end included, *)
(* keep the invariant.                                                    *)
THEOREM Invariance == Spec => []IndInv
  <1>1. Init => IndInv
    <2> SUFFICES ASSUME Init PROVE IndInv
      OBVIOUS
    <2>1. filter \in [Ids -> Seq(Native)] /\ given \in [Ids -> Files]
      <3>1. <<>> \in Seq(Native) /\ <<>> \in Files
        BY FilesAssumption, EmptySeq
      <3> QED BY <3>1 DEF Init
    <2>2. DaemonInv
      BY <2>1 DEF Init, DaemonInv, IdsUnique, FiltersFromFiles
    <2>3. CommandInv
      BY NoneAssumption DEF Init, CommandInv, ZeroMeansDone, Phases
    <2>4. ObserverInv /\ StrayInv
      BY DEF Init, ObserverInv, StrayInv, NoStrayTask
    <2> QED BY <2>2, <2>3, <2>4 DEF IndInv
  <1>2. IndInv /\ [Next]_vars => IndInv'
    <2>1. CASE Next /\ IndInv
      BY <2>1, DaemonKept, CommandKept, ObserverKept, StrayKept DEF IndInv
    <2>2. CASE UNCHANGED vars /\ IndInv
      <3>1. /\ UNCHANGED <<tasks, filter, given, phase, cmd, code, list, exit>>
            /\ UNCHANGED <<held, effect, alive, kept, own, broken>>
        BY <2>2 DEF vars, daemon, command, history
      <3>2. DaemonInv'
        BY <2>2, <3>1 DEF IndInv, DaemonInv, IdsUnique, FiltersFromFiles, FromFile
      <3>3. CommandInv'
        BY <2>2, <3>1 DEF IndInv, CommandInv, ZeroMeansDone
      <3>4. ObserverInv'
        BY <2>2, <3>1 DEF IndInv, ObserverInv
      <3>5. StrayInv'
        BY <2>2, <3>1 DEF IndInv, StrayInv, NoStrayTask
      <3> QED BY <3>2, <3>3, <3>4, <3>5 DEF IndInv
    <2> QED BY <2>1, <2>2
  <1> QED BY <1>1, <1>2, PTL DEF Spec

(***************************************************************************)
(* A command that prints 0 was carried out, one that prints another code   *)
(* was refused or lost, and one whose connection failed did nothing: also  *)
(* when dabbad ends between the request and its reply.                     *)
(***************************************************************************)
THEOREM ZeroIsTrue == Spec => []ZeroMeansDone
  <1>1. IndInv => ZeroMeansDone
    BY DEF IndInv, CommandInv
  <1> QED BY <1>1, Invariance, PTL

(***************************************************************************)
(* The filter of every running capture stays inside its program and its    *)
(* scratch memory, whatever the files hold and whoever sent them: from     *)
(* what ldab_sock_filter_is_valid() guarantees of one program.             *)
(***************************************************************************)
THEOREM FiltersSafe == Spec => []FiltersStayInside
  <1>1. ASSUME IndInv PROVE FiltersStayInside
    <2> SUFFICES ASSUME NEW e \in tasks
                 PROVE  StaysInside(filter[e.id]) /\ OperandsFit(filter[e.id])
      BY DEF FiltersStayInside
    <2>1. e.id \in Ids /\ FromFile(e.id)
      BY <1>1 DEF IndInv, DaemonInv, FiltersFromFiles, Entry
    <2>2. given[e.id] \in Files
      BY <1>1, <2>1 DEF IndInv, DaemonInv
    <2> QED BY <2>1, <2>2, AttachedIsSafe DEF FromFile
  <1> QED BY <1>1, Invariance, PTL

(***************************************************************************)
(* A filter whose fields fit is listed as its file has it, however many    *)
(* tasks have come and gone under the same id.                             *)
(***************************************************************************)
THEOREM FiltersListedAsWritten == Spec => []FilterKept
  <1>1. ASSUME IndInv PROVE FilterKept
    <2> SUFFICES ASSUME NEW e \in tasks, Fits(Parsed(given[e.id]))
                 PROVE  ToWire(filter[e.id]) = Parsed(given[e.id])
      BY DEF FilterKept
    <2>1. filter[e.id] = ToNative(Parsed(given[e.id]))
      BY <1>1 DEF IndInv, DaemonInv, FiltersFromFiles, FromFile
    <2> QED BY <2>1, ConversionKeeps
  <1> QED BY <1>1, Invariance, PTL

(* Only the daemon answers. *)
LEMMA OnlyServeAnswers ==
    ASSUME IndInv, [Next]_vars, phase = "wait", phase' = "reply"
    PROVE  Serve
  <1>1. Next
    BY DEF vars, command
  <1>2. ASSUME NEW c \in Command PROVE ~Type(c)
    BY DEF Type
  <1>3. ~Dispatch /\ ~Display /\ ~DisplayLost
    BY DEF Dispatch, Display, DisplayLost
  <1>4. ~ServeOther /\ ~DaemonStarts /\ ~Hangs
    BY DEF ServeOther, DaemonStarts, Hangs, command
  <1>5. ~DaemonEnds /\ ~ConnectionBreaks
    BY DEF DaemonEnds, ConnectionBreaks
  <1> QED BY <1>1, <1>2, <1>3, <1>4, <1>5 DEF Next

(***************************************************************************)
(* A start that prints anything but 0 has left no task behind, whatever    *)
(* refused it, wherever the daemon ended, and whatever other clients do    *)
(* meanwhile: unless the connection broke while the daemon went on.        *)
(***************************************************************************)
THEOREM NoStrays == Spec => []NoStrayTask
  <1>1. IndInv => NoStrayTask
    BY DEF IndInv, StrayInv
  <1> QED BY <1>1, Invariance, PTL

(***************************************************************************)
(* The id a list has shown stops that very task as long as no one else has *)
(* stopped it, for any number of ids and reuses of them.                   *)
(***************************************************************************)
THEOREM ListedIdsStop == Spec => ListedIdStops
  <1>1. ASSUME IndInv, [Next]_vars, phase = "wait", phase' = "reply",
               StopsHeld(cmd), alive
        PROVE  code' = "OK" /\ ~alive' /\ tasks' = tasks \ {held}
    <2>1. Serve
      BY <1>1, OnlyServeAnswers
    <2>2. cmd.rpc = "stop" /\ cmd.kind = held.kind /\ cmd.id = held.id
      BY <1>1 DEF StopsHeld
    <2>3. ServeTask
      BY <2>1, <2>2 DEF Serve, ServeGet
    <2>4. PICK c \in {"OK", "error"} : Stop(cmd.kind, cmd.id, c) /\ code' = c
      BY <2>2, <2>3 DEF ServeTask, Answered
    <2>5. held \in tasks /\ held \in Entry
      BY <1>1 DEF IndInv, ObserverInv, DaemonInv
    <2>6. [kind |-> cmd.kind, id |-> cmd.id] = held
      BY <2>2, <2>5 DEF Entry
    <2>7. c = "OK" /\ tasks' = tasks \ {held}
      BY <2>4, <2>5, <2>6 DEF Stop, Table!Removed, Table!Running
    <2>8. ~alive'
      BY <2>1, <2>7 DEF Serve, Observed
    <2> QED BY <2>4, <2>7, <2>8
  <1>2. IndInv /\ [Next]_vars =>
           [phase = "wait" /\ phase' = "reply" /\ StopsHeld(cmd) /\ alive
              => code' = "OK" /\ ~alive' /\ tasks' = tasks \ {held}]_vars
    BY <1>1
  <1> QED BY <1>2, Invariance, PTL DEF Spec, ListedIdStops

-----------------------------------------------------------------------------
(* Types.  Invariance has those that the other results need; these are the *)
(* rest.  The runs of the dispatcher stay below nretry, where they end.    *)
RestTypes ==
    /\ up \in BOOLEAN
    /\ hung \in BOOLEAN
    /\ runs \in 0..(Retries - 1)
    /\ cmd \in Command \cup {None}
    /\ code \in {"OK", "error", "EINVAL", None}
    /\ exit \in {"0", "EINVAL", "usage", "crash", None}
    /\ effect \in {"none", "done", "refused"}

(* The end of dabba leaves no command behind. *)
LEMMA EndsTypes ==
    ASSUME NEW status \in {"0", "EINVAL"}, Ends(status)
    PROVE  /\ runs' \in 0..(Retries - 1)
           /\ cmd' \in Command \cup {None}
           /\ exit' \in {"0", "EINVAL", "usage", "crash", None}
  BY RetriesAssumption DEF Ends

(* Every step of a command, of the daemon and of other clients. *)
LEMMA RestKept ==
    ASSUME RestTypes, [Next]_vars
    PROVE  RestTypes'
  <1> USE DEF RestTypes
  <1>1. ASSUME NEW c \in Command, Type(c) PROVE RestTypes'
    <2>1. UNCHANGED <<up, hung, runs>> /\ code' = None /\ effect' = "none"
      BY <1>1 DEF Type, daemon
    <2>2. CASE /\ Rejected(c) \/ WildWrite(c)
               /\ UNCHANGED <<phase, cmd>>
      BY <2>1, <2>2 DEF Rejected, WildWrite
    <2>3. CASE cmd' = c /\ exit' = None
      BY <2>1, <2>3
    <2> QED BY <1>1, <2>2, <2>3 DEF Type
  <1>2. CASE Dispatch
    <2>1. UNCHANGED <<up, hung, code, effect>>
      BY <1>2 DEF Dispatch, daemon
    <2>2. CASE runs + 1 = Retries
      BY <1>2, <2>1, <2>2, EndsTypes DEF Dispatch
    <2>3. CASE runs + 1 # Retries
      <3>1. UNCHANGED <<cmd, exit>> /\ runs' \in {0, runs + 1}
        BY <1>2, <2>3 DEF Dispatch
      <3>2. runs' \in 0..(Retries - 1)
        BY <2>3, <3>1, RetriesAssumption
      <3> QED BY <2>1, <3>1, <3>2
    <2> QED BY <2>2, <2>3
  <1>3. CASE Serve
    <2>1. UNCHANGED <<up, hung, runs, cmd, exit>>
      BY <1>3 DEF Serve
    <2>2. code' \in {"OK", "error", None} /\ effect' \in {"done", "refused"}
      BY <1>3 DEF Serve, ServeTask, ServeGet, Answered, Outcome
    <2> QED BY <2>1, <2>2
  <1>4. CASE ServeOther
    BY <1>4 DEF ServeOther, command
  <1>5. CASE Hangs
    BY <1>5 DEF Hangs, command
  <1>6. CASE DaemonEnds
    BY <1>6 DEF DaemonEnds
  <1>7. CASE DaemonStarts
    BY <1>7 DEF DaemonStarts, command
  <1>8. CASE ConnectionBreaks
    BY <1>8 DEF ConnectionBreaks, daemon
  <1>9. CASE Display
    <2>1. UNCHANGED <<up, hung, code, effect>> /\ Ends("0")
      BY <1>9 DEF Display, daemon
    <2> QED BY <2>1, EndsTypes
  <1>10. CASE DisplayLost
    <2>1. UNCHANGED <<up, hung, effect>> /\ Ends("0") /\ code' \in {"EINVAL", None}
      BY <1>10 DEF DisplayLost, daemon
    <2> QED BY <2>1, EndsTypes
  <1>11. CASE UNCHANGED vars
    BY <1>11 DEF vars, daemon, command
  <1> QED BY <1>1, <1>2, <1>3, <1>4, <1>5, <1>6, <1>7, <1>8, <1>9, <1>10, <1>11 DEF Next

(***************************************************************************)
(* The table, the command and what is remembered of both keep their types; *)
(* the loop of dabba_rpc_client_connect() never counts past nretry.        *)
(***************************************************************************)
THEOREM TypeCorrect == Spec => []TypeOK
  <1>1. ASSUME Init PROVE RestTypes
    <2>1. up \in BOOLEAN /\ hung \in BOOLEAN
      BY <1>1, Zenon DEF Init
    <2>2. runs \in 0..(Retries - 1)
      BY <1>1, RetriesAssumption DEF Init
    <2> QED BY <1>1, <2>1, <2>2 DEF Init, RestTypes
  <1>2. RestTypes /\ [Next]_vars => RestTypes'
    BY RestKept
  <1>3. IndInv /\ RestTypes => TypeOK
    <2> SUFFICES ASSUME IndInv, RestTypes PROVE TypeOK
      OBVIOUS
    <2>1. kept \in SUBSET Entry /\ own \in SUBSET Entry /\ broken \in BOOLEAN
      BY DEF IndInv, DaemonInv, ObserverInv, StrayInv
    <2>2. runs \in 0..Retries
      BY RetriesAssumption DEF RestTypes
    <2> QED BY <2>1, <2>2 DEF TypeOK, IndInv, DaemonInv, CommandInv, ObserverInv, RestTypes
  <1> QED BY <1>1, <1>2, <1>3, Invariance, PTL DEF Spec
=============================================================================
