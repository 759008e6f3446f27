------------------------ MODULE CaptureTeardownProofs ------------------------
(***************************************************************************)
(* The ring of a capture is the one that was asked for and is given back   *)
(* whole, and the thread of a stopped capture writes nothing, for all      *)
(* frame sizes, frame numbers and word widths.                             *)
(***************************************************************************)
EXTENDS CaptureTeardown, WellFoundedInduction, TLAPS

-----------------------------------------------------------------------------
(* Arithmetic of powers of two.                                            *)

(* Every non-empty set of numbers below a bound has a greatest one. *)
LEMMA GreatestExists ==
    ASSUME NEW w \in Nat, NEW D, D \subseteq 0..w, D # {}
    PROVE  \E d \in D : \A e \in D : e <= d
  <1> DEFINE T == {x \in 0..w : w - x \in D}
             Less == {p \in Nat \X Nat : p[1] < p[2]}
  <1>1. T \subseteq Nat
    OBVIOUS
  <1>2. T # {}
    <2>1. PICK d \in D : d \in 0..w
      OBVIOUS
    <2>2. w - d \in 0..w /\ w - (w - d) = d
      BY <2>1
    <2> QED BY <2>2
  <1>3. IsWellFoundedOn(Less, Nat)
    BY NatLessThanWellFounded DEF OpToRel
  <1>4. PICK x \in T : \A y \in T : ~(<<y, x>> \in Less)
    <2> HIDE DEF T, Less
    <2> QED BY <1>1, <1>2, <1>3, WFMin
  <1>5. x \in Nat /\ x <= w /\ w - x \in D
    OBVIOUS
  <1>6. ASSUME NEW e \in D PROVE e <= w - x
    <2>1. e \in 0..w
      OBVIOUS
    <2>2. w - e \in 0..w /\ w - (w - e) = e
      BY <2>1
    <2>3. w - e \in T
      BY <2>2
    <2>4. ~(w - e < x)
      <3>1. \A y, z \in Nat : y < z => <<y, z>> \in Less
        OBVIOUS
      <3>2. w - e \in Nat
        BY <2>2
      <3> HIDE DEF T, Less
      <3> QED BY <1>4, <1>5, <2>3, <3>1, <3>2
    <2> QED BY <1>5, <2>1, <2>4
  <1> QED BY <1>5, <1>6

(* A product is divided by its factors. *)
LEMMA FactorDivides ==
    ASSUME NEW d \in Nat \ {0}, NEW a \in Nat
    PROVE  (d * a) % d = 0
  OBVIOUS

(* A number that is divided is a product. *)
LEMMA Quotient ==
    ASSUME NEW n \in Nat \ {0}, NEW d \in Nat \ {0}, n % d = 0
    PROVE  \E a \in Nat \ {0} : n = d * a
  <1>1. n = d * (n \div d) + (n % d) /\ n \div d \in Nat
    OBVIOUS
  <1> DEFINE a == n \div d
  <1>2. n = d * a /\ a \in Nat
    BY <1>1
  <1> HIDE DEF a
  <1>3. a # 0
    BY <1>2
  <1> QED BY <1>2, <1>3

(* Of two powers of two the smaller one divides the greater one: let d be  *)
(* their greatest common divisor; if neither is d, both quotients are even *)
(* and 2 * d divides them as well.                                         *)
LEMMA PowersDivide ==
    ASSUME NEW n \in Nat \ {0}, NEW w \in Nat \ {0}, PowerOf2(n), PowerOf2(w), w <= n
    PROVE  n % w = 0
  <1> DEFINE D == {d \in 1..w : n % d = 0 /\ w % d = 0}
  <1>1. 1 \in D /\ D \subseteq 0..w
    OBVIOUS
  <1>2. PICK d \in D : \A e \in D : e <= d
    <2> HIDE DEF D
    <2>1. D # {}
      BY <1>1
    <2> QED BY <1>1, <2>1, GreatestExists
  <1>3. d \in Nat \ {0} /\ d <= w /\ n % d = 0 /\ w % d = 0
    OBVIOUS
  <1>4. PICK a \in Nat \ {0} : n = d * a
    BY <1>3, Quotient
  <1>5. PICK b \in Nat \ {0} : w = d * b
    BY <1>3, Quotient
  <1>6. CASE a % 2 = 0 /\ b % 2 = 0
    <2>1. PICK i \in Nat \ {0} : a = 2 * i
      BY <1>6, Quotient
    <2>2. PICK j \in Nat \ {0} : b = 2 * j
      BY <1>6, Quotient
    <2>3. n = (2 * d) * i /\ w = (2 * d) * j /\ 2 * d \in Nat \ {0}
      BY <1>3, <1>4, <1>5, <2>1, <2>2
    <2>4. n % (2 * d) = 0 /\ w % (2 * d) = 0
      BY <2>3, FactorDivides
    <2>5. 2 * d <= w
      BY <2>3
    <2>6. 2 * d \in D
      BY <2>3, <2>4, <2>5
    <2>7. 2 * d <= d
      <3> HIDE DEF D
      <3> QED BY <1>2, <2>6
    <2> QED BY <1>3, <2>7
  <1>7. CASE a % 2 # 0
    <2>1. n = a * d
      BY <1>3, <1>4
    <2>2. n % a = 0 /\ a <= n
      BY <1>3, <2>1, FactorDivides
    <2>3. a = 1
      <3>1. a \notin 2..n
        BY <1>7, <2>2 DEF PowerOf2
      <3> QED BY <2>2, <3>1
    <2>4. n = w
      BY <1>3, <1>4, <2>3
    <2> QED BY <1>3, <1>4, <2>3, <2>4
  <1>8. CASE b % 2 # 0
    <2>1. w = b * d
      BY <1>3, <1>5
    <2>2. w % b = 0 /\ b <= w
      BY <1>3, <2>1, FactorDivides
    <2>3. b = 1
      <3>1. b \notin 2..w
        BY <1>8, <2>2 DEF PowerOf2
      <3> QED BY <2>2, <3>1
    <2> QED BY <1>3, <1>5, <2>3
  <1> QED BY <1>6, <1>7, <1>8

-----------------------------------------------------------------------------
(* The inductive invariant: what the ring is after each step of the start  *)
(* and of the stop, and what has been tested by then.                      *)

Made(registered, mapped, vec) ==
    [layout |-> Layout(ask.size, ask.nr), registered |-> registered,
     mapped |-> mapped, vec |-> vec]

Mapped == MapSize(Layout(ask.size, ask.nr))
Slots == Vector(Layout(ask.size, ask.nr))

Types ==
    /\ step \in Steps
    /\ ask \in [size : FrameSizes, nr : FrameNrs]
    /\ pc \in Starting => step = 0

Tested ==
    /\ pc \notin {"ask", "refused"} => Creatable(ask.size, ask.nr)
    /\ pc \notin {"ask", "refused", "register"} =>
          KernelTakes(Layout(ask.size, ask.nr))
    /\ pc \notin {"ask", "refused", "register", "mmap"} =>
          Mappable(Layout(ask.size, ask.nr))

RingMade ==
    /\ pc \in {"ask", "refused"} => ring = NoRing
    /\ pc = "register" => ring = Made(FALSE, 0, <<>>)
    /\ pc = "mmap" => ring = Made(TRUE, 0, <<>>)
    /\ pc = "vector" => ring = Made(TRUE, Mapped, <<>>)
    /\ pc \in {"bind", "thread"} => ring = Made(TRUE, Mapped, Slots)

RingUnmade ==
    pc \notin Starting =>
        /\ step < VecFreed => ring = Made(TRUE, Mapped, Slots)
        /\ step = VecFreed => ring = Made(TRUE, Mapped, <<>>)
        /\ step = Unmapped => ring = Made(TRUE, 0, <<>>)
        /\ step >= Zeroed => ring = NoRing

IndInv == Types /\ Tested /\ RingMade /\ RingUnmade

(* ldab_packet_mmap_destroy() leaves nothing of a ring, however far its    *)
(* creation has come.                                                      *)
LEMMA DestroyedWhole ==
    ASSUME NEW l, NEW b \in BOOLEAN, NEW v, NEW m \in {0, MapSize(l)}
    PROVE  Destroyed([layout |-> l, registered |-> b, mapped |-> m, vec |-> v]) = NoRing
  <1> DEFINE r == [layout |-> l, registered |-> b, mapped |-> m, vec |-> <<>>]
  <1>1. VectorDestroyed([layout |-> l, registered |-> b, mapped |-> m, vec |-> v]) = r
    BY DEF VectorDestroyed
  <1>2. Munmapped(r) = [layout |-> l, registered |-> b, mapped |-> 0, vec |-> <<>>]
    BY DEF Munmapped
  <1>3. Unregistered([layout |-> l, registered |-> b, mapped |-> 0, vec |-> <<>>]) = NoRing
    <2> DEFINE q == [layout |-> l, registered |-> b, mapped |-> 0, vec |-> <<>>]
    <2>1. (q.registered /\ q.mapped # 0) = FALSE
      OBVIOUS
    <2>2. Unregistered(q) = [q EXCEPT !.layout = NoLayout, !.registered = FALSE]
      BY <2>1, Zenon DEF Unregistered
    <2> QED BY <2>2 DEF NoRing
  <1> QED BY <1>1, <1>2, <1>3 DEF Destroyed

(* What the invariant says of a ring that is being made: taking it down    *)
(* leaves none.                                                            *)
LEMMA FailureLeavesNone ==
    ASSUME IndInv, pc \in {"register", "mmap", "vector", "bind", "thread"}
    PROVE  Destroyed(ring) = NoRing
  <1>1. \E b \in BOOLEAN, m \in {0, Mapped}, v \in {<<>>, Slots} : ring = Made(b, m, v)
    BY DEF IndInv, RingMade
  <1> QED BY <1>1, DestroyedWhole DEF Made, Mapped

-----------------------------------------------------------------------------
(* There is no ring before the start. *)
LEMMA InitInv == Init => IndInv
  BY DEF Init, IndInv, Types, Tested, RingMade, RingUnmade, Steps, Starting

(* A step of the creation succeeds or takes the ring down. *)
LEMMA CreateInv ==
    ASSUME IndInv,
           Ask \/ Register \/ Map \/ VectorCreate \/ Bind \/ ThreadStart
    PROVE  IndInv'
  <1> USE DEF Starting
  <1>1. UNCHANGED <<step, ask>> /\ pc \in Starting
    BY DEF Ask, Register, Map, VectorCreate, Bind, ThreadStart, CreateStep
  <1>2. step = 0 /\ Types'
    BY <1>1 DEF IndInv, Types
  <1>3. CASE pc' = "refused" /\ ring' = NoRing
    BY <1>2, <1>3 DEF IndInv, Tested, RingMade, RingUnmade
  <1>4. /\ Made(FALSE, 0, <<>>)' = Made(FALSE, 0, <<>>)
        /\ Made(TRUE, 0, <<>>)' = Made(TRUE, 0, <<>>)
        /\ Made(TRUE, Mapped, <<>>)' = Made(TRUE, Mapped, <<>>)
        /\ Made(TRUE, Mapped, Slots)' = Made(TRUE, Mapped, Slots)
        /\ Layout(ask.size, ask.nr)' = Layout(ask.size, ask.nr)
        /\ Creatable(ask.size, ask.nr)' = Creatable(ask.size, ask.nr)
    BY <1>1 DEF Made, Mapped, Slots
  <1>5. CASE Ask
    <2>1. CASE Fails(ring)
      BY <1>3, <1>5, <2>1 DEF Ask, Fails, IndInv, RingMade
    <2>2. CASE /\ Creatable(ask.size, ask.nr)
               /\ Succeeds("register", [ring EXCEPT !.layout = Layout(ask.size, ask.nr)])
      <3>1. ring = NoRing /\ pc' = "register"
            /\ ring' = [ring EXCEPT !.layout = Layout(ask.size, ask.nr)]
        BY <1>5, <2>2 DEF Ask, Succeeds, IndInv, RingMade
      <3>2. ring' = Made(FALSE, 0, <<>>)
        BY <3>1 DEF NoRing, Made
      <3> QED BY <1>2, <1>4, <2>2, <3>1, <3>2 DEF IndInv, Tested, RingMade, RingUnmade
    <2> QED BY <1>5, <2>1, <2>2 DEF Ask
  <1>6. CASE ~Ask
    <2>1. pc \in {"register", "mmap", "vector", "bind", "thread"}
      BY <1>6 DEF Register, Map, VectorCreate, Bind, ThreadStart, CreateStep
    <2>2. CASE Fails(Destroyed(ring))
      BY <1>3, <2>1, <2>2, FailureLeavesNone DEF Fails
    <2>3. CASE ~Fails(Destroyed(ring)) /\ Register
      <3>1. /\ ring' = Made(TRUE, 0, <<>>) /\ pc' = "mmap"
            /\ KernelTakes(Layout(ask.size, ask.nr)) /\ Creatable(ask.size, ask.nr)
        BY <2>3 DEF Register, CreateStep, Succeeds, IndInv, RingMade, Tested, Made
      <3> QED BY <1>2, <1>4, <3>1 DEF IndInv, Tested, RingMade, RingUnmade
    <2>4. CASE ~Fails(Destroyed(ring)) /\ Map
      <3>1. /\ ring' = Made(TRUE, Mapped, <<>>) /\ pc' = "vector"
            /\ Mappable(Layout(ask.size, ask.nr))
        BY <2>4 DEF Map, CreateStep, Succeeds, IndInv, RingMade, Tested, Made, Mapped
      <3>2. KernelTakes(Layout(ask.size, ask.nr)) /\ Creatable(ask.size, ask.nr)
        BY <2>4 DEF Map, CreateStep, IndInv, Tested
      <3> QED BY <1>2, <1>4, <3>1, <3>2 DEF IndInv, Tested, RingMade, RingUnmade
    <2>5. CASE ~Fails(Destroyed(ring)) /\ (VectorCreate \/ Bind \/ ThreadStart)
      <3>1. ring' = Made(TRUE, Mapped, Slots) /\ pc' \in {"bind", "thread", "loop"}
        BY <2>5 DEF VectorCreate, Bind, ThreadStart, CreateStep, Succeeds, IndInv,
                    RingMade, Made, Slots
      <3>2. /\ KernelTakes(Layout(ask.size, ask.nr)) /\ Creatable(ask.size, ask.nr)
            /\ Mappable(Layout(ask.size, ask.nr))
        BY <2>5 DEF VectorCreate, Bind, ThreadStart, CreateStep, IndInv, Tested
      <3>3. step' = 0 /\ 0 < VecFreed /\ 0 # VecFreed /\ 0 # Unmapped /\ ~(0 >= Zeroed)
        BY <1>1, <1>2 DEF VecFreed, Unmapped, Zeroed
      <3>4. RingMade' /\ RingUnmade'
        BY <1>4, <3>1, <3>3 DEF RingMade, RingUnmade
      <3>5. Tested'
        BY <1>4, <3>1, <3>2 DEF Tested
      <3> QED BY <1>2, <3>4, <3>5 DEF IndInv
    <2> QED BY <1>6, <2>2, <2>3, <2>4, <2>5
  <1> QED BY <1>5, <1>6

(* The stop handler gives the ring back from its vector to its memory. *)
LEMMA StopStepInv ==
    ASSUME IndInv, StopStep
    PROVE  IndInv'
  <1>1. /\ UNCHANGED <<pc, ask>> /\ pc \notin Starting
        /\ step' = step + 1 /\ step < Freed /\ step \in 0..7
        /\ ask \in [size : FrameSizes, nr : FrameNrs]
        /\ ring' = RingAfter(step')
    BY DEF StopStep, IndInv, Types, Steps
  <1>2. Types' /\ Tested'
    BY <1>1 DEF IndInv, Types, Tested, Steps, Freed
  <1>3. RingMade'
    BY <1>1 DEF RingMade, Starting
  <1>4. /\ Made(TRUE, Mapped, Slots)' = Made(TRUE, Mapped, Slots)
        /\ Made(TRUE, Mapped, <<>>)' = Made(TRUE, Mapped, <<>>)
        /\ Made(TRUE, 0, <<>>)' = Made(TRUE, 0, <<>>)
    BY <1>1 DEF Made, Mapped, Slots
  <1>5. CASE step < 3
    <2>1. /\ step < VecFreed /\ step' < VecFreed /\ step' # VecFreed /\ step' # Unmapped
          /\ step' # Zeroed /\ ~(step' >= Zeroed)
      BY <1>1, <1>5 DEF VecFreed, Unmapped, Zeroed
    <2>2. ring = Made(TRUE, Mapped, Slots)
      BY <1>1, <2>1, Zenon DEF IndInv, RingUnmade
    <2>3. ring' = ring
      BY <1>1, <2>1, Zenon DEF RingAfter
    <2> QED BY <1>1, <1>2, <1>3, <1>4, <2>1, <2>2, <2>3, Zenon DEF IndInv, RingUnmade
  <1>6. CASE step = 3
    <2>1. /\ step < VecFreed /\ ~(step' < VecFreed) /\ step' = VecFreed /\ step' # Unmapped
          /\ step' # Zeroed /\ ~(step' >= Zeroed)
      BY <1>1, <1>6 DEF VecFreed, Unmapped, Zeroed
    <2>2. ring = Made(TRUE, Mapped, Slots)
      BY <1>1, <2>1, Zenon DEF IndInv, RingUnmade
    <2>3. ring' = VectorDestroyed(ring)
      BY <1>1, <2>1, Zenon DEF RingAfter
    <2>4. ring' = Made(TRUE, Mapped, <<>>)
      BY <2>2, <2>3 DEF VectorDestroyed, Made
    <2> QED BY <1>1, <1>2, <1>3, <1>4, <2>1, <2>4, Zenon DEF IndInv, RingUnmade
  <1>7. CASE step = 4
    <2>1. /\ step = VecFreed /\ ~(step' < VecFreed) /\ step' # VecFreed /\ step' = Unmapped
          /\ step' # Zeroed /\ ~(step' >= Zeroed)
      BY <1>1, <1>7 DEF VecFreed, Unmapped, Zeroed
    <2>2. ring = Made(TRUE, Mapped, <<>>)
      BY <1>1, <2>1, Zenon DEF IndInv, RingUnmade
    <2>3. ring' = Munmapped(ring)
      BY <1>1, <2>1, Zenon DEF RingAfter
    <2>4. ring' = Made(TRUE, 0, <<>>)
      BY <2>2, <2>3 DEF Munmapped, Made, Mapped
    <2> QED BY <1>1, <1>2, <1>3, <1>4, <2>1, <2>4, Zenon DEF IndInv, RingUnmade
  <1>8. CASE step = 5
    <2>1. /\ step = Unmapped /\ ~(step' < VecFreed) /\ step' # VecFreed /\ step' # Unmapped
      BY <1>1, <1>8 DEF VecFreed, Unmapped
    <2>2. ring = Made(TRUE, 0, <<>>)
      BY <1>1, <2>1, Zenon DEF IndInv, RingUnmade
    <2>3. ring' = Unregistered(ring)
      BY <1>1, <1>8 DEF RingAfter, VecFreed, Unmapped, Zeroed
    <2>4. ring' = NoRing
      BY <2>2, <2>3 DEF Unregistered, Made, NoRing
    <2> QED BY <1>1, <1>2, <1>3, <2>1, <2>4, Zenon DEF IndInv, RingUnmade
  <1>9. CASE step = 6
    <2>1. /\ step >= Zeroed /\ ~(step' < VecFreed) /\ step' # VecFreed /\ step' # Unmapped
          /\ step' # Zeroed
      BY <1>1, <1>9 DEF VecFreed, Unmapped, Zeroed
    <2>2. ring = NoRing /\ ring' = ring
      BY <1>1, <2>1, Zenon DEF IndInv, RingUnmade, RingAfter
    <2> QED BY <1>1, <1>2, <1>3, <2>1, <2>2, Zenon DEF IndInv, RingUnmade
  <1> QED BY <1>1, <1>5, <1>6, <1>7, <1>8, <1>9 DEF Freed

(* The thread does not touch the ring itself. *)
LEMMA ThreadInv ==
    ASSUME IndInv, Thread \/ LoopTestFreed
    PROVE  IndInv'
  <1>1. UNCHANGED <<step, ask, ring>> /\ pc \notin Starting /\ pc' \notin Starting
    BY DEF Thread, LoopTestFreed, LoopTest, ReadVec, ReadStatus, Poll, TestStatus,
           ReadArgs, WriteHeader, WritePayload, HeaderWritten, PayloadWritten, WriteFails,
           ReleaseSlot, CancellationPoint, Access, Goto, Starting
  <1>2. Types' /\ Tested' /\ RingMade'
    BY <1>1 DEF IndInv, Types, Tested, RingMade, Starting
  <1>3. RingUnmade'
    BY <1>1 DEF IndInv, RingUnmade, Made, Mapped, Slots
  <1> QED BY <1>2, <1>3 DEF IndInv

LEMMA NextInv == IndInv /\ [Next]_vars => IndInv'
  <1> SUFFICES ASSUME IndInv, [Next]_vars PROVE IndInv'
    OBVIOUS
  <1>1. CASE UNCHANGED vars
    BY <1>1 DEF vars, IndInv, Types, Tested, RingMade, RingUnmade, Made, Mapped, Slots
  <1>2. CASE Ask \/ Register \/ Map \/ VectorCreate \/ Bind \/ ThreadStart
    BY <1>2, CreateInv
  <1>3. CASE StopStep
    BY <1>3, StopStepInv
  <1>4. CASE Thread \/ LoopTestFreed
    BY <1>4, ThreadInv
  <1> QED BY <1>1, <1>2, <1>3, <1>4 DEF Next, Thread

(***************************************************************************)
(* In every behaviour the ring is what the steps done so far have made.    *)
(***************************************************************************)
THEOREM Invariance == Spec => []IndInv
  <1>1. Init => IndInv
    BY InitInv
  <1>2. IndInv /\ [Next]_vars => IndInv'
    BY NextInv
  <1> QED BY <1>1, <1>2, PTL DEF Spec

(***************************************************************************)
(* A start that was refused, at whatever step, and a stop that was         *)
(* answered leave no ring behind (ldab_packet_mmap_destroy()).             *)
(***************************************************************************)
THEOREM Cleanup == Spec => []NoRingLeft
  <1>1. IndInv => NoRingLeft
    <2> SUFFICES ASSUME IndInv, pc = "refused" \/ step = Freed PROVE ring = NoRing
      BY DEF NoRingLeft
    <2>1. CASE pc = "refused"
      BY <2>1 DEF IndInv, RingMade
    <2>2. CASE step = Freed
      <3>1. step # 0 /\ step >= Zeroed
        BY <2>2 DEF Freed, Zeroed
      <3> QED BY <3>1 DEF IndInv, Types, RingUnmade
    <2> QED BY <2>1, <2>2
  <1> QED BY <1>1, Invariance, PTL

-----------------------------------------------------------------------------
(* The ring is the one that was asked for.                                 *)

(* Products are monotone. *)
LEMMA ProductMonotone ==
    ASSUME NEW a \in Nat, NEW b \in Nat, NEW c \in Nat, a <= b
    PROVE  a * c <= b * c /\ a * c \in Nat
  OBVIOUS

(* The next multiple. *)
LEMMA NextMultiple ==
    ASSUME NEW a \in Nat, NEW c \in Nat
    PROVE  (a + 1) * c = a * c + c
  OBVIOUS

(* A quotient times its divisor stays below what was divided. *)
LEMMA QuotientBelow ==
    ASSUME NEW n \in Nat, NEW d \in Nat \ {0}
    PROVE  n \div d \in Nat /\ (n \div d) * d <= n /\ n \div d <= n
  <1>1. n = d * (n \div d) + (n % d) /\ n \div d \in Nat /\ n % d \in Nat
    OBVIOUS
  <1> DEFINE a == n \div d
  <1>2. n = d * a + (n % d) /\ a \in Nat
    BY <1>1
  <1> HIDE DEF a
  <1>3. a * d <= n
    BY <1>1, <1>2
  <1>4. a <= a * d
    BY <1>2
  <1>5. a <= n
    BY <1>2, <1>3, <1>4
  <1> QED BY <1>2, <1>3, <1>5 DEF a

(* A frame number that survives the cut to 32 bits was not cut at all: it  *)
(* is a power of two, and a greater one would have been cut to 0.          *)
LEMMA NothingCut ==
    ASSUME NEW size \in FrameSizes, NEW nr \in FrameNrs, Creatable(size, nr)
    PROVE  nr \in Nat \ {0} /\ nr < Word /\ Layout(size, nr).frame_nr = nr
  <1>1. nr \in Nat /\ Word \in Nat \ {0} /\ PowerOf2(Word)
    BY RingAssumption
  <1>2. nr % Word # 0 /\ PowerOf2(nr) /\ Layout(size, nr).frame_nr = nr % Word
    BY DEF Creatable, Layout
  <1>3. nr # 0
    BY <1>1, <1>2
  <1>4. nr < Word
    BY <1>1, <1>2, <1>3, PowersDivide
  <1>5. nr % Word = nr
    BY <1>1, <1>4
  <1> QED BY <1>1, <1>2, <1>3, <1>4, <1>5

(* What the kernel has registered and mapped holds all frames. *)
LEMMA FramesFit ==
    ASSUME NEW size \in FrameSizes, NEW nr \in FrameNrs, Creatable(size, nr),
           KernelTakes(Layout(size, nr)), Mappable(Layout(size, nr))
    PROVE  MapSize(Layout(size, nr)) \in Nat /\ nr * size <= MapSize(Layout(size, nr))
  <1> DEFINE bs == (8 * size) % Word
             bn == (nr \div 8) % Word
             q == bs \div size
  <1>1. size \in Nat \ {0} /\ nr \in Nat /\ Word \in Nat \ {0}
    BY RingAssumption
  <1>2. bs \in Nat /\ bn \in Nat
    BY <1>1
  <1>3. q \in Nat /\ q * size <= bs /\ q <= bs
    <2> HIDE DEF bs
    <2> QED BY <1>1, <1>2, QuotientBelow
  <1>4. (q * bn) % Word = nr
    BY NothingCut DEF KernelTakes, Layout
  <1>5. (bs * bn) % Word = bs * bn /\ MapSize(Layout(size, nr)) = bs * bn
    BY DEF Mappable, MapSize, Layout
  <1> HIDE DEF bs, bn, q
  <1>6. bs * bn \in Nat /\ bs * bn < Word
    <2>1. bs * bn \in Nat
      BY <1>2
    <2> DEFINE m == bs * bn
    <2>2. m \in Nat /\ m % Word = m
      BY <2>1, <1>5
    <2> HIDE DEF m
    <2>3. m < Word
      BY <1>1, <2>2
    <2> QED BY <2>1, <2>3 DEF m
  <1>7. q * bn <= bs * bn /\ q * bn \in Nat
    BY <1>2, <1>3, ProductMonotone
  <1>8. q * bn = nr
    <2> DEFINE k == q * bn
    <2>1. k \in Nat /\ k < Word /\ k % Word = nr
      BY <1>1, <1>4, <1>6, <1>7
    <2> HIDE DEF k
    <2>2. k = nr
      BY <1>1, <2>1
    <2> QED BY <2>2 DEF k
  <1>9. nr * size = (q * size) * bn
    BY <1>1, <1>2, <1>3, <1>8
  <1>10. (q * size) * bn <= bs * bn
    <2>1. q * size \in Nat
      BY <1>1, <1>3
    <2> QED BY <1>2, <1>3, <2>1, ProductMonotone
  <1> QED BY <1>5, <1>6, <1>9, <1>10

(***************************************************************************)
(* A running capture has as many slots as frames were asked for, none      *)
(* across another or across the end of the mapping, although the layout is *)
(* cut to 32 bits and the length of the mapping is a product that wraps.   *)
(***************************************************************************)
THEOREM RingSound == Spec => []RingAsAsked
  <1>1. IndInv => RingAsAsked
    <2> SUFFICES ASSUME IndInv, pc \notin Starting, step < VecFreed
                 PROVE  /\ DOMAIN ring.vec = 0..(ask.nr - 1)
                        /\ \A a, b \in DOMAIN ring.vec :
                              /\ ring.vec[a] + ask.size <= ring.mapped
                              /\ a < b => ring.vec[a] + ask.size <= ring.vec[b]
      BY DEF RingAsAsked
    <2> DEFINE l == Layout(ask.size, ask.nr)
    <2>1. ask.size \in FrameSizes /\ ask.nr \in FrameNrs
      BY DEF IndInv, Types
    <2>2. Creatable(ask.size, ask.nr) /\ KernelTakes(l) /\ Mappable(l)
      BY DEF IndInv, Tested, Starting
    <2>3. ring.mapped = MapSize(l) /\ ring.vec = Vector(l)
      BY DEF IndInv, RingUnmade, Made, Mapped, Slots
    <2>4. l.frame_nr = ask.nr /\ l.frame_size = ask.size
      BY <2>1, <2>2, NothingCut DEF Layout
    <2>5. ring.vec = [a \in 0..(ask.nr - 1) |-> a * ask.size]
      BY <2>3, <2>4 DEF Vector
    <2>6. ask.size \in Nat \ {0} /\ ask.nr \in Nat
      BY <2>1, RingAssumption
    <2>7. ring.mapped \in Nat /\ ask.nr * ask.size <= ring.mapped
      BY <2>1, <2>2, <2>3, FramesFit
    <2> HIDE DEF l
    <2>8. ASSUME NEW a \in 0..(ask.nr - 1), NEW c \in Nat, a < c
          PROVE  a * ask.size + ask.size <= c * ask.size /\ a * ask.size \in Nat
      <3>1. (a + 1) * ask.size <= c * ask.size
        BY <2>6, <2>8, ProductMonotone
      <3>2. a \in Nat /\ ask.size \in Nat
        BY <2>6
      <3>3. (a + 1) * ask.size = a * ask.size + ask.size
        BY <3>2, NextMultiple
      <3>4. a * ask.size \in Nat
        BY <3>2
      <3> QED BY <3>1, <3>3, <3>4
    <2>9. ASSUME NEW a \in 0..(ask.nr - 1)
          PROVE  ring.vec[a] + ask.size <= ring.mapped
      <3>1. a * ask.size + ask.size <= ask.nr * ask.size /\ a * ask.size \in Nat
        BY <2>6, <2>8
      <3>2. ask.nr * ask.size \in Nat
        BY <2>6
      <3> QED BY <2>5, <2>6, <2>7, <3>1, <3>2
    <2>10. ASSUME NEW a \in 0..(ask.nr - 1), NEW b \in 0..(ask.nr - 1), a < b
           PROVE  ring.vec[a] + ask.size <= ring.vec[b]
      BY <2>5, <2>6, <2>8, <2>10
    <2> QED BY <2>5, <2>9, <2>10
  <1> QED BY <1>1, Invariance, PTL

-----------------------------------------------------------------------------
(* The thread and the stop handler.                                        *)

(* What the thread has written: between the two writes a header is ahead   *)
(* of its payload, and until a write fails it is so only there or where a  *)
(* cancelled thread ended.                                                 *)
Writing ==
    /\ step \in Steps
    /\ header \in Nat
    /\ payload \in Nat
    /\ failed \in BOOLEAN
    /\ payload <= header
    /\ pc = "payload" => payload < header
    /\ pc = "ended" => step >= Cancelled
    /\ ~failed => /\ pc = "payload" => header = payload + 1
                  /\ pc = "ended" => header \in {payload, payload + 1}
                  /\ pc \notin {"payload", "ended"} => header = payload

(* Every step of the thread and of the two handlers keeps this. *)
LEMMA WritesKept == Spec => []Writing
  <1>1. Init => Writing
    <2> SUFFICES ASSUME Init PROVE Writing
      OBVIOUS
    <2>1. step = 0 /\ pc = "ask" /\ header = 0 /\ payload = 0
      BY DEF Init
    <2>2. failed \in BOOLEAN
      BY DEF Init
    <2> QED BY <2>1, <2>2 DEF Writing, Steps
  <1>2. Writing /\ [Next]_vars => Writing'
    <2> SUFFICES ASSUME Writing, [Next]_vars PROVE Writing'
      OBVIOUS
    <2> USE DEF Writing, Steps, Cancelled
    <2>1. CASE UNCHANGED vars
      BY <2>1 DEF vars
    <2>2. CASE Ask \/ Register \/ Map \/ VectorCreate \/ Bind \/ ThreadStart
      BY <2>2 DEF Ask, Register, Map, VectorCreate, Bind, ThreadStart, CreateStep,
                  Succeeds, Fails
    <2>3. CASE StopStep
      BY <2>3 DEF StopStep, Freed
    <2>4. CASE LoopTest \/ LoopTestFreed \/ ReadVec \/ ReadStatus
      BY <2>4 DEF LoopTest, LoopTestFreed, ReadVec, ReadStatus, Access, Goto
    <2>5. CASE TestStatus \/ ReadArgs \/ ReleaseSlot
      BY <2>5 DEF TestStatus, ReadArgs, ReleaseSlot, Access, Goto
    <2>6. CASE Poll
      <3>1. /\ pc = "poll" /\ UNCHANGED <<step, header, payload, failed>>
            /\ pc' = "test" \/ (pc' = "ended" /\ step >= Cancelled)
        BY <2>6 DEF Poll, CancellationPoint, IsCancelled, Goto
      <3> QED BY <3>1
    <2>7. CASE WriteHeader
      <3>1. CASE CancellationPoint
        BY <2>7, <3>1 DEF WriteHeader, CancellationPoint, IsCancelled, Goto
      <3>2. CASE HeaderWritten
        BY <2>7, <3>2 DEF WriteHeader, HeaderWritten
      <3>3. CASE WriteFails("release")
        BY <2>7, <3>3 DEF WriteHeader, WriteFails
      <3> QED BY <2>7, <3>1, <3>2, <3>3 DEF WriteHeader
    <2>8. CASE WritePayload
      <3>1. CASE CancellationPoint
        BY <2>8, <3>1 DEF WritePayload, CancellationPoint, IsCancelled, Goto
      <3>2. CASE PayloadWritten
        BY <2>8, <3>2 DEF WritePayload, PayloadWritten
      <3>3. CASE WriteFails("release")
        BY <2>8, <3>3 DEF WritePayload, WriteFails
      <3> QED BY <2>8, <3>1, <3>2, <3>3 DEF WritePayload
    <2> QED BY <2>1, <2>2, <2>3, <2>4, <2>5, <2>6, <2>7, <2>8 DEF Next
  <1> QED BY <1>1, <1>2, PTL DEF Spec

(***************************************************************************)
(* No payload is written without its header although any write may be      *)
(* short or fail; and until one does, a record header without its payload  *)
(* is the last thing in the file, and there is one only when the capture   *)
(* stopped (ldab_pcap_write() and pthread_cancel()).                       *)
(***************************************************************************)
THEOREM RecordsWhole == Spec => []OnlyLastRecordCut
  <1>1. Writing => OnlyLastRecordCut
    BY DEF Writing, OnlyLastRecordCut, Cancelled
  <1> QED BY <1>1, WritesKept, PTL

(***************************************************************************)
(* No write begins once the filter is detached or the PCAP descriptor      *)
(* closed: the handler cancels first, and each write is a cancellation     *)
(* point (dabbad_capture_stop(), ldab_pcap_write()).                       *)
(***************************************************************************)
THEOREM StopSilences == Spec => NoWriteAfterStop
  <1>1. IndInv /\ [Next]_vars
            => [WriteBegins => step < Detached]_vars
    <2> SUFFICES ASSUME IndInv, Next, WriteBegins
                 PROVE  step < Detached
      BY DEF vars
    <2>1. step \in 0..7
      BY DEF IndInv, Types, Steps
    <2>2. WriteHeader \/ WritePayload
      BY DEF WriteBegins, Next, Ask, Register, Map, VectorCreate, Bind, ThreadStart, CreateStep,
             StopStep, LoopTest, LoopTestFreed, ReadVec, ReadStatus, Poll, TestStatus,
             ReadArgs, ReleaseSlot, CancellationPoint, Access, Goto
    <2>3. ~IsCancelled
      BY <2>2 DEF WriteBegins, WriteHeader, WritePayload, CancellationPoint, Goto
    <2> QED BY <2>1, <2>3 DEF IsCancelled, Cancelled, Detached
  <1> QED BY <1>1, Invariance, PTL DEF Spec, NoWriteAfterStop

-----------------------------------------------------------------------------
(* Types *)

(* Where the thread is, and how many records it may have begun. *)
ThreadTypes ==
    /\ pc \in Starting \cup {"loop", "vec", "status", "poll", "test", "args", "header",
                            "payload", "release", "ended"}
    /\ header <= MaxRecords
    /\ alive \in BOOLEAN

(* Every step leads to a place of the code, and no header is written past  *)
(* the bound.                                                              *)
LEMMA ThreadTypesKept ==
    ASSUME ThreadTypes, header \in Nat, [Next]_vars
    PROVE  ThreadTypes'
  <1> USE DEF ThreadTypes
  <1>1. CASE UNCHANGED vars
    BY <1>1 DEF vars
  <1>2. CASE Ask \/ Register \/ Map \/ VectorCreate \/ Bind \/ ThreadStart
    <2>1. /\ UNCHANGED <<header, alive>>
          /\ pc' \in {"refused", "register", "mmap", "vector", "bind", "thread", "loop"}
      BY <1>2 DEF Ask, Register, Map, VectorCreate, Bind, ThreadStart, CreateStep,
                  Succeeds, Fails
    <2> QED BY <2>1 DEF Starting
  <1>3. CASE StopStep
    BY <1>3 DEF StopStep
  <1>4. CASE LoopTest \/ LoopTestFreed \/ ReadVec \/ ReadStatus
    BY <1>4 DEF LoopTest, LoopTestFreed, ReadVec, ReadStatus, Access, Goto
  <1>5. CASE TestStatus \/ ReadArgs \/ ReleaseSlot \/ Poll
    BY <1>5 DEF TestStatus, ReadArgs, ReleaseSlot, Poll, CancellationPoint, Access, Goto
  <1>6. CASE WriteHeader
    <2>1. CASE CancellationPoint
      BY <2>1 DEF CancellationPoint, Goto
    <2>2. CASE HeaderWritten
      BY <2>2, MaxRecordsAssumption DEF HeaderWritten
    <2>3. CASE WriteFails("release")
      BY <2>3 DEF WriteFails
    <2> QED BY <1>6, <2>1, <2>2, <2>3 DEF WriteHeader
  <1>7. CASE WritePayload
    BY <1>7 DEF WritePayload, PayloadWritten, WriteFails, CancellationPoint, Goto
  <1> QED BY <1>1, <1>2, <1>3, <1>4, <1>5, <1>6, <1>7 DEF Next

(* The fields of a layout are cut to a word, and so is the length of the   *)
(* mapping.                                                                *)
LEMMA RingTypes ==
    ASSUME NEW size \in FrameSizes, NEW nr \in FrameNrs
    PROVE  /\ Layout(size, nr) \in [DOMAIN NoLayout -> 0..(Word - 1)]
           /\ MapSize(Layout(size, nr)) \in 0..(Word - 1)
           /\ DOMAIN Vector(Layout(size, nr)) \subseteq 0..(Word - 1)
  <1>1. Word \in Nat \ {0} /\ size \in 1..(Word - 1) /\ nr \in Nat
    BY RingAssumption, FrameSizesAssumption
  <1>2. \A a \in Nat : a % Word \in 0..(Word - 1)
    BY <1>1
  <1>3. 8 * size \in Nat /\ nr \div 8 \in Nat
    BY <1>1
  <1> DEFINE l == Layout(size, nr)
  <1>4. /\ l.frame_size \in 0..(Word - 1) /\ l.frame_nr \in 0..(Word - 1)
        /\ l.block_size \in 0..(Word - 1) /\ l.block_nr \in 0..(Word - 1)
        /\ l = [frame_size |-> l.frame_size, frame_nr |-> l.frame_nr,
                block_size |-> l.block_size, block_nr |-> l.block_nr]
    BY <1>1, <1>2, <1>3 DEF Layout
  <1> HIDE DEF l
  <1>5. DOMAIN NoLayout = {"frame_size", "frame_nr", "block_size", "block_nr"}
    BY DEF NoLayout
  <1>6. l \in [DOMAIN NoLayout -> 0..(Word - 1)]
    BY <1>4, <1>5
  <1>7. l.block_size * l.block_nr \in Nat
    BY <1>1, <1>4
  <1>8. MapSize(l) \in 0..(Word - 1)
    BY <1>2, <1>7 DEF MapSize
  <1>9. DOMAIN Vector(l) \subseteq 0..(Word - 1)
    BY <1>1, <1>4 DEF Vector
  <1> QED BY <1>6, <1>8, <1>9 DEF l

(***************************************************************************)
(* The ring, the handlers and the thread keep their types: no layout       *)
(* exceeds its fields of 32 bits, and neither does the length given to     *)
(* mmap(2) or the number of slots (ldab_packet_mmap_create()).             *)
(***************************************************************************)
THEOREM TypeCorrect == Spec => []TypeOK
  <1>1. Init => ThreadTypes
    BY MaxRecordsAssumption DEF Init, ThreadTypes, Starting
  <1>2. Writing /\ ThreadTypes /\ [Next]_vars => ThreadTypes'
    BY ThreadTypesKept DEF Writing
  <1>3. IndInv /\ Writing /\ ThreadTypes => TypeOK
    <2> SUFFICES ASSUME IndInv, Writing, ThreadTypes PROVE TypeOK
      OBVIOUS
    <2>1. header \in 0..MaxRecords /\ payload \in 0..MaxRecords
      <3>1. header \in Nat /\ payload \in Nat /\ payload <= header
        BY DEF Writing
      <3> QED BY <3>1, MaxRecordsAssumption DEF ThreadTypes
    <2>2. ask \in [size : FrameSizes, nr : FrameNrs] /\ step \in Steps
      BY DEF IndInv, Types
    <2>3. \/ ring = NoRing
          \/ \E b \in BOOLEAN, m \in {0, Mapped}, v \in {<<>>, Slots} : ring = Made(b, m, v)
      <3>1. CASE pc \in Starting
        BY <3>1 DEF IndInv, RingMade, Starting
      <3>2. CASE pc \notin Starting
        <4>1. step < VecFreed \/ step = VecFreed \/ step = Unmapped \/ step >= Zeroed
          BY <2>2 DEF Steps, VecFreed, Unmapped, Zeroed
        <4> QED BY <3>2, <4>1 DEF IndInv, RingUnmade
      <3> QED BY <3>1, <3>2
    <2>4. /\ Layout(ask.size, ask.nr) \in [DOMAIN NoLayout -> 0..(Word - 1)]
          /\ Mapped \in 0..(Word - 1)
          /\ DOMAIN Slots \subseteq 0..(Word - 1)
      BY <2>2, RingTypes DEF Mapped, Slots
    <2>5. NoLayout \in [DOMAIN NoLayout -> 0..(Word - 1)] /\ 0 \in 0..(Word - 1)
          /\ DOMAIN <<>> \subseteq 0..(Word - 1)
      BY RingAssumption DEF NoLayout
    <2>6. /\ ring.layout \in [DOMAIN NoLayout -> 0..(Word - 1)]
          /\ ring.registered \in BOOLEAN
          /\ ring.mapped \in 0..(Word - 1)
          /\ DOMAIN ring.vec \subseteq 0..(Word - 1)
      <3>1. CASE ring = NoRing
        BY <2>5, <3>1 DEF NoRing
      <3>2. ASSUME NEW b \in BOOLEAN, NEW m \in {0, Mapped}, NEW v \in {<<>>, Slots},
                   ring = Made(b, m, v)
            PROVE  /\ ring.layout \in [DOMAIN NoLayout -> 0..(Word - 1)]
                   /\ ring.registered \in BOOLEAN
                   /\ ring.mapped \in 0..(Word - 1)
                   /\ DOMAIN ring.vec \subseteq 0..(Word - 1)
        <4>1. /\ ring.layout = Layout(ask.size, ask.nr) /\ ring.registered = b
              /\ ring.mapped = m /\ ring.vec = v
          BY <3>2 DEF Made
        <4> QED BY <2>4, <2>5, <4>1
      <3> QED BY <2>3, <3>1, <3>2
    <2> QED BY <2>1, <2>2, <2>6 DEF TypeOK, ThreadTypes, Writing
  <1> QED BY <1>1, <1>2, <1>3, Invariance, WritesKept, PTL DEF Spec
=============================================================================
