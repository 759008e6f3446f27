---------------------------- MODULE PacketRxProofs ----------------------------
(***************************************************************************)
(* No frame of a capture is lost unnoticed or written twice, and one CPU   *)
(* and an undisturbed poll() keep the frames in order, for rings of every  *)
(* size and any number of CPUs and frames.                                 *)
(***************************************************************************)
EXTENDS PacketRx, FiniteSetTheorems, SequenceTheorems, TLAPS

-----------------------------------------------------------------------------
(* Types                                                                   *)

(* The next slot and the slot before are slots. *)
LEMMA Neighbours ==
    ASSUME NEW s \in Slots
    PROVE  After(s) \in Slots /\ Before(s) \in Slots /\ Before(After(s)) = s
  BY FrameNrAssumption DEF Slots, After, Before

-----------------------------------------------------------------------------
(* The inductive invariant: the slots the kernel copies into are not yet   *)
(* the loop's, the slot the loop works on is not yet the kernel's, and the *)
(* frames held in the ring are different ones, none of them lost before.   *)

Owned ==
    /\ \A s \in filling : status[s] = "KERNEL"
    /\ pc \in {"write", "release"} => status[index] = "USER"
    /\ \A s \in Slots : s \in filling \/ status[s] = "USER" => frame[s] \in 1..seen
    /\ \A s, t \in Held : frame[s] = frame[t] => s = t
    /\ \A s \in Held : frame[s] \notin lost

IndInv == TypeOK /\ Owned /\ Conservation

(* What is held, slot by slot. *)
LEMMA HeldSlots ==
    ASSUME filling \subseteq Slots
    PROVE  \A s : s \in Held <=>
               /\ s \in Slots
               /\ \/ s \in filling
                  \/ status[s] = "USER" /\ ~(pc = "release" /\ s = index)
  BY DEF Held

LEMMA HeldSlotsNext ==
    ASSUME filling' \subseteq Slots
    PROVE  \A s : s \in Held' <=>
               /\ s \in Slots
               /\ \/ s \in filling'
                  \/ status'[s] = "USER" /\ ~(pc' = "release" /\ s = index')
  BY DEF Held

(* The slots and the frames taken so far are finitely many. *)
LEMMA Finite ==
    ASSUME IndInv
    PROVE  /\ IsFiniteSet(filling) /\ Cardinality(filling) \in Nat
           /\ IsFiniteSet(Held) /\ Cardinality(Held) \in Nat
           /\ IsFiniteSet(dropped) /\ Cardinality(dropped) \in Nat
           /\ IsFiniteSet(lost) /\ Cardinality(lost) \in Nat
           /\ Len(file) \in Nat
  <1>1. IsFiniteSet(Slots)
    BY FrameNrAssumption, FS_Interval DEF Slots
  <1>2. filling \in SUBSET Slots /\ Held \in SUBSET Slots
    BY DEF IndInv, TypeOK, Held
  <1>3. IsFiniteSet(Frames)
    BY MaxFramesAssumption, FS_Interval DEF Frames
  <1>4. dropped \in SUBSET Frames /\ lost \in SUBSET Frames /\ file \in Seq(Frames)
    BY DEF IndInv, TypeOK
  <1>5. IsFiniteSet(filling) /\ IsFiniteSet(Held)
    BY <1>1, <1>2, FS_Subset
  <1>6. IsFiniteSet(dropped) /\ IsFiniteSet(lost)
    BY <1>3, <1>4, FS_Subset
  <1> QED BY <1>4, <1>5, <1>6, FS_CardinalityType, LenProperties

-----------------------------------------------------------------------------
(* The type invariant, step by step.                                       *)

LEMMA InitTypes == Init => TypeOK
  BY FrameNrAssumption, MaxFramesAssumption, MaxPollFaultsAssumption
     DEF Init, TypeOK, Slots, Frames

LEMMA NextTypes == IndInv /\ [Next]_vars => TypeOK'
  <1> SUFFICES ASSUME TypeOK, Owned, [Next]_vars PROVE TypeOK'
    BY DEF IndInv
  <1> USE FrameNrAssumption, MaxFramesAssumption, MaxPollFaultsAssumption DEF TypeOK
  <1>1. CASE UNCHANGED vars
    BY <1>1 DEF vars
  <1>2. CASE Arrive
    <2>1. seen + 1 \in Frames /\ seen + 1 \in 0..MaxFrames
      BY <1>2 DEF Arrive, Frames
    <2> QED BY <1>2, <2>1, Neighbours DEF Arrive
  <1>3. ASSUME NEW s \in Slots, HandOver(s) PROVE TypeOK'
    BY <1>3 DEF HandOver
  <1>4. CASE Check \/ PollReturns
    BY <1>4 DEF Check, PollReturns, kernelVars
  <1>5. CASE PollFails \/ PollSeesError
    <2>1. faults + 1 \in 0..MaxPollFaults
      BY <1>5 DEF PollFails, PollSeesError
    <2> QED BY <1>5, <2>1, Neighbours DEF PollFails, PollSeesError, Advance, kernelVars
  <1>6. CASE Test
    BY <1>6, Neighbours DEF Test, Advance, kernelVars
  <1>7. CASE Write
    <2>1. frame[index] \in 1..seen
      BY <1>7 DEF Write, Owned
    <2>2. frame[index] \in Frames
      BY <2>1 DEF Frames
    <2>3. Append(file, frame[index]) \in Seq(Frames)
      BY <2>2, AppendProperties
    <2> QED BY <1>7, <2>2, <2>3 DEF Write, kernelVars
  <1>8. CASE Release
    BY <1>8, Neighbours DEF Release, Advance
  <1> QED BY <1>1, <1>2, <1>3, <1>4, <1>5, <1>6, <1>7, <1>8 DEF Next

-----------------------------------------------------------------------------
(* No frame gets lost, step by step.                                       *)

LEMMA InitInv == Init => IndInv
  <1> SUFFICES ASSUME Init PROVE IndInv
    OBVIOUS
  <1>1. TypeOK
    BY InitTypes
  <1>2. Held = {} /\ ToSet(file) = {} /\ Len(file) = 0
    BY DEF Init, Held, ToSet
  <1>3. Owned
    BY <1>2 DEF Init, Owned
  <1>4. Conservation
    BY <1>2, FS_EmptySet DEF Init, Conservation, InRing
  <1> QED BY <1>1, <1>3, <1>4 DEF IndInv

(* A step that leaves the frames where they are. *)
LEMMA NothingMoves ==
    ASSUME IndInv, TypeOK', Held' = Held,
           UNCHANGED <<frame, seen, dropped, file, lost>>,
           \A s \in filling' : s \in filling /\ status'[s] = "KERNEL",
           pc' \in {"write", "release"} => status'[index'] = "USER",
           \A s \in Slots : status'[s] = "USER" => s \in filling \/ status[s] = "USER"
    PROVE  IndInv'
  <1>1. Owned'
    BY DEF IndInv, Owned
  <1>2. Conservation'
    BY DEF IndInv, Conservation, InRing
  <1> QED BY <1>1, <1>2 DEF IndInv

(* A frame reaches the socket: it is put into a free slot or dropped. *)
LEMMA ArriveInv ==
    ASSUME IndInv, TypeOK', Arrive
    PROVE  IndInv'
  <1> DEFINE new == seen + 1
  <1>1. /\ seen \in Nat /\ seen' = new /\ new \notin 1..seen /\ 1..new = (1..seen) \cup {new}
        /\ UNCHANGED <<status, pc, index, file, lost>>
    BY DEF Arrive, IndInv, TypeOK
  <1>2. 1..seen = dropped \cup InRing \cup ToSet(file) \cup lost
    BY DEF IndInv, Conservation
  <1>3. filling \subseteq Slots /\ filling' \subseteq Slots /\ head \in Slots
    BY DEF IndInv, TypeOK
  <1>4. ToSet(file)' = ToSet(file) /\ Len(file)' = Len(file)
    BY <1>1
  <1> HIDE DEF new
  <1>5. CASE status[head] = "KERNEL" /\ head \notin filling
    <2>1. /\ filling' = filling \cup {head} /\ frame' = [frame EXCEPT ![head] = new]
          /\ dropped' = dropped
      BY <1>5 DEF Arrive, new
    <2>2. head \notin Held /\ Held' = Held \cup {head}
      BY <1>1, <1>3, <1>5, <2>1, HeldSlots, HeldSlotsNext
    <2>3. frame'[head] = new /\ \A s \in Slots : s # head => frame'[s] = frame[s]
      BY <1>3, <2>1 DEF IndInv, TypeOK
    <2>4. Held \subseteq Slots /\ \A s \in Held : frame[s] \in 1..seen
      BY <1>3, HeldSlots DEF IndInv, Owned
    <2>5. InRing' = InRing \cup {new}
      BY <2>2, <2>3, <2>4 DEF InRing
    <2>6. Cardinality(Held') = Cardinality(Held) + 1
      BY <2>2, Finite, FS_AddElement
    <2>7. Conservation'
      <3>1. 1..seen' = dropped' \cup InRing' \cup ToSet(file)' \cup lost'
        BY <1>1, <1>2, <1>4, <2>1, <2>5
      <3>2. seen' = Cardinality(dropped') + Cardinality(Held') + Len(file)' + Cardinality(lost')
        BY <1>1, <1>4, <2>1, <2>6, Finite DEF IndInv, Conservation, new
      <3> QED BY <3>1, <3>2 DEF Conservation
    <2>8. Owned'
      <3>1. \A s \in filling' : status'[s] = "KERNEL"
        BY <1>1, <1>5, <2>1 DEF IndInv, Owned
      <3>2. pc' \in {"write", "release"} => status'[index'] = "USER"
        BY <1>1 DEF IndInv, Owned
      <3>3. \A s \in Slots : s \in filling' \/ status'[s] = "USER" => frame'[s] \in 1..new
        BY <1>1, <2>1, <2>3 DEF IndInv, Owned
      <3>4. \A s, t \in Held' : frame'[s] = frame'[t] => s = t
        BY <1>1, <2>2, <2>3, <2>4 DEF IndInv, Owned
      <3>5. \A s \in Held' : frame'[s] \notin lost'
        BY <1>1, <1>2, <2>2, <2>3, <2>4 DEF IndInv, Owned
      <3> QED BY <1>1, <3>1, <3>2, <3>3, <3>4, <3>5 DEF Owned
    <2> QED BY <2>7, <2>8 DEF IndInv
  <1>6. CASE ~(status[head] = "KERNEL" /\ head \notin filling)
    <2>1. dropped' = dropped \cup {new} /\ UNCHANGED <<filling, frame>>
      BY <1>6 DEF Arrive, new
    <2>2. Held' = Held /\ InRing' = InRing
      BY <1>1, <2>1 DEF Held, InRing
    <2>3. Cardinality(dropped') = Cardinality(dropped) + 1
      BY <1>1, <1>2, <2>1, Finite, FS_AddElement
    <2>4. Conservation'
      <3>1. 1..seen' = dropped' \cup InRing' \cup ToSet(file)' \cup lost'
        BY <1>1, <1>2, <1>4, <2>1, <2>2
      <3>2. seen' = Cardinality(dropped') + Cardinality(Held') + Len(file)' + Cardinality(lost')
        BY <1>1, <1>4, <2>2, <2>3, Finite DEF IndInv, Conservation, new
      <3> QED BY <3>1, <3>2 DEF Conservation
    <2>5. Owned'
      BY <1>1, <2>1, <2>2 DEF IndInv, Owned
    <2> QED BY <2>4, <2>5 DEF IndInv
  <1> QED BY <1>5, <1>6

(* A frame is written, or lost: it leaves the ring. *)
LEMMA WriteInv ==
    ASSUME IndInv, TypeOK', Write
    PROVE  IndInv'
  <1> DEFINE f == frame[index]
  <1>1. /\ pc = "write" /\ pc' = "release" /\ index \in Slots
        /\ UNCHANGED <<status, frame, filling, seen, dropped, index>>
        /\ status[index] = "USER" /\ index \notin filling
    BY DEF Write, kernelVars, IndInv, Owned, TypeOK
  <1>2. filling \subseteq Slots /\ filling' \subseteq Slots
    BY DEF IndInv, TypeOK
  <1>3. index \in Held /\ Held' = Held \ {index}
    BY <1>1, <1>2, HeldSlots, HeldSlotsNext
  <1>4. Cardinality(Held') = Cardinality(Held) - 1
    BY <1>3, Finite, FS_RemoveElement
  <1>5. f \in InRing /\ InRing' = InRing \ {f}
    BY <1>1, <1>3 DEF InRing, IndInv, Owned
  <1>6. f \notin lost /\ f \in Frames /\ file \in Seq(Frames)
    BY <1>1, <1>3 DEF IndInv, Owned, TypeOK, Frames
  <1>7. \A s \in Held' : frame'[s] # f /\ frame'[s] \notin lost
    BY <1>1, <1>3 DEF IndInv, Owned
  <1>8. ASSUME lost' \subseteq lost \cup {f} PROVE Owned'
    BY <1>1, <1>3, <1>7, <1>8 DEF IndInv, Owned
  <1> HIDE DEF f
  <1>9. CASE file' = Append(file, f) /\ UNCHANGED lost
    <2>1. Len(file') = Len(file) + 1
      BY <1>6, <1>9, LenProperties
    <2>2. ToSet(file') = ToSet(file) \cup {f}
      <3>1. /\ DOMAIN file = 1..Len(file) /\ Len(file) \in Nat
            /\ DOMAIN file' = 1..(Len(file) + 1)
            /\ \A n \in 1..Len(file) : file'[n] = file[n]
            /\ file'[Len(file) + 1] = f
        BY <1>6, <1>9, AppendProperties, LenProperties
      <3>2. 1..(Len(file) + 1) = (1..Len(file)) \cup {Len(file) + 1}
        BY <3>1
      <3> QED BY <3>1, <3>2 DEF ToSet
    <2>3. 1..seen' = dropped' \cup InRing' \cup ToSet(file') \cup lost'
      BY <1>1, <1>5, <1>9, <2>2 DEF IndInv, Conservation
    <2>4. seen' = Cardinality(dropped') + Cardinality(Held') + Len(file') + Cardinality(lost')
      BY <1>1, <1>4, <1>9, <2>1, Finite DEF IndInv, Conservation
    <2> QED BY <1>8, <1>9, <2>3, <2>4 DEF IndInv, Conservation
  <1>10. CASE lost' = lost \cup {f} /\ UNCHANGED file
    <2>1. Cardinality(lost') = Cardinality(lost) + 1
      BY <1>6, <1>10, Finite, FS_AddElement
    <2>2. 1..seen' = dropped' \cup InRing' \cup ToSet(file') \cup lost'
      BY <1>1, <1>5, <1>10 DEF IndInv, Conservation
    <2>3. seen' = Cardinality(dropped') + Cardinality(Held') + Len(file') + Cardinality(lost')
      BY <1>1, <1>4, <1>10, <2>1, Finite DEF IndInv, Conservation
    <2> QED BY <1>8, <1>10, <2>2, <2>3 DEF IndInv, Conservation
  <1> QED BY <1>9, <1>10 DEF Write, f

(* The other steps move no frame: the kernel hands a slot over that it has *)
(* filled, and the loop looks at slots or gives one back.                  *)
LEMMA OtherInv ==
    ASSUME IndInv, TypeOK', ~Arrive, ~Write, [Next]_vars
    PROVE  IndInv'
  <1>1. filling \subseteq Slots /\ filling' \subseteq Slots /\ index \in Slots
        /\ status \in [Slots -> {"KERNEL", "USER"}]
    BY DEF IndInv, TypeOK
  <1>2. CASE UNCHANGED vars
    BY <1>2, NothingMoves DEF vars, IndInv, Owned, Held
  <1>3. ASSUME NEW s \in Slots, HandOver(s) PROVE IndInv'
    <2>1. /\ s \in filling /\ filling' = filling \ {s} /\ status[s] = "KERNEL"
          /\ status' = [status EXCEPT ![s] = "USER"]
          /\ UNCHANGED <<pc, index, frame, seen, dropped, file, lost>>
      BY <1>3 DEF HandOver, IndInv, Owned
    <2>2. ~(pc = "release" /\ s = index)
      BY <2>1 DEF IndInv, Owned
    <2>3. status'[s] = "USER" /\ \A t \in Slots : t # s => status'[t] = status[t]
      BY <1>1, <2>1
    <2>4. Held' = Held
      BY <1>1, <2>1, <2>2, <2>3, HeldSlots, HeldSlotsNext
    <2> QED BY <1>1, <2>1, <2>3, <2>4, NothingMoves DEF IndInv, Owned
  <1>4. CASE Check \/ PollReturns \/ PollFails \/ PollSeesError \/ Test
    <2>1. /\ UNCHANGED <<status, frame, filling, seen, dropped, file, lost>>
          /\ pc # "release" /\ pc' # "release"
          /\ pc' = "write" => status'[index'] = "USER"
      BY <1>4 DEF Check, PollReturns, PollFails, PollSeesError, Test, Advance, kernelVars
    <2>2. Held' = Held
      BY <1>1, <2>1, HeldSlots, HeldSlotsNext
    <2> QED BY <2>1, <2>2, NothingMoves DEF IndInv, Owned
  <1>5. CASE Release
    <2>1. /\ status' = [status EXCEPT ![index] = "KERNEL"] /\ pc = "release"
          /\ pc' = "check" /\ index \notin filling
          /\ UNCHANGED <<filling, frame, seen, dropped, file, lost>>
      BY <1>5 DEF Release, Advance, IndInv, Owned
    <2>2. status'[index] = "KERNEL" /\ \A t \in Slots : t # index => status'[t] = status[t]
      BY <1>1, <2>1
    <2>3. Held' = Held
      BY <1>1, <2>1, <2>2, HeldSlots, HeldSlotsNext
    <2> QED BY <1>1, <2>1, <2>2, <2>3, NothingMoves DEF IndInv, Owned
  <1> QED BY <1>2, <1>3, <1>4, <1>5 DEF Next

LEMMA NextInv == IndInv /\ [Next]_vars => IndInv'
  BY NextTypes, ArriveInv, WriteInv, OtherInv

(***************************************************************************)
(* The slots and the frames are in the state the invariant describes, in   *)
(* every behaviour.                                                        *)
(***************************************************************************)
THEOREM Invariance == Spec => []IndInv
  <1>1. Init => IndInv
    BY InitInv
  <1>2. IndInv /\ [Next]_vars => IndInv'
    BY NextInv
  <1> QED BY <1>1, <1>2, PTL DEF Spec

(***************************************************************************)
(* Slots, frames and positions keep their types in every behaviour.        *)
(***************************************************************************)
THEOREM TypeCorrect == Spec => []TypeOK
  <1>1. IndInv => TypeOK
    BY DEF IndInv
  <1> QED BY <1>1, Invariance, PTL

(***************************************************************************)
(* Whatever poll() does, however many CPUs fill the ring and however large *)
(* it is: each frame that reached the socket is dropped, in exactly one    *)
(* slot, in the file once, or was lost by a failed write (the slots that   *)
(* ldab_packet_rx() and the kernel hand each other).                       *)
(***************************************************************************)
THEOREM FramesConserved == Spec => []Conservation
  <1>1. IndInv => Conservation
    BY DEF IndInv
  <1> QED BY <1>1, Invariance, PTL

-----------------------------------------------------------------------------
(* Order, while one CPU fills the ring and poll() has not failed: the      *)
(* slots in use are the ones from the loop's index to the kernel's head.   *)

(* How far the slot s is ahead of the slot i, going round the ring. *)
Ahead(i, s) == IF s >= i THEN s - i ELSE s - i + FrameNr

Occupied == filling \cup {s \in Slots : status[s] = "USER"}

Window ==
    \/ Occupied = Slots /\ head = index
    \/ \A s \in Slots : s \in Occupied <=> Ahead(index, s) < Ahead(index, head)

Ordered ==
    /\ Window
    /\ \A s, t \in Occupied : Ahead(index, s) < Ahead(index, t) => frame[s] < frame[t]
    /\ \A n \in 1..Len(file), s \in Held : file[n] < frame[s]
    /\ \A m, n \in 1..Len(file) : m < n => file[m] < file[n]
    /\ filling \subseteq {Before(head)}
    /\ pc = "test" => status[index] = "USER"

LEMMA AheadFacts ==
    ASSUME NEW i \in Slots, NEW s \in Slots
    PROVE  /\ Ahead(i, s) \in 0..(FrameNr - 1)
           /\ Ahead(i, s) = 0 <=> s = i
           /\ Ahead(i, s) = FrameNr - 1 => After(s) = i
           /\ Ahead(i, s) # FrameNr - 1 => Ahead(i, After(s)) = Ahead(i, s) + 1
           /\ s # i => Ahead(After(i), s) = Ahead(i, s) - 1
           /\ Ahead(After(i), i) = FrameNr - 1
           /\ \A t \in Slots : Ahead(i, s) = Ahead(i, t) => s = t
  BY FrameNrAssumption DEF Slots, Ahead, After

(* What is in use, slot by slot. *)
LEMMA OccupiedSlots ==
    ASSUME IndInv
    PROVE  /\ \A s : s \in Occupied <=> s \in Slots /\ (s \in filling \/ status[s] = "USER")
           /\ Held \subseteq Occupied
           /\ pc # "release" => Held = Occupied
           /\ pc = "release" => Held = Occupied \ {index}
  BY DEF IndInv, TypeOK, Owned, Occupied, Held

(* A frame is put into the slot at the head, behind all others. *)
LEMMA ArriveOrder ==
    ASSUME IndInv, IndInv', Steady, Ordered, Arrive
    PROVE  Ordered'
  <1>1. /\ seen \in Nat /\ head \in Slots /\ index \in Slots /\ seen' = seen + 1
        /\ frame \in [Slots -> Frames \cup {0}] /\ file \in Seq(Frames)
        /\ UNCHANGED <<status, pc, index, file>>
    BY DEF IndInv, TypeOK, Arrive
  <1>2. CASE status[head] = "KERNEL" /\ head \notin filling
    <2>1. filling = {}
      <3>1. Cardinality(filling) = 0
        BY Finite DEF Arrive, Steady
      <3> QED BY <3>1, Finite, FS_EmptySet
    <2>2. /\ filling' = {head} /\ head' = After(head)
          /\ frame' = [frame EXCEPT ![head] = seen + 1]
      BY <1>2, <2>1 DEF Arrive
    <2>3. /\ frame'[head] = seen + 1
          /\ \A s \in Slots : s # head => frame'[s] = frame[s]
      BY <1>1, <2>2
    <2>4. head \notin Occupied /\ Occupied' = Occupied \cup {head} /\ Occupied \subseteq Slots
      BY <1>1, <1>2, <2>1, <2>2, OccupiedSlots DEF Occupied
    <2>5. \A s \in Slots : s \in Occupied <=> Ahead(index, s) < Ahead(index, head)
      BY <1>1, <2>4 DEF Ordered, Window
    <2>6. Window'
      <3>1. ASSUME NEW s \in Slots
            PROVE  s \in Occupied' <=> Ahead(index, s) <= Ahead(index, head)
        BY <1>1, <2>4, <2>5, AheadFacts
      <3>2. CASE Ahead(index, head) = FrameNr - 1
        <4>1. head' = index' /\ Occupied' = Slots
          BY <1>1, <2>2, <2>4, <3>1, <3>2, AheadFacts, FrameNrAssumption
        <4> QED BY <4>1 DEF Window
      <3>3. CASE Ahead(index, head) # FrameNr - 1
        <4>1. Ahead(index, head') = Ahead(index, head) + 1 /\ Ahead(index, head) \in Nat
          BY <1>1, <2>2, <3>3, AheadFacts
        <4>2. \A s \in Slots : Ahead(index, s) \in Nat
          BY <1>1, AheadFacts
        <4>3. \A s \in Slots : s \in Occupied' <=> Ahead(index, s) < Ahead(index, head')
          BY <3>1, <4>1, <4>2
        <4> QED BY <1>1, <4>3 DEF Window, Ahead
      <3> QED BY <3>2, <3>3
    <2>7. \A s \in Occupied : frame[s] \in 1..seen /\ s # head /\ frame'[s] = frame[s]
      BY <2>3, <2>4, OccupiedSlots DEF IndInv, Owned
    <2>8. ASSUME NEW s \in Occupied', NEW t \in Occupied', Ahead(index, s) < Ahead(index, t)
          PROVE  frame'[s] < frame'[t]
      <3>1. CASE t = head
        <4>1. s # head /\ s \in Occupied
          BY <1>1, <2>4, <2>8, <3>1, AheadFacts
        <4> QED BY <1>1, <2>3, <2>7, <3>1, <4>1
      <3>2. CASE t # head
        <4>1. t \in Occupied /\ Ahead(index, t) < Ahead(index, head)
          BY <2>4, <2>5, <3>2
        <4>2. s # head /\ s \in Occupied
          BY <1>1, <2>4, <2>8, <4>1, AheadFacts
        <4> QED BY <2>7, <2>8, <4>1, <4>2 DEF Ordered
      <3> QED BY <3>1, <3>2
    <2>9. ASSUME NEW n \in 1..Len(file), NEW s \in Held' PROVE file[n] < frame'[s]
      <3>1. file[n] \in 1..seen
        BY <1>1, LenProperties DEF IndInv, Conservation, ToSet
      <3>2. CASE s = head
        BY <1>1, <2>3, <3>1, <3>2
      <3>3. CASE s # head
        <4>1. s \in Held
          BY <1>1, <2>1, <2>2, <3>3 DEF Held
        <4> QED BY <2>7, <4>1, OccupiedSlots DEF Ordered
      <3> QED BY <3>2, <3>3
    <2>10. filling' \subseteq {Before(head')}
      BY <1>1, <2>2, Neighbours
    <2> QED BY <1>1, <2>6, <2>8, <2>9, <2>10 DEF Ordered, Ahead
  <1>3. CASE ~(status[head] = "KERNEL" /\ head \notin filling)
    <2>1. UNCHANGED <<filling, head, frame>>
      BY <1>3 DEF Arrive
    <2> QED BY <1>1, <2>1 DEF Ordered, Window, Occupied, Held, Ahead
  <1> QED BY <1>2, <1>3

(* The slot that is handed over stays in use. *)
LEMMA HandOverOrder ==
    ASSUME IndInv, IndInv', Ordered, NEW s \in Slots, HandOver(s)
    PROVE  Ordered'
  <1>1. /\ s \in filling /\ filling' = filling \ {s} /\ status[s] = "KERNEL"
        /\ status' = [status EXCEPT ![s] = "USER"]
        /\ UNCHANGED <<pc, index, head, frame, file>>
        /\ status \in [Slots -> {"KERNEL", "USER"}] /\ filling \subseteq Slots
    BY DEF HandOver, IndInv, Owned, TypeOK
  <1>2. status'[s] = "USER" /\ \A t \in Slots : t # s => status'[t] = status[t]
    BY <1>1
  <1>3. Occupied' = Occupied
    BY <1>1, <1>2 DEF Occupied
  <1>4. pc = "release" => s # index
    BY <1>1 DEF IndInv, Owned
  <1>5. Held' = Held
    BY <1>1, <1>2, <1>4 DEF Held
  <1>6. pc = "test" => status'[index] = "USER"
    BY <1>1, <1>2 DEF Ordered, IndInv, TypeOK
  <1> QED BY <1>1, <1>3, <1>5, <1>6 DEF Ordered, Window, Ahead

(* A poll() that does not fail returns when the frame at the index is      *)
(* there: if any slot is handed over, that one is.                         *)
LEMMA PollOrder ==
    ASSUME IndInv, Ordered, Check \/ PollReturns
    PROVE  Ordered'
  <1>1. /\ UNCHANGED <<status, frame, filling, head, index, file>>
        /\ pc' # "release" /\ pc # "release"
        /\ head \in Slots /\ index \in Slots /\ status \in [Slots -> {"KERNEL", "USER"}]
    BY DEF Check, PollReturns, kernelVars, IndInv, TypeOK
  <1>2. pc' = "test" => status[index] = "USER"
    <2>1. CASE Check
      BY <1>1, <2>1 DEF Check
    <2>2. CASE PollReturns
      <3>1. Before(head) \in Slots /\ status[Before(head)] = "USER"
        BY <1>1, <2>2, Neighbours DEF PollReturns, Readable
      <3>2. Before(head) \in Occupied
        BY <3>1 DEF Occupied
      <3>3. index \in Occupied
        BY <1>1, <3>1, <3>2, AheadFacts DEF Ordered, Window
      <3>4. index \notin filling
        <4>1. Before(head) \notin filling
          BY <3>1 DEF IndInv, Owned
        <4> QED BY <4>1 DEF Ordered
      <3> QED BY <3>3, <3>4 DEF Occupied
    <2> QED BY <2>1, <2>2
  <1>3. Held' = Held /\ Occupied' = Occupied
    BY <1>1 DEF Held, Occupied
  <1> QED BY <1>1, <1>2, <1>3 DEF Ordered, Window, Ahead

(* The slot under test is handed over, so that the loop does not pass it. *)
LEMMA TestOrder ==
    ASSUME IndInv, Ordered, Test
    PROVE  Ordered'
  <1>1. /\ UNCHANGED <<status, frame, filling, head, index, file>>
        /\ pc = "test" /\ pc' = "write"
    BY DEF Test, kernelVars, Ordered
  <1>2. Held' = Held /\ Occupied' = Occupied
    BY <1>1 DEF Held, Occupied
  <1> QED BY <1>1, <1>2 DEF Ordered, Window, Ahead

(* The frame at the index is the oldest one in the ring. *)
LEMMA WriteOrder ==
    ASSUME IndInv, IndInv', Ordered, Write
    PROVE  Ordered'
  <1>1. /\ UNCHANGED <<status, frame, filling, head, index>>
        /\ pc = "write" /\ pc' = "release" /\ index \in Slots
        /\ status[index] = "USER"
        /\ file \in Seq(Frames)
    BY DEF Write, kernelVars, IndInv, Owned, TypeOK
  <1>2. Occupied' = Occupied
    BY <1>1 DEF Occupied
  <1>3. index \in Held /\ Held' = Held \ {index} /\ Held = Occupied
    <2>1. Held = Occupied
      BY <1>1, OccupiedSlots
    <2>2. Held' = Occupied \ {index}
      BY <1>1, <1>2 DEF Held, Occupied, IndInv, Owned
    <2> QED BY <1>1, <2>1, <2>2 DEF Occupied
  <1>4. \A s \in Held' : frame[index] < frame[s]
    <2>1. ASSUME NEW s \in Held' PROVE frame[index] < frame[s]
      <3>1. s \in Slots /\ s # index /\ s \in Occupied /\ index \in Occupied
        BY <1>3, OccupiedSlots
      <3>2. Ahead(index, index) < Ahead(index, s)
        BY <1>1, <3>1, AheadFacts
      <3> QED BY <3>1, <3>2 DEF Ordered
    <2> QED BY <2>1
  <1>5. CASE file' = Append(file, frame[index])
    <2>1. /\ Len(file) \in Nat /\ Len(file') = Len(file) + 1
          /\ \A n \in 1..Len(file) : file'[n] = file[n]
          /\ file'[Len(file) + 1] = frame[index]
      <3>1. frame[index] \in Frames
        BY <1>1 DEF IndInv, Owned, TypeOK, Frames
      <3> QED BY <1>1, <1>5, <3>1, AppendProperties, LenProperties
    <2>2. \A n \in 1..Len(file) : file[n] < frame[index]
      BY <1>3 DEF Ordered
    <2>3. \A n \in 1..Len(file'), s \in Held' : file'[n] < frame'[s]
      <3> SUFFICES ASSUME NEW n \in 1..Len(file'), NEW s \in Held'
                   PROVE  file'[n] < frame[s]
        BY <1>1
      <3>1. CASE n = Len(file) + 1
        BY <1>4, <2>1, <3>1
      <3>2. CASE n # Len(file) + 1
        <4>1. n \in 1..Len(file) /\ s \in Held
          BY <1>3, <2>1, <3>2
        <4> QED BY <2>1, <4>1 DEF Ordered
      <3> QED BY <3>1, <3>2
    <2>4. \A m, n \in 1..Len(file') : m < n => file'[m] < file'[n]
      <3> SUFFICES ASSUME NEW m \in 1..Len(file'), NEW n \in 1..Len(file'), m < n
                   PROVE  file'[m] < file'[n]
        OBVIOUS
      <3>1. m \in 1..Len(file) /\ file'[m] = file[m]
        BY <2>1
      <3>2. CASE n = Len(file) + 1
        BY <2>1, <2>2, <3>1, <3>2
      <3>3. CASE n # Len(file) + 1
        <4>1. n \in 1..Len(file) /\ file'[n] = file[n]
          BY <2>1, <3>3
        <4> QED BY <3>1, <4>1 DEF Ordered
      <3> QED BY <3>2, <3>3
    <2> QED BY <1>1, <1>2, <2>3, <2>4 DEF Ordered, Window, Ahead
  <1>6. CASE UNCHANGED file
    BY <1>1, <1>2, <1>3, <1>6 DEF Ordered, Window, Ahead
  <1> QED BY <1>5, <1>6 DEF Write

(* The slot is given back and the index goes on: one slot less in use. *)
LEMMA ReleaseOrder ==
    ASSUME IndInv, IndInv', Ordered, Release
    PROVE  Ordered'
  <1>1. /\ UNCHANGED <<frame, filling, head, file>>
        /\ pc = "release" /\ pc' = "check" /\ index' = After(index)
        /\ index \in Slots /\ index' \in Slots /\ head \in Slots
        /\ status[index] = "USER" /\ index \notin filling /\ filling \subseteq Slots
        /\ status' = [status EXCEPT ![index] = "KERNEL"]
        /\ status \in [Slots -> {"KERNEL", "USER"}]
    BY DEF Release, Advance, IndInv, Owned, TypeOK
  <1>2. status'[index] = "KERNEL" /\ \A t \in Slots : t # index => status'[t] = status[t]
    BY <1>1
  <1>3. Occupied' = Occupied \ {index} /\ Occupied \subseteq Slots /\ index \in Occupied
    BY <1>1, <1>2 DEF Occupied
  <1>4. Held' = Occupied'
    BY <1>1 DEF Held, Occupied
  <1>5. Held' = Held
    BY <1>1, <1>3, <1>4, OccupiedSlots
  <1>6. \A s \in Slots : s # index => Ahead(index', s) = Ahead(index, s) - 1
    BY <1>1, AheadFacts
  <1>7. /\ Ahead(index', index) = FrameNr - 1
        /\ \A s \in Slots : Ahead(index, s) \in 0..(FrameNr - 1)
        /\ \A s \in Slots : Ahead(index', s) \in 0..(FrameNr - 1)
    BY <1>1, AheadFacts
  <1>8. \A s \in Slots : s \in Occupied' <=> Ahead(index', s) < Ahead(index', head)
    <2>1. CASE Occupied = Slots /\ head = index
      <3> SUFFICES ASSUME NEW s \in Slots
                   PROVE  s # index <=> Ahead(index', s) < FrameNr - 1
        BY <1>3, <1>7, <2>1
      <3>1. s # index => Ahead(index', s) # FrameNr - 1
        BY <1>1, <1>7, AheadFacts
      <3> QED BY <1>7, <3>1, FrameNrAssumption
    <2>2. CASE \A s \in Slots : s \in Occupied <=> Ahead(index, s) < Ahead(index, head)
      <3>1. head # index
        BY <1>1, <1>3, <1>7, <2>2
      <3>2. Ahead(index', head) = Ahead(index, head) - 1
        BY <1>1, <1>6, <3>1
      <3> SUFFICES ASSUME NEW s \in Slots
                   PROVE  s \in Occupied' <=> Ahead(index', s) < Ahead(index', head)
        OBVIOUS
      <3>3. CASE s = index
        BY <1>1, <1>3, <1>7, <3>2, <3>3, FrameNrAssumption
      <3>4. CASE s # index
        BY <1>1, <1>3, <1>6, <1>7, <2>2, <3>2, <3>4
      <3> QED BY <3>3, <3>4
    <2> QED BY <2>1, <2>2 DEF Ordered, Window
  <1>9. \A s, t \in Occupied' : Ahead(index', s) < Ahead(index', t) => frame[s] < frame[t]
    <2> SUFFICES ASSUME NEW s \in Occupied', NEW t \in Occupied',
                        Ahead(index', s) < Ahead(index', t)
                 PROVE  frame[s] < frame[t]
      OBVIOUS
    <2>1. s \in Slots /\ t \in Slots /\ s # index /\ t # index /\ s \in Occupied /\ t \in Occupied
      BY <1>3
    <2>2. Ahead(index, s) < Ahead(index, t)
      BY <1>6, <1>7, <2>1
    <2> QED BY <2>1, <2>2 DEF Ordered
  <1>10. Window'
    BY <1>1, <1>8 DEF Window, Ahead
  <1> QED BY <1>1, <1>5, <1>9, <1>10 DEF Ordered, Ahead

(* One CPU and a poll() that has not failed keep the order. *)
LEMMA NextOrder ==
    ASSUME IndInv, IndInv', Steady => Ordered, [Next]_vars
    PROVE  (Steady => Ordered)'
  <1> SUFFICES ASSUME Steady' PROVE Ordered'
    OBVIOUS
  <1>1. faults \in Nat
    BY DEF IndInv, TypeOK
  <1>2. CASE UNCHANGED vars
    BY <1>2 DEF vars, Steady, Ordered, Window, Occupied, Held, Ahead
  <1>3. CASE PollFails \/ PollSeesError
    BY <1>1, <1>3 DEF PollFails, PollSeesError, Steady
  <1>4. CASE Arrive
    BY <1>4, ArriveOrder DEF Arrive, Steady
  <1>5. ASSUME NEW s \in Slots, HandOver(s) PROVE Ordered'
    BY <1>5, HandOverOrder DEF HandOver, Steady
  <1>6. CASE Check \/ PollReturns
    BY <1>6, PollOrder DEF Check, PollReturns, kernelVars, Steady
  <1>7. CASE Test
    BY <1>7, TestOrder DEF Test, kernelVars, Steady
  <1>8. CASE Write
    BY <1>8, WriteOrder DEF Write, kernelVars, Steady
  <1>9. CASE Release
    BY <1>9, ReleaseOrder DEF Release, Steady
  <1> QED BY <1>2, <1>3, <1>4, <1>5, <1>6, <1>7, <1>8, <1>9 DEF Next

LEMMA InitOrder == Init => Ordered
  <1> SUFFICES ASSUME Init PROVE Ordered
    OBVIOUS
  <1>1. Occupied = {} /\ Held = {} /\ head = 0 /\ index = 0 /\ Len(file) = 0
    BY DEF Init, Occupied, Held
  <1>2. 0 \in Slots
    BY FrameNrAssumption DEF Slots
  <1>3. \A s \in Slots : ~(Ahead(0, s) < Ahead(0, 0))
    BY <1>2, AheadFacts
  <1>4. Window
    BY <1>1, <1>3 DEF Window
  <1> QED BY <1>1, <1>4 DEF Init, Ordered

(* The invariant of the order, in every behaviour. *)
THEOREM OrderInvariance == Spec => [](Steady => Ordered)
  <1>1. Init => (Steady => Ordered)
    BY InitOrder
  <1>2. IndInv /\ IndInv' /\ (Steady => Ordered) /\ [Next]_vars => (Steady => Ordered)'
    BY NextOrder
  <1> QED BY <1>1, <1>2, Invariance, PTL DEF Spec

(***************************************************************************)
(* As long as poll() has not failed and one CPU fills the ring, the file   *)
(* holds the frames in the order in which they were received: the slot at  *)
(* the loop's index holds the oldest frame (ldab_packet_rx()).             *)
(***************************************************************************)
THEOREM FileInOrder == Spec => []InOrder
  <1>1. (Steady => Ordered) => InOrder
    BY DEF Ordered, InOrder
  <1> QED BY <1>1, OrderInvariance, PTL

(***************************************************************************)
(* ... and a frame is dropped only when no slot of the ring is free: the   *)
(* slot at the kernel's head is in use only when all slots are.            *)
(***************************************************************************)
THEOREM NoNeedlessDrop == Spec => DropsOnlyWhenFull
  <1> DEFINE Full == \A s \in Slots : s \in filling \/ status[s] = "USER"
  <1>1. IndInv /\ (Steady => Ordered) /\ [Next]_vars
            => [Steady /\ dropped' # dropped => Full]_vars
    <2> SUFFICES ASSUME IndInv, Steady, Ordered, Next, dropped' # dropped
                 PROVE  Full
      BY DEF vars
    <2>1. Arrive
      BY DEF Next, HandOver, Check, PollReturns, PollFails, PollSeesError, Test, Write,
             Release, kernelVars
    <2>2. head \in Slots /\ index \in Slots /\ status \in [Slots -> {"KERNEL", "USER"}]
      BY DEF IndInv, TypeOK
    <2>3. head \in Occupied
      BY <2>1, <2>2 DEF Arrive, Occupied
    <2>4. Occupied = Slots
      BY <2>2, <2>3, AheadFacts DEF Ordered, Window
    <2> QED BY <2>4 DEF Occupied
  <1> QED BY <1>1, Invariance, OrderInvariance, PTL DEF Spec, DropsOnlyWhenFull

=============================================================================
