----------------------------- MODULE PacketMmap -----------------------------
(***************************************************************************)
(* The memory of a packet ring (libdabba/packet-mmap.c): its layout in     *)
(* fields of 32 bits, its registration with the kernel, its mapping and    *)
(* the vector of its slots, and the order in which they are taken down.    *)
(* Module CaptureTeardown makes the steps of both.                         *)
(***************************************************************************)
EXTENDS Integers, Sequences

CONSTANTS
    Word,       \* 2^32: the fields of a layout and the products of them
    PageSize,   \* the kernel's blocks are whole pages
    FrameSizes, \* the values of enum packet_mmap_frame_size
    FrameNrs    \* the frame numbers users ask for, 64 bits wide

(* powerof2() of sys/param.h, which also takes 0 for one: no odd divisor but 1. *)
PowerOf2(n) == \A d \in 2..n : n % d = 0 => d % 2 = 0

ASSUME RingAssumption ==
    /\ Word \in Nat \ {0}
    /\ PowerOf2(Word)
    /\ PageSize \in Nat \ {0}
    /\ FrameSizes \subseteq Nat \ {0}
    /\ FrameNrs \subseteq Nat

(* The constants of an enum are ints. *)
ASSUME FrameSizesAssumption == FrameSizes \subseteq 1..(Word - 1)

Layout(size, nr) ==
    [frame_size |-> size, frame_nr |-> nr % Word,
     block_size |-> (8 * size) % Word, block_nr |-> (nr \div 8) % Word]

NoLayout == [frame_size |-> 0, frame_nr |-> 0, block_size |-> 0, block_nr |-> 0]

NoRing == [layout |-> NoLayout, registered |-> FALSE, mapped |-> 0, vec |-> <<>>]

(* What ldab_packet_mmap_create() asks for before it does anything. *)
Creatable(size, nr) ==
    /\ PowerOf2(size)
    /\ PowerOf2(nr)
    /\ Layout(size, nr).frame_nr # 0
    /\ Layout(size, nr).block_nr # 0

(* The product of two unsigned int. *)
MapSize(l) == (l.block_size * l.block_nr) % Word

(* packet_set_ring(): whole pages, and as many frames as fit into the blocks. *)
KernelTakes(l) ==
    /\ l.block_size > 0
    /\ l.block_size % PageSize = 0
    /\ ((l.block_size \div l.frame_size) * l.block_nr) % Word = l.frame_nr

(* packet_mmap(): all blocks or none; mmap(2) maps nothing of length 0. *)
Mappable(l) == MapSize(l) # 0 /\ MapSize(l) = l.block_size * l.block_nr

(* Mutant: a slot for each block instead of each frame. *)
VectorByBlock(l) == [a \in 0..(l.frame_nr - 1) |-> a * l.block_size]

(* packet_mmap_vector_create(): where the slots begin. *)
Vector(l) == [a \in 0..(l.frame_nr - 1) |-> a * l.frame_size]

VectorDestroyed(r) == [r EXCEPT !.vec = <<>>]

(* The length of the mapping comes from the layout. *)
Munmapped(r) == [r EXCEPT !.mapped = IF MapSize(r.layout) = r.mapped THEN 0 ELSE @]

(* A ring that is mapped cannot be unregistered: setsockopt(2) fails. *)
Unregistered(r) ==
    [r EXCEPT !.layout = NoLayout, !.registered = r.registered /\ r.mapped # 0]

(* Mutant: the ring is unregistered before it is unmapped. *)
DestroyedSwapped(r) == Munmapped(Unregistered(VectorDestroyed(r)))

(* ldab_packet_mmap_destroy(), on the paths where nobody uses the ring yet *)
Destroyed(r) == Unregistered(Munmapped(VectorDestroyed(r)))

=============================================================================
