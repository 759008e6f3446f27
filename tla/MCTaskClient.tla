---------------------------- MODULE MCTaskClient ----------------------------
(***************************************************************************)
(* TaskClient on a small instance: words of 32 values and bytes of 4, so   *)
(* that jumps wrap and branches are cut within programs of 3 instructions. *)
(***************************************************************************)
EXTENDS TaskClient, TLC

Instr(c, jt, jf, k) == [code |-> c, jt |-> jt, jf |-> jf, k |-> k]
Ret == Instr(6, 0, 0, 1)
(* JEQ to the next or over the next instruction *)
Jeq(jt, jf) == Instr(21, jt, jf, 0)
Ja(k) == Instr(5, 0, 0, k)
(* st M[k] *)
St(k) == Instr(2, 0, 0, k)

MCFiles ==
    {<<>>,                                \* no filter
     <<Text, Jeq(0, 1), Ret, Ret>>,       \* a comment, then a filter
     <<Jeq(0, 2), Ret, Ret>>,             \* jumps behind the end
     <<Jeq(4, 0), Ret>>,                  \* jt does not fit
     <<Instr(6 + Short, 0, 0, 1)>>,       \* code does not fit
     <<Ja(Word - 2), Ret, St(2)>>,        \* wraps; ends without return
     <<Ja(Word - 1), Ret>>,               \* jumps to itself
     <<St(2), Ret>>,                      \* outside the scratch memory
     <<Ret, Malformed>>}                  \* cannot be read
=============================================================================
