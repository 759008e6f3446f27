-------------------------- MODULE MCThreadSettings --------------------------
(* ThreadSettings with 2 threads on a machine with 5 of 6 CPUs. *)
EXTENDS ThreadSettings, TLC

CONSTANTS t1, t2

Named(t, policy, prio, list) == [id |-> t, policy |-> policy, prio |-> prio, list |-> list]

(* A real-time policy with and without a priority, a priority of 17 bits,  *)
(* a name that is no policy, lists that end, that are cut, and that do not *)
(* end.                                                                    *)
MCRequests ==
    {Named(None, None, None, <<<<0>>>>),
     Named(t1, "fifo", 1, None),
     Named(t1, "rr", None, <<<<0, 4, 2>>>>),
     Named(t1, None, Short + 2, <<<<1>>, <<>>, <<3>>>>),
     Named(t1, "idle", 0, <<<<5>>>>),
     Named(t1, None, None, <<<<0, 4, 0>>>>),
     Named(t1, None, None, <<<<1>>, <<2, Word - 1>>>>),
     Named(t2, "other", 0, <<<<1, 2>>, <<4>>>>),
     Named(t2, None, 1, <<<<3, 2>>>>)}

MCOnline == 0..4
MCMasks == {{0, 1, 3}, {0, 3, 4}}
MCThreads == {t1, t2}
=============================================================================
