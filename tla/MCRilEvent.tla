----------------------------- MODULE MCRilEvent -----------------------------
(* Descriptor numbers in the order the kernel hands them out: the control  *)
(* sockets are inherited, the pipe comes next, a client last.              *)
EXTENDS RilEvent, TLC

MCFd == [wakeup |-> 2, listen |-> 0, debug |-> 1, commands |-> 3]

(* "keep list sorted" (ril_event.cpp:302), on which calcNextTimeout and    *)
(* processTimeouts rely: inserting into any sorted list of up to three     *)
(* timers yields a sorted list of the same timers and the new one.         *)
InOrderOf(list, timeout) == \A j, k \in 1..Len(list) : j < k => timeout[list[j]] <= timeout[list[k]]
ASSUME InsertedSorts ==
    \A n \in 0..3 : \A timeout \in [1..(n + 1) -> 0..3] :
        LET list == [k \in 1..n |-> k]
            new  == Inserted(list, timeout, n + 1, timeout[n + 1])
        IN  InOrderOf(list, timeout) =>
                /\ InOrderOf(new, timeout)
                /\ Len(new) = n + 1 /\ {new[k] : k \in 1..(n + 1)} = 1..(n + 1)
=============================================================================
