---------------------------- MODULE MemoryBudget ----------------------------
(***************************************************************************)
(* What a caller of the collector's MemoryTracker may rely on, with no     *)
(* atomics and no retry loop: a reservation is granted or refused at one   *)
(* instant inside the call, by comparing the bytes of all guards then      *)
(* alive with the limit, and a dropped guard gives its bytes back at once. *)
(***************************************************************************)
EXTENDS ByteSums

CONSTANTS
    Slots,   \* the concurrent users of the tracker, one buffer each
    Bytes,   \* Bytes[s]: the bytes slot s reserves
    Limit    \* the live memory budget

VARIABLE status   \* status[s]: where slot s is in its reservation

Held == {s \in Slots : status[s] = "held"}

Init == status = [s \in Slots |-> "out"]

Move(s, from, to) == status[s] = from /\ status' = [status EXCEPT ![s] = to]

Ask(s) == Move(s, "out", "asking")

Grant(s) == /\ ByteSum(Held, Bytes) + Bytes[s] <= Limit
            /\ Move(s, "asking", "held")

Refuse(s) == /\ ByteSum(Held, Bytes) + Bytes[s] > Limit
             /\ Move(s, "asking", "refused")

Return(s) == Move(s, "refused", "out")

Release(s) == Move(s, "held", "out")

Next == \E s \in Slots :
          Ask(s) \/ Grant(s) \/ Refuse(s) \/ Return(s) \/ Release(s)

Spec == Init /\ [][Next]_status
=============================================================================
